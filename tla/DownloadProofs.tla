--------------------------- MODULE DownloadProofs ---------------------------
(***************************************************************************)
(* What is proved of Download, in three parts, each resting on the one     *)
(* before, for any number of downloads, codes, names and contents:         *)
(*   1. type correctness, and the agreement of a worker's position with    *)
(*      its fields (Shapes);                                               *)
(*   2. the inductive invariant of DownloadInvariant, and with it Intact   *)
(*      and CheckpointBacked, as long as no code is fetched by both        *)
(*      routes (OneRoute);                                                 *)
(*   3. with hard links, that downloads never replace a file and that      *)
(*      Download implements Placement: link(2) is the one step at which a  *)
(*      name appears.                                                      *)
(***************************************************************************)
EXTENDS DownloadInvariant, SequenceTheorems, TLAPS

-----------------------------------------------------------------------------
(* 1. Types *)

\* What a sender registers is a body with no holes.
LEMMA BytesFromCells == Seq(Cells) \subseteq Bytes
  BY DEF Bytes

\* A worker at rest is a workspace.
LEMMA IdleTyped == Idle \in Workspace
  BY DEF Idle, Workspace, Steps, Bytes

\* Digests, and the absent one, are typed.
LEMMA DigestTyped == /\ \A s \in Bytes : Digest(s) \in Digests
                     /\ NoDigest \in Digests
  BY DEF Digest, Digests, NoDigest

\* The file system hands out an inode nothing refers to.
LEMMA FreshUnused ==
  ASSUME \E i \in Inodes : Unused(i)
  PROVE  Fresh \in Inodes /\ Unused(Fresh)
  BY DEF Fresh

\* A write at an offset leaves bytes, sparse or not.
LEMMA WriteAtTyped ==
  ASSUME NEW s \in Bytes, NEW off \in Nat, NEW x \in Cells \cup {Hole}
  PROVE  WriteAt(s, off, x) \in Bytes
<1> DEFINE m == IF Len(s) > off THEN Len(s) ELSE off + 1
<1>1. m \in Nat /\ Len(s) \in Nat
  BY DEF Bytes
<1>2. \A k \in 1..m : (IF k = off + 1 THEN x ELSE IF k <= Len(s) THEN s[k] ELSE Hole)
                      \in Cells \cup {Hole}
  BY <1>1 DEF Bytes
<1>3. WriteAt(s, off, x) \in [1..m -> Cells \cup {Hole}]
  BY <1>2 DEF WriteAt
<1> QED
  BY <1>1, <1>3 DEF Bytes

\* A write at the end of the partial appends.
LEMMA WriteAtEnd ==
  ASSUME NEW s \in Bytes, NEW x \in Cells \cup {Hole}
  PROVE  WriteAt(s, Len(s), x) = Append(s, x)
<1>1. Len(s) \in Nat
  BY DEF Bytes
<1>2. WriteAt(s, Len(s), x) \in Bytes
  BY <1>1, WriteAtTyped
<1>3. Append(s, x) \in Bytes /\ Len(Append(s, x)) = Len(s) + 1
  BY DEF Bytes
<1>4. WriteAt(s, Len(s), x) = [k \in 1..(Len(s) + 1) |-> IF k = Len(s) + 1 THEN x ELSE
                                   IF k <= Len(s) THEN s[k] ELSE Hole]
  BY <1>1 DEF WriteAt
<1>5. Len(WriteAt(s, Len(s), x)) = Len(s) + 1
  BY <1>1, <1>2, <1>4 DEF Bytes
<1>6. \A k \in 1..(Len(s) + 1) : WriteAt(s, Len(s), x)[k] = Append(s, x)[k]
  BY <1>1, <1>4 DEF Bytes
<1> QED
  BY <1>2, <1>3, <1>5, <1>6, SeqEqual DEF Bytes

-----------------------------------------------------------------------------
(* Type correctness *)

\* The helpers keep the types of what they set.
LEMMA StepsTyped ==
  ASSUME TypeOK, NEW w \in Workers
  PROVE  /\ Return(w) => /\ claims' \subseteq Key
                         /\ dl' \in [Workers -> Workspace]
         /\ \A step \in Steps : Goto(w, step) => dl' \in [Workers -> Workspace]
         /\ dl[w].info # None /\ dl[w].code # None /\ SaveCheckpoint(dl[w])
              => ckpt' \in [Codes -> ResumeState \cup {None}]
         /\ Fault => faults' \in 0..MaxFaults
         /\ Edit => edits' \in 0..MaxEdits
<1>1. dl[w] \in Workspace
  BY DEF TypeOK
<1>2. Len(dl[w].hash) \in Nat
  BY <1>1 DEF Workspace, Bytes
<1>3. ASSUME Return(w) PROVE claims' \subseteq Key /\ dl' \in [Workers -> Workspace]
  BY <1>3, IdleTyped DEF TypeOK, Return
<1>4. ASSUME NEW step \in Steps, Goto(w, step) PROVE dl' \in [Workers -> Workspace]
  BY <1>4, <1>1 DEF TypeOK, Goto, Workspace
<1>5. ASSUME dl[w].info # None, dl[w].code # None, SaveCheckpoint(dl[w])
      PROVE  ckpt' \in [Codes -> ResumeState \cup {None}]
  <2>1. dl[w].info \in Info /\ dl[w].code \in Codes
    BY <1>1, <1>5 DEF Workspace
  <2>2. [name |-> dl[w].info.name, size |-> dl[w].info.size, off |-> Received(dl[w])]
           \in ResumeState
    BY <2>1, <1>2 DEF Info, ResumeState, Received
  <2> QED
    BY <1>5, <2>1, <2>2 DEF SaveCheckpoint, TypeOK
<1>6. Fault => faults' \in 0..MaxFaults
  BY ConstantsAssumption DEF Fault, TypeOK
<1>7. Edit => edits' \in 0..MaxEdits
  BY ConstantsAssumption DEF Edit, TypeOK
<1> QED
  BY <1>3, <1>4, <1>5, <1>6, <1>7

\* The fields of a worker past the start are there.
LEMMA FieldsPresent ==
  ASSUME TypeOK, Shapes, NEW w \in Workers
  PROVE  /\ dl[w] \in Workspace
         /\ dl[w].pc # "idle" => dl[w].code \in Codes /\ dl[w].route \in {"share", "read"}
         /\ dl[w].pc \notin {"idle", "claimed", "loaded"} =>
              /\ dl[w].info \in Info
              /\ Path(dl[w]) \in Codes \X Names
         /\ dl[w].pc \in FileOpen => dl[w].fd \in Inodes
         /\ Received(dl[w]) \in Nat
<1>1. dl[w] \in Workspace /\ Shape(dl[w])
  BY DEF TypeOK, Shapes
<1>2. dl[w].pc # "idle" => dl[w].code \in Codes
  BY <1>1 DEF Workspace, Shape
<1>3. dl[w].pc # "idle" => dl[w].route \in {"share", "read"}
  BY <1>1, <1>2, ConstantsAssumption DEF Shape
<1>4. dl[w].pc \notin {"idle", "claimed", "loaded"} => dl[w].info \in Info
  BY <1>1 DEF Workspace, Shape
<1>5. dl[w].pc \notin {"idle", "claimed", "loaded"} => Path(dl[w]) \in Codes \X Names
  BY <1>2, <1>4 DEF Path, Info
<1>6. dl[w].pc \in FileOpen => dl[w].fd \in Inodes
  BY <1>1 DEF Workspace, Shape
<1>7. Received(dl[w]) \in Nat
  BY <1>1 DEF Workspace, Received, Bytes
<1> QED
  BY <1>1, <1>2, <1>3, <1>4, <1>5, <1>6, <1>7

\* Every step keeps the types.
LEMMA TypePreserved == TypeOK /\ Shapes /\ [Next]_vars => TypeOK'
<1> SUFFICES ASSUME TypeOK, Shapes, [Next]_vars PROVE TypeOK'
  OBVIOUS
<1> USE DEF diskVars, envVars
<1>1. ASSUME NEW c \in Codes, NEW n \in Names, NEW s \in Contents,
             NEW d \in {Digest(s), NoDigest}, Register(c, n, s, d)
      PROVE  TypeOK'
  <2>1. s \in Seq(Cells) /\ s \in Bytes /\ Len(s) \in Nat
    BY ConstantsAssumption, BytesFromCells
  <2>2. d \in Digests
    BY <2>1, DigestTyped
  <2>3. [name |-> n, size |-> Len(s), digest |-> d] \in Info
    BY <2>1, <2>2 DEF Info
  <2>4. vouched' \subseteq Names \X Digests
    BY <1>1, <2>2 DEF Register, TypeOK
  <2>5. edits' \in 0..MaxEdits
    BY <1>1, ConstantsAssumption DEF Register, Edit, TypeOK
  <2> QED
    BY <1>1, <2>1, <2>3, <2>4, <2>5 DEF Register, TypeOK
<1>2. ASSUME NEW c \in Codes, NEW s \in Contents, EditSource(c, s)
      PROVE  TypeOK'
  <2>1. s \in Seq(Cells)
    BY ConstantsAssumption
  <2>2. edits' \in 0..MaxEdits
    BY <1>2, ConstantsAssumption DEF EditSource, Edit, TypeOK
  <2> QED
    BY <1>2, <2>1, <2>2 DEF EditSource, TypeOK
<1>3. ASSUME NEW c \in Codes, Withdraw(c)
      PROVE  TypeOK'
  BY <1>3, ConstantsAssumption DEF Withdraw, Edit, TypeOK
<1>4. ASSUME NEW n \in Names, UserRemoves(n)
      PROVE  TypeOK'
  BY <1>4, ConstantsAssumption DEF UserRemoves, Edit, TypeOK
<1>5. ASSUME NEW n \in Names, NEW s \in Contents, UserPlaces(n, s)
      PROVE  TypeOK'
  <2>1. s \in Bytes /\ Digest(s) \in Digests
    BY ConstantsAssumption, BytesFromCells, DigestTyped
  <2>2. Fresh \in Inodes
    BY <1>5, FreshUnused DEF UserPlaces
  <2>3. edits' \in 0..MaxEdits
    BY <1>5, ConstantsAssumption DEF UserPlaces, Edit, TypeOK
  <2> QED
    BY <1>5, <2>1, <2>2, <2>3 DEF UserPlaces, TypeOK
<1>6. ASSUME NEW w \in Workers, NEW c \in Codes, Resolve(w, c)
      PROVE  TypeOK'
  <2>1. [name |-> offer[c].name, size |-> Len(body[c]), digest |-> offer[c].digest] \in Info
    BY <1>6 DEF Resolve, TypeOK, Info
  <2>2. dl' \in [Workers -> Workspace]
    BY <1>6, <2>1, IdleTyped DEF Resolve, TypeOK, Workspace, Steps, Idle
  <2> QED
    BY <1>6, <2>2 DEF Resolve, TypeOK
<1>7. ASSUME NEW w \in Workers, NEW c \in Codes, ClaimShare(w, c)
      PROVE  TypeOK'
  <2> DEFINE d == [Idle EXCEPT !.pc = "claimed", !.code = c, !.route = "share"]
  <2>1. d \in Workspace
    BY IdleTyped DEF Workspace, Steps, Idle
  <2>2. KeyOf(d) \in Key
    BY DEF KeyOf, Key, Idle
  <2> QED
    BY <1>7, <2>1, <2>2 DEF ClaimShare, TypeOK
<1>8. ASSUME NEW w \in Workers, ClaimResolved(w)
      PROVE  TypeOK'
  <2>1. dl[w].code \in Codes /\ dl[w].info \in Info
    BY <1>8, FieldsPresent DEF ClaimResolved
  <2>2. KeyOf(dl[w]) \in Key
    BY <2>1 DEF KeyOf, Key, Info
  <2>3. dl' \in [Workers -> Workspace]
    BY <1>8, IdleTyped, StepsTyped DEF ClaimResolved, Steps, TypeOK
  <2>4. claims' \subseteq Key
    BY <1>8, <2>2 DEF ClaimResolved, TypeOK
  <2> QED
    BY <1>8, <2>3, <2>4 DEF ClaimResolved, TypeOK
<1>9. ASSUME NEW w \in Workers, ReadHeader(w)
      PROVE  TypeOK'
  <2>1. CASE Served(dl[w])
    <3>1. offer[dl[w].code] \in Info
      BY <1>9, <2>1, FieldsPresent DEF ReadHeader, Served, TypeOK
    <3>2. dl[w] \in Workspace
      BY FieldsPresent
    <3>3. [dl[w] EXCEPT !.pc = "offered", !.info = offer[dl[w].code]] \in Workspace
      BY <3>1, <3>2 DEF Workspace, Steps
    <3>4. dl' = [dl EXCEPT ![w] = [dl[w] EXCEPT !.pc = "offered", !.info = offer[dl[w].code]]]
          /\ UNCHANGED claims
      BY <1>9, <2>1 DEF ReadHeader, TypeOK, Return
    <3>5. dl' \in [Workers -> Workspace]
      BY <3>3, <3>4 DEF TypeOK
    <3> QED
      BY <1>9, <3>4, <3>5 DEF ReadHeader, TypeOK
  <2>2. CASE ~Served(dl[w])
    BY <1>9, <2>2, StepsTyped DEF ReadHeader, TypeOK
  <2> QED
    BY <2>1, <2>2
<1>10. ASSUME NEW w \in Workers, Load(w)
      PROVE  TypeOK'
  <2>1. dl[w].code \in Codes
    BY <1>10, FieldsPresent DEF Load
  <2>2. Resumable(dl[w].code) => ckpt[dl[w].code] \in ResumeState
    BY <2>1 DEF Resumable, TypeOK
  <2> DEFINE r == IF Resumable(dl[w].code) THEN ckpt[dl[w].code] ELSE None
             p == IF dl[w].route = "share" THEN "loaded" ELSE "ready"
  <2>5. dl[w] \in Workspace /\ r \in ResumeState \cup {None} /\ p \in Steps
    BY <2>2, FieldsPresent DEF Steps
  <2>6. [dl[w] EXCEPT !.res = r, !.pc = p] \in Workspace
    BY <2>5 DEF Workspace
  <2>7. dl' = [dl EXCEPT ![w] = [dl[w] EXCEPT !.res = r, !.pc = p]]
    BY <1>10 DEF Load
  <2>3. dl' \in [Workers -> Workspace]
    BY <2>6, <2>7 DEF TypeOK
  <2>4. ckpt' \in [Codes -> ResumeState \cup {None}]
    BY <1>10, <2>1 DEF Load, TypeOK
  <2> QED
    BY <1>10, <2>3, <2>4 DEF Load, TypeOK
<1>11. ASSUME NEW w \in Workers, RefuseUndigested(w)
      PROVE  TypeOK'
  BY <1>11, StepsTyped, FieldsPresent DEF RefuseUndigested, TypeOK
<1>12. ASSUME NEW w \in Workers, CheckDestination(w)
      PROVE  TypeOK'
  <2>1. dl' \in [Workers -> Workspace] /\ claims' \subseteq Key
    BY <1>12, StepsTyped DEF CheckDestination, Steps, TypeOK
  <2> QED
    BY <1>12, <2>1 DEF CheckDestination, TypeOK
<1>13. ASSUME NEW w \in Workers, Abort(w)
      PROVE  TypeOK'
  BY <1>13, StepsTyped DEF Abort, TypeOK
<1>14. ASSUME NEW w \in Workers, Open(w)
      PROVE  TypeOK'
  <2> DEFINE d   == dl[w]
             off == Offset(d)
             new == partial[Path(d)] = None
             i   == IF new THEN Fresh ELSE partial[Path(d)]
             old == IF new THEN <<>> ELSE data[i]
  <2>1. d \in Workspace /\ Path(d) \in Codes \X Names
    BY <1>14, FieldsPresent DEF Open
  <2>2. i \in Inodes
    BY <1>14, <2>1, FreshUnused DEF Open, TypeOK
  <2>3. old \in Bytes
    BY <2>2 DEF TypeOK, Bytes
  <2>4. off \in Nat
    BY <2>1 DEF Offset, Workspace, ResumeState
  <2>5. off <= Len(old) => SubSeq(old, 1, off) \in Bytes
    BY <2>3, <2>4 DEF Bytes
  <2>6. partial' \in [Codes \X Names -> Inodes \cup {None}]
    BY <1>14, <2>1, <2>2 DEF Open, TypeOK
  <2>7. CASE off <= Len(old)
    <3>1. dl' = [dl EXCEPT ![w].pc = "opened", ![w].fd = i, ![w].hash = SubSeq(old, 1, off)]
          /\ data' = [data EXCEPT ![i] = SubSeq(old, 1, off)] /\ UNCHANGED claims
      <4>1. ~(off > Len(old))
        BY <2>7, <2>3, <2>4 DEF Bytes
      <4> QED
        BY Zenon, <1>14, <4>1 DEF Open
    <3>2. dl' \in [Workers -> Workspace]
      BY <3>1, <2>1, <2>2, <2>5, <2>7 DEF TypeOK, Workspace, Steps
    <3> QED
      BY <1>14, <3>1, <3>2, <2>2, <2>5, <2>6, <2>7 DEF Open, TypeOK
  <2>8. CASE ~(off <= Len(old))
    <3>1. Return(w) /\ data' = [data EXCEPT ![i] = old]
      BY <1>14, <2>8, <2>3, <2>4 DEF Open, Bytes
    <3> QED
      BY <1>14, <3>1, <2>2, <2>3, <2>6, StepsTyped DEF Open, TypeOK
  <2> QED
    BY <2>7, <2>8
<1>15. ASSUME NEW w \in Workers, FirstCheckpoint(w)
      PROVE  TypeOK'
  <2>1. dl[w].info # None /\ dl[w].code # None
    BY <1>15, FieldsPresent, ConstantsAssumption DEF FirstCheckpoint, Shapes, Shape
  <2>2. dl' \in [Workers -> Workspace] /\ claims' \subseteq Key
    BY <1>15, StepsTyped DEF FirstCheckpoint, Steps, TypeOK
  <2>3. ckpt' \in [Codes -> ResumeState \cup {None}]
    BY <1>15, <2>1, StepsTyped DEF FirstCheckpoint
  <2> QED
    BY <1>15, <2>2, <2>3 DEF FirstCheckpoint, TypeOK
<1>16. ASSUME NEW w \in Workers, Chunk(w)
      PROVE  TypeOK'
  <2> DEFINE d == dl[w]
             x == body[d.code][Received(d) + 1]
  <2>1. d \in Workspace /\ d.code \in Codes /\ d.fd \in Inodes /\ Received(d) \in Nat
    BY <1>16, FieldsPresent DEF Chunk, FileOpen
  <2>2. x \in Cells \cup {Hole}
    BY <1>16, <2>1 DEF Chunk, TypeOK
  <2>3. WriteAt(data[d.fd], Received(d), x) \in Bytes
    BY <2>1, <2>2, WriteAtTyped DEF TypeOK
  <2>4. Append(d.hash, x) \in Bytes
    BY <2>1, <2>2 DEF Workspace, Bytes
  <2>5. dl' \in [Workers -> Workspace]
    BY <1>16, <2>1, <2>4 DEF Chunk, TypeOK, Workspace, Steps
  <2> QED
    BY <1>16, <2>1, <2>3, <2>5 DEF Chunk, TypeOK
<1>17. ASSUME NEW w \in Workers, EndOfBody(w)
      PROVE  TypeOK'
  BY <1>17, StepsTyped DEF EndOfBody, Steps, TypeOK
<1>18. ASSUME NEW w \in Workers, Interrupt(w)
      PROVE  TypeOK'
  <2>1. dl[w].info # None /\ dl[w].code # None
    BY <1>18 DEF Interrupt, Shapes, Shape
  <2> QED
    BY <1>18, <2>1, StepsTyped DEF Interrupt, TypeOK
<1>19. ASSUME NEW w \in Workers, Truncated(w)
      PROVE  TypeOK'
  <2>1. dl[w].info # None /\ dl[w].code # None
    BY <1>19 DEF Truncated, Shapes, Shape
  <2> QED
    BY <1>19, <2>1, StepsTyped DEF Truncated, TypeOK
<1>20. ASSUME NEW w \in Workers, Verify(w)
      PROVE  TypeOK'
  <2>1. dl[w].info # None /\ dl[w].code # None
    BY <1>20 DEF Verify, Shapes, Shape
  <2>2. ckpt' \in [Codes -> ResumeState \cup {None}]
    BY <1>20, <2>1, StepsTyped DEF Verify, TypeOK
  <2>3. dl' \in [Workers -> Workspace]
    <3>1. \E p \in {"verified", "discard"} :
             dl' = [dl EXCEPT ![w] = [dl[w] EXCEPT !.pc = p, !.fd = None]]
      BY <1>20 DEF Verify
    <3>2. dl[w] \in Workspace
      BY FieldsPresent
    <3>3. \A p \in {"verified", "discard"} : [dl[w] EXCEPT !.pc = p, !.fd = None] \in Workspace
      BY <3>2 DEF Workspace, Steps
    <3> QED
      BY <3>1, <3>3 DEF TypeOK
  <2> QED
    BY <1>20, <2>2, <2>3 DEF Verify, TypeOK
<1>21. ASSUME NEW w \in Workers, Link(w)
      PROVE  TypeOK'
  <2>1. Path(dl[w]) \in Codes \X Names
    BY <1>21, FieldsPresent DEF Link
  <2>2. dl' \in [Workers -> Workspace]
    BY <1>21, StepsTyped DEF Link, Steps
  <2>3. dest' \in [Names -> Inodes \cup {None}]
    BY <1>21, <2>1 DEF Link, TypeOK
  <2> QED
    BY <1>21, <2>2, <2>3 DEF Link, TypeOK
<1>22. ASSUME NEW w \in Workers, Unlink(w)
      PROVE  TypeOK'
  <2>1. dl' \in [Workers -> Workspace]
    BY <1>22, StepsTyped DEF Unlink, Steps
  <2> QED
    BY <1>22, <2>1 DEF Unlink, TypeOK
<1>23. ASSUME NEW w \in Workers, CheckAgain(w)
      PROVE  TypeOK'
  <2>1. dl' \in [Workers -> Workspace]
    BY <1>23, StepsTyped DEF CheckAgain, Steps
  <2> QED
    BY <1>23, <2>1 DEF CheckAgain, TypeOK
<1>24. ASSUME NEW w \in Workers, Rename(w)
      PROVE  TypeOK'
  <2>1. Path(dl[w]) \in Codes \X Names
    BY <1>24, FieldsPresent DEF Rename
  <2>2. dl' \in [Workers -> Workspace]
    BY <1>24, StepsTyped DEF Rename, Steps
  <2>3. dest' \in [Names -> Inodes \cup {None}] /\ partial' \in [Codes \X Names -> Inodes \cup {None}]
    BY <1>24, <2>1 DEF Rename, TypeOK
  <2> QED
    BY <1>24, <2>2, <2>3 DEF Rename, TypeOK
<1>25. ASSUME NEW w \in Workers, PublishFails(w)
      PROVE  TypeOK'
  BY <1>25, StepsTyped DEF PublishFails, Steps, TypeOK
<1>26. ASSUME NEW w \in Workers, Discard(w)
      PROVE  TypeOK'
  <2>1. dl' \in [Workers -> Workspace]
    BY <1>26, StepsTyped DEF Discard, Steps
  <2> QED
    BY <1>26, <2>1 DEF Discard, TypeOK
<1>27. ASSUME NEW w \in Workers, ClearCheckpoint(w)
      PROVE  TypeOK'
  BY <1>27, StepsTyped DEF ClearCheckpoint, TypeOK
<1>28. CASE Crash
  BY <1>28, IdleTyped, ConstantsAssumption DEF Crash, Fault, TypeOK
<1>29. CASE UNCHANGED vars
  BY <1>29 DEF vars, TypeOK
<1> QED
  BY <1>1, <1>2, <1>3, <1>4, <1>5, <1>6, <1>7, <1>8, <1>9, <1>10, <1>11, <1>12, <1>13, <1>14,
     <1>15, <1>16, <1>17, <1>18, <1>19, <1>20, <1>21, <1>22, <1>23, <1>24, <1>25, <1>26, <1>27,
     <1>28, <1>29 DEF Next, Environment, Begin, Proceed, Fail

-----------------------------------------------------------------------------
(* The shape of a worker's state *)

\* What the two ways to move on do to every worker.
LEMMA Moves ==
  ASSUME TypeOK, NEW w \in Workers
  PROVE  /\ Return(w) => /\ dl'[w] = Idle
                         /\ \A v \in Workers \ {w} : dl'[v] = dl[v]
         /\ \A step \in Steps :
              Goto(w, step) => /\ dl'[w] = [dl[w] EXCEPT !.pc = step]
                               /\ \A v \in Workers \ {w} : dl'[v] = dl[v]
  BY DEF TypeOK, Return, Goto

\* The same, field by field.
LEMMA GotoFields ==
  ASSUME TypeOK, NEW w \in Workers, NEW step \in Steps, Goto(w, step)
  PROVE  /\ dl'[w].pc = step
         /\ dl'[w].code = dl[w].code
         /\ dl'[w].route = dl[w].route
         /\ dl'[w].info = dl[w].info
         /\ dl'[w].res = dl[w].res
         /\ dl'[w].fd = dl[w].fd
         /\ dl'[w].hash = dl[w].hash
         /\ \A v \in Workers \ {w} : dl'[v] = dl[v]
<1>1. dl[w] \in Workspace
  BY DEF TypeOK
<1>2. dl'[w] = [dl[w] EXCEPT !.pc = step] /\ \A v \in Workers \ {w} : dl'[v] = dl[v]
  BY Moves
<1> QED
  BY <1>1, <1>2 DEF Workspace

\* The fields of a worker at rest are absent.
LEMMA IdleShape == Shape(Idle)
  BY ConstantsAssumption DEF Shape, Idle, FileOpen

\* A goroutine that returns leaves nothing behind in its record.
LEMMA ShapeAfterReturn ==
  ASSUME TypeOK, Shapes, NEW w \in Workers, Return(w)
  PROVE  Shapes'
<1> SUFFICES ASSUME NEW v \in Workers PROVE Shape(dl'[v])
  BY DEF Shapes
<1>1. CASE v = w
  BY <1>1, Moves, IdleShape
<1>2. CASE v # w
  BY <1>2, Moves DEF Shapes
<1> QED
  BY <1>1, <1>2

\* A step moves on without touching the fields Shape speaks of.
LEMMA ShapeAfterGoto ==
  ASSUME TypeOK, Shapes, NEW w \in Workers, NEW step \in Steps, Goto(w, step),
         dl[w].pc \notin {"idle", "claimed", "loaded"},
         step \notin {"idle", "resolved", "claimed", "loaded", "offered"},
         step \in {"admitted", "checked"} => dl[w].route = "read",
         dl[w].pc \in FileOpen <=> step \in FileOpen
  PROVE  Shapes'
<1> SUFFICES ASSUME NEW v \in Workers PROVE Shape(dl'[v])
  BY DEF Shapes
<1>1. CASE v = w
  BY <1>1, GotoFields DEF Shapes, Shape, FileOpen
<1>2. CASE v # w
  BY <1>2, GotoFields DEF Shapes
<1> QED
  BY <1>1, <1>2

\* Every step keeps each worker's fields in line with its position.
LEMMA ShapesPreserved == TypeOK /\ Shapes /\ [Next]_vars => Shapes'
<1> SUFFICES ASSUME TypeOK, Shapes, [Next]_vars PROVE Shapes'
  OBVIOUS
<1>1. CASE Environment
  BY <1>1 DEF Environment, Register, EditSource, Withdraw, UserPlaces, UserRemoves, Shapes
<1>2. ASSUME NEW w \in Workers, NEW c \in Codes, Resolve(w, c) PROVE Shapes'
  <2> DEFINE i == [name |-> offer[c].name, size |-> Len(body[c]), digest |-> offer[c].digest]
             d == [Idle EXCEPT !.pc = "resolved", !.code = c, !.route = "read", !.info = i]
  <2>1. i \in Info
    BY <1>2 DEF Resolve, TypeOK, Info
  <2>2. Shape(d)
    BY <1>2, <2>1, ConstantsAssumption, NoneAssumption DEF Resolve, Shape, Idle, FileOpen
  <2>3. dl' = [dl EXCEPT ![w] = d]
    BY <1>2 DEF Resolve
  <2> QED
    BY <2>2, <2>3 DEF TypeOK, Shapes
<1>3. ASSUME NEW w \in Workers, NEW c \in Codes, ClaimShare(w, c) PROVE Shapes'
  <2> DEFINE d == [Idle EXCEPT !.pc = "claimed", !.code = c, !.route = "share"]
  <2>1. Shape(d)
    BY <1>3, ConstantsAssumption DEF ClaimShare, Shape, Idle, FileOpen
  <2>2. dl' = [dl EXCEPT ![w] = d]
    BY <1>3 DEF ClaimShare
  <2> QED
    BY <2>1, <2>2 DEF TypeOK, Shapes
<1>4. ASSUME NEW w \in Workers, ClaimResolved(w) PROVE Shapes'
  <2>1. dl[w].route = "read"
    BY <1>4 DEF ClaimResolved, Shapes, Shape
  <2>2. CASE Goto(w, "admitted")
    BY <1>4, <2>1, <2>2, ShapeAfterGoto DEF ClaimResolved, Steps, FileOpen
  <2>3. CASE dl' = [dl EXCEPT ![w] = Idle]
    BY <2>3, IdleShape DEF TypeOK, Shapes
  <2> QED
    BY <1>4, <2>2, <2>3 DEF ClaimResolved
<1>5. ASSUME NEW w \in Workers, ReadHeader(w) PROVE Shapes'
  <2>1. CASE Served(dl[w])
    <3> DEFINE d == [dl[w] EXCEPT !.pc = "offered", !.info = offer[dl[w].code]]
    <3>1. offer[dl[w].code] \in Info /\ dl[w] \in Workspace /\ Shape(dl[w])
      BY <1>5, <2>1, FieldsPresent DEF ReadHeader, Served, TypeOK, Shapes
    <3>2. Shape(d)
      BY <1>5, <3>1, NoneAssumption DEF ReadHeader, Shape, Workspace, FileOpen
    <3>3. dl' = [dl EXCEPT ![w] = d]
      BY <1>5, <2>1 DEF ReadHeader
    <3> QED
      BY <3>2, <3>3 DEF TypeOK, Shapes
  <2>2. CASE ~Served(dl[w])
    BY <1>5, <2>2, ShapeAfterReturn DEF ReadHeader
  <2> QED
    BY <2>1, <2>2
<1>6. ASSUME NEW w \in Workers, Load(w) PROVE Shapes'
  <2> DEFINE r == IF Resumable(dl[w].code) THEN ckpt[dl[w].code] ELSE None
             d == [dl[w] EXCEPT !.res = r,
                                !.pc = IF dl[w].route = "share" THEN "loaded" ELSE "ready"]
  <2>1. dl[w] \in Workspace /\ Shape(dl[w])
    BY FieldsPresent DEF Shapes
  <2>2. Shape(d)
    BY <1>6, <2>1 DEF Load, Shape, Workspace, FileOpen
  <2>3. dl' = [dl EXCEPT ![w] = d]
    BY <1>6 DEF Load
  <2> QED
    BY <2>2, <2>3 DEF TypeOK, Shapes
<1>7. ASSUME NEW w \in Workers, CheckDestination(w) PROVE Shapes'
  <2>1. dl[w].route = "share" \/ dl[w].route = "read"
    BY <1>7, FieldsPresent DEF CheckDestination
  <2>2. CASE Return(w)
    BY <2>2, ShapeAfterReturn
  <2>3. CASE Goto(w, IF dl[w].route = "share" THEN "ready" ELSE "checked")
    <3>1. CASE dl[w].route = "share"
      BY <1>7, <2>3, <3>1, ShapeAfterGoto DEF CheckDestination, Steps, FileOpen
    <3>2. CASE dl[w].route = "read"
      BY <1>7, <2>3, <3>2, ShapeAfterGoto DEF CheckDestination, Steps, FileOpen
    <3> QED
      BY <2>1, <3>1, <3>2
  <2> QED
    BY <1>7, <2>2, <2>3 DEF CheckDestination
<1>8. ASSUME NEW w \in Workers, Open(w) PROVE Shapes'
  <2> DEFINE d   == dl[w]
             off == Offset(d)
             new == partial[Path(d)] = None
             i   == IF new THEN Fresh ELSE partial[Path(d)]
             old == IF new THEN <<>> ELSE data[i]
             e   == [d EXCEPT !.pc = "opened", !.fd = i, !.hash = SubSeq(old, 1, off)]
  <2>1. d \in Workspace /\ Path(d) \in Codes \X Names /\ Shape(d)
    BY <1>8, FieldsPresent DEF Open, Shapes
  <2>2. i \in Inodes
    BY <1>8, <2>1, FreshUnused DEF Open, TypeOK
  <2>3. CASE Return(w)
    BY <2>3, ShapeAfterReturn
  <2>4. CASE dl' = [dl EXCEPT ![w].pc = "opened", ![w].fd = i, ![w].hash = SubSeq(old, 1, off)]
    <3>1. dl' = [dl EXCEPT ![w] = e]
      BY <2>4
    <3>2. Shape(e)
      BY <1>8, <2>1, <2>2, ConstantsAssumption DEF Open, Shape, Workspace, FileOpen
    <3> QED
      BY <3>1, <3>2 DEF TypeOK, Shapes
  <2> QED
    BY <1>8, <2>3, <2>4 DEF Open
<1>9. ASSUME NEW w \in Workers, Chunk(w) PROVE Shapes'
  <2> DEFINE d == dl[w]
             h == Append(d.hash, body[d.code][Received(d) + 1])
             end == IF d.route = "share" THEN d.info.size ELSE Len(body[d.code])
             p == IF Received(d) + 1 = end THEN "complete" ELSE "body"
  <2>1. dl' = [dl EXCEPT ![w] = [d EXCEPT !.hash = h, !.pc = p]]
    BY <1>9 DEF Chunk
  <2>2. d \in Workspace /\ Shape(d) /\ d.pc = "body" /\ p \in {"complete", "body"}
    BY <1>9, FieldsPresent DEF Shapes, Chunk
  <2> HIDE DEF h, p
  <2>3. Shape([d EXCEPT !.hash = h, !.pc = p])
    BY <2>2 DEF Shape, Workspace, FileOpen
  <2> QED
    BY <2>1, <2>3 DEF TypeOK, Shapes
<1>10. ASSUME NEW w \in Workers, Verify(w) PROVE Shapes'
  <2>1. PICK p \in {"verified", "discard"} :
           dl' = [dl EXCEPT ![w] = [dl[w] EXCEPT !.pc = p, !.fd = None]]
    BY <1>10 DEF Verify
  <2>2. dl[w] \in Workspace /\ Shape(dl[w])
    BY FieldsPresent DEF Shapes
  <2>3. Shape([dl[w] EXCEPT !.pc = p, !.fd = None])
    BY <1>10, <2>2 DEF Verify, Shape, Workspace, FileOpen
  <2> QED
    BY <2>1, <2>3 DEF TypeOK, Shapes
<1>11. ASSUME NEW w \in Workers,
              RefuseUndigested(w) \/ Truncated(w) \/ ClearCheckpoint(w) \/ Abort(w) \/ Interrupt(w)
       PROVE  Shapes'
  BY <1>11, ShapeAfterReturn DEF RefuseUndigested, Truncated, ClearCheckpoint, Abort, Interrupt
<1>12. ASSUME NEW w \in Workers, FirstCheckpoint(w) PROVE Shapes'
  <2>1. CASE Return(w)
    BY <2>1, ShapeAfterReturn
  <2>2. CASE \E p \in {"complete", "body"} : Goto(w, p)
    BY <1>12, <2>2, ShapeAfterGoto DEF FirstCheckpoint, Steps, FileOpen
  <2> QED
    BY <1>12, <2>1, <2>2 DEF FirstCheckpoint
<1>13. ASSUME NEW w \in Workers, EndOfBody(w) PROVE Shapes'
  BY <1>13, ShapeAfterGoto DEF EndOfBody, Steps, FileOpen
<1>14. ASSUME NEW w \in Workers,
              Link(w) \/ Unlink(w) \/ CheckAgain(w) \/ Rename(w) \/ Discard(w) \/ PublishFails(w)
       PROVE  Shapes'
  <2>1. dl[w].pc \in {"verified", "linked", "free", "discard"}
    BY <1>14 DEF Link, Unlink, CheckAgain, Rename, Discard, PublishFails
  <2>2. \E p \in {"linked", "discard", "landed", "free", "discarded"} : Goto(w, p)
    BY <1>14 DEF Link, Unlink, CheckAgain, Rename, Discard, PublishFails
  <2> QED
    BY <2>1, <2>2, ShapeAfterGoto DEF Steps, FileOpen
<1>15. CASE Crash
  BY <1>15, IdleShape DEF Crash, Shapes
<1>16. CASE UNCHANGED vars
  BY <1>16 DEF vars, Shapes
<1> QED
  BY <1>1, <1>2, <1>3, <1>4, <1>5, <1>6, <1>7, <1>8, <1>9, <1>10, <1>11, <1>12, <1>13, <1>14,
     <1>15, <1>16 DEF Next, Begin, Proceed, Fail

\* The values of every variable stay in their types, in every instance.
THEOREM TypeCorrect == Spec => []TypeOK
<1>1. Init => TypeOK /\ Shapes
  BY IdleTyped, IdleShape, ConstantsAssumption DEF Init, TypeOK, Shapes, Bytes
<1>2. TypeOK /\ Shapes /\ [Next]_vars => TypeOK' /\ Shapes'
  BY TypePreserved, ShapesPreserved
<1> QED
  BY <1>1, <1>2, PTL DEF Spec

-----------------------------------------------------------------------------
(* 2. Writers kept apart *)

\* What a running download does to its own record: it returns, it claims, or
\* it keeps its code and route and, once known, what it was told of the file.
LEMMA Continues ==
  ASSUME TypeOK, Shapes, NEW w \in Workers, Proceed(w) \/ Fail(w)
  PROVE  /\ \A v \in Workers \ {w} : dl'[v] = dl[v]
         /\ \/ ClaimResolved(w)
            \/ Active(w) /\ Return(w)
            \/ /\ Active(w) /\ Active(w)'
               /\ claims' = claims
               /\ dl'[w].code = dl[w].code /\ dl'[w].route = dl[w].route
               /\ \/ dl'[w].info = dl[w].info
                  \/ /\ dl[w].pc = "loaded"
                     /\ offer[dl[w].code] \in Info
                     /\ dl'[w].info = offer[dl[w].code]
<1>0. dl[w] \in Workspace /\ dl \in [Workers -> Workspace]
  BY DEF TypeOK
<1>1. CASE Return(w) /\ Active(w)
  BY <1>1, Moves
<1>2. CASE ClaimResolved(w)
  BY <1>2, <1>0 DEF ClaimResolved, Goto
<1>3. ASSUME NEW p \in Steps \ {"idle", "resolved"}, Goto(w, p), Active(w), claims' = claims
      PROVE  /\ \A v \in Workers \ {w} : dl'[v] = dl[v]
             /\ Active(w)' /\ dl'[w].code = dl[w].code /\ dl'[w].route = dl[w].route
             /\ dl'[w].info = dl[w].info
  BY <1>3, GotoFields DEF Active
<1>4. CASE ReadHeader(w)
  <2>1. CASE Served(dl[w])
    <3>1. offer[dl[w].code] \in Info
      BY <1>4, <2>1, FieldsPresent DEF ReadHeader, Served, TypeOK
    <3>2. dl' = [dl EXCEPT ![w] = [dl[w] EXCEPT !.pc = "offered", !.info = offer[dl[w].code]]]
          /\ claims' = claims
      BY <1>4, <2>1 DEF ReadHeader
    <3> QED
      BY <1>4, <1>0, <3>1, <3>2 DEF ReadHeader, Active, Workspace
  <2>2. CASE ~Served(dl[w])
    BY <1>4, <2>2, <1>1 DEF ReadHeader, Active
  <2> QED
    BY <2>1, <2>2
<1>5. CASE Load(w)
  <2> DEFINE r == IF Resumable(dl[w].code) THEN ckpt[dl[w].code] ELSE None
             p == IF dl[w].route = "share" THEN "loaded" ELSE "ready"
  <2>1. dl' = [dl EXCEPT ![w] = [dl[w] EXCEPT !.res = r, !.pc = p]] /\ claims' = claims
    BY <1>5 DEF Load
  <2> QED
    BY <1>5, <1>0, <2>1 DEF Load, Active, Workspace
<1>6. CASE RefuseUndigested(w) \/ Truncated(w) \/ ClearCheckpoint(w) \/ Abort(w) \/ Interrupt(w)
  BY <1>6, <1>1 DEF RefuseUndigested, Truncated, ClearCheckpoint, Abort, Interrupt, Active
<1>7. CASE CheckDestination(w)
  BY <1>7, <1>1, <1>3 DEF CheckDestination, Active, Steps
<1>8. CASE Open(w)
  <2> DEFINE i == IF partial[Path(dl[w])] = None THEN Fresh ELSE partial[Path(dl[w])]
             old == IF partial[Path(dl[w])] = None THEN <<>> ELSE data[i]
             h == SubSeq(old, 1, Offset(dl[w]))
  <2>1. CASE Return(w)
    BY <1>8, <2>1, <1>1 DEF Open, Active
  <2>2. CASE /\ dl' = [dl EXCEPT ![w].pc = "opened", ![w].fd = i, ![w].hash = h]
             /\ claims' = claims
    <3>1. dl' = [dl EXCEPT ![w] = [dl[w] EXCEPT !.pc = "opened", !.fd = i, !.hash = h]]
      BY <2>2
    <3> HIDE DEF i, h
    <3> QED
      BY <1>8, <1>0, <2>2, <3>1 DEF Open, Active, Workspace
  <2> QED
    BY <1>8, <2>1, <2>2 DEF Open
<1>9. CASE FirstCheckpoint(w)
  BY <1>9, <1>1, <1>3 DEF FirstCheckpoint, Active, Steps
<1>10. CASE Chunk(w)
  <2> DEFINE d == dl[w]
             h == Append(d.hash, body[d.code][Received(d) + 1])
             end == IF d.route = "share" THEN d.info.size ELSE Len(body[d.code])
             p == IF Received(d) + 1 = end THEN "complete" ELSE "body"
  <2>1. dl' = [dl EXCEPT ![w] = [d EXCEPT !.hash = h, !.pc = p]] /\ claims' = claims
    BY <1>10 DEF Chunk
  <2>2. d.pc = "body" /\ p \in {"complete", "body"}
    BY <1>10 DEF Chunk
  <2> HIDE DEF h, p
  <2> QED
    BY <1>0, <2>1, <2>2 DEF Active, Workspace
<1>11. CASE Verify(w)
  <2>1. \E p \in {"verified", "discard"} :
           dl' = [dl EXCEPT ![w] = [dl[w] EXCEPT !.pc = p, !.fd = None]]
    BY <1>11 DEF Verify
  <2> QED
    BY <1>0, <1>11, <2>1 DEF Verify, Active, Workspace
<1>12. CASE EndOfBody(w) \/ PublishFails(w)
  BY <1>12, <1>3 DEF EndOfBody, PublishFails, Active, Steps
<1>13. CASE Link(w) \/ Unlink(w) \/ CheckAgain(w) \/ Rename(w) \/ Discard(w)
  <2>1. \E p \in {"linked", "discard", "landed", "free", "discarded"} : Goto(w, p)
    BY <1>13 DEF Link, Unlink, CheckAgain, Rename, Discard
  <2>2. Active(w) /\ claims' = claims
    BY <1>13 DEF Link, Unlink, CheckAgain, Rename, Discard, Active
  <2> QED
    BY <2>1, <2>2, <1>3 DEF Steps
<1> QED
  BY <1>2, <1>4, <1>5, <1>6, <1>7, <1>8, <1>9, <1>10, <1>11, <1>12, <1>13 DEF Proceed, Fail

-----------------------------------------------------------------------------
(* The claims keep downloads apart *)

\* Claims are taken only when free and given back only by their holder.
LEMMA ClaimedPreserved ==
  TypeOK /\ Shapes /\ Claimed /\ [Next]_vars => Claimed'
<1> SUFFICES ASSUME TypeOK, Shapes, Claimed, [Next]_vars PROVE Claimed'
  OBVIOUS
<1>0. \A w \in Workers : dl[w] \in Workspace /\ Shape(dl[w])
  BY DEF TypeOK, Shapes
<1>1. CASE UNCHANGED <<dl, claims>>
  BY <1>1 DEF Claimed, Active, KeyOf
<1>2. ASSUME NEW w \in Workers, NEW c \in Codes, Resolve(w, c) PROVE Claimed'
  <2>1. dl'[w].pc = "resolved" /\ \A v \in Workers \ {w} : dl'[v] = dl[v]
    BY <1>2 DEF Resolve, TypeOK, Idle
  <2> QED
    BY <1>2, <2>1 DEF Resolve, Claimed, Active, KeyOf
<1>3. ASSUME NEW w \in Workers, NEW c \in Codes, ClaimShare(w, c) PROVE Claimed'
  <2> DEFINE d == [Idle EXCEPT !.pc = "claimed", !.code = c, !.route = "share"]
  <2>1. dl'[w] = d /\ \A v \in Workers \ {w} : dl'[v] = dl[v]
    BY <1>3 DEF ClaimShare, TypeOK
  <2>2. KeyOf(d) \notin claims /\ claims' = claims \cup {KeyOf(d)}
    BY <1>3 DEF ClaimShare
  <2>3. KeyOf(dl'[w]) \notin claims /\ claims' = claims \cup {KeyOf(dl'[w])}
    BY <2>1, <2>2
  <2>4. \A v \in Workers \ {w} : (Active(v)' <=> Active(v)) /\ KeyOf(dl'[v]) = KeyOf(dl[v])
    BY <2>1 DEF Active
  <2>5. \A v \in Workers \ {w} : Active(v) => KeyOf(dl[v]) \in claims
    BY DEF Claimed
  <2>6. \A v \in Workers : Active(v)' => KeyOf(dl'[v]) \in claims'
    BY <2>3, <2>4, <2>5
  <2>7. ASSUME NEW u \in Workers, NEW v \in Workers, Active(u)', Active(v)', KeyOf(dl'[u]) = KeyOf(dl'[v])
        PROVE  u = v
    BY <2>7, <2>3, <2>4, <2>5 DEF Claimed
  <2> QED
    BY <2>6, <2>7 DEF Claimed
<1>4. ASSUME NEW w \in Workers, ClaimResolved(w) PROVE Claimed'
  <2>1. CASE KeyOf(dl[w]) \notin claims /\ claims' = claims \cup {KeyOf(dl[w])}
             /\ Goto(w, "admitted")
    <3>1. KeyOf(dl'[w]) = KeyOf(dl[w]) /\ \A v \in Workers \ {w} : dl'[v] = dl[v]
      BY <2>1, GotoFields DEF KeyOf, Steps
    <3> QED
      BY <2>1, <3>1 DEF Claimed, Active, KeyOf
  <2>2. CASE dl' = [dl EXCEPT ![w] = Idle] /\ UNCHANGED claims
    <3>1. dl'[w] = Idle /\ \A v \in Workers \ {w} : dl'[v] = dl[v]
      BY <2>2 DEF TypeOK
    <3> QED
      BY <2>2, <3>1 DEF Claimed, Active, KeyOf, Idle
  <2> QED
    BY <1>4, <2>1, <2>2 DEF ClaimResolved
<1>5. ASSUME NEW w \in Workers, Proceed(w) \/ Fail(w), Active(w), Return(w) PROVE Claimed'
  <2>1. dl'[w] = Idle /\ \A v \in Workers \ {w} : dl'[v] = dl[v]
    BY <1>5, Moves
  <2>2. claims' = claims \ {KeyOf(dl[w])}
    BY <1>5 DEF Return
  <2>3. \A v \in Workers \ {w} : Active(v) => KeyOf(dl[v]) # KeyOf(dl[w])
    BY <1>5 DEF Claimed
  <2> QED
    BY <2>1, <2>2, <2>3 DEF Claimed, Active, KeyOf, Idle
<1>6. ASSUME NEW w \in Workers, Active(w), Active(w)', claims' = claims,
             dl'[w].code = dl[w].code, dl'[w].route = dl[w].route,
             dl'[w].info = dl[w].info \/ dl[w].pc = "loaded",
             \A v \in Workers \ {w} : dl'[v] = dl[v]
      PROVE  Claimed'
  <2>1. dl[w].pc = "loaded" => dl[w].route = "share"
    BY <1>0 DEF Shape
  <2>2. KeyOf(dl'[w]) = KeyOf(dl[w])
    BY <1>6, <2>1 DEF KeyOf
  <2> QED
    BY <1>6, <2>2 DEF Claimed, Active, KeyOf
<1>7. CASE Crash
  BY <1>7 DEF Crash, Claimed, Active, Idle
<1>8. CASE Environment
  BY <1>8, <1>1 DEF Environment, Register, EditSource, Withdraw, UserPlaces, UserRemoves
<1>9. CASE UNCHANGED vars
  BY <1>9, <1>1 DEF vars
<1> QED
  BY <1>2, <1>3, <1>4, <1>5, <1>6, <1>7, <1>8, <1>9, Continues DEF Next, Begin

\* Two downloads of one partial, or of one checkpoint on the share route, are
\* the same download.
LEMMA Exclusive ==
  ASSUME OneRoute, TypeOK, Shapes, Claimed, NEW v \in Workers, NEW w \in Workers,
         Active(v), Active(w), dl[v].code = dl[w].code,
         \/ dl[v].route = "share"
         \/ dl[v].info # None /\ dl[w].info # None /\ dl[v].info.name = dl[w].info.name
  PROVE  v = w
<1>1. dl[v].route \in RoutesOf[dl[v].code] /\ dl[w].route \in RoutesOf[dl[w].code]
      /\ dl[v].code \in Codes /\ dl[v].route \in {"share", "read"} /\ dl[w].route \in {"share", "read"}
  BY FieldsPresent DEF Active, Shapes, Shape
<1>2. dl[v].route = dl[w].route
  BY <1>1 DEF OneRoute
<1>3. KeyOf(dl[v]) = KeyOf(dl[w])
  BY <1>2 DEF KeyOf
<1> QED
  BY <1>3 DEF Claimed

\* A worker compares against a digest that was registered for that name.
LEMMA PromisedPreserved ==
  TypeOK /\ Shapes /\ Promised /\ [Next]_vars => Promised'
<1> SUFFICES ASSUME TypeOK, Shapes, Promised, [Next]_vars PROVE Promised'
  OBVIOUS
<1>1. CASE UNCHANGED <<offer, dl>> /\ vouched \subseteq vouched'
  BY <1>1 DEF Promised, Stands
<1>2. ASSUME NEW c \in Codes, NEW n \in Names, NEW s \in Contents,
             NEW d \in {Digest(s), NoDigest}, Register(c, n, s, d)
      PROVE  Promised'
  <2> DEFINE i == [name |-> n, size |-> Len(s), digest |-> d]
  <2>1. /\ offer' = [offer EXCEPT ![c] = i] /\ UNCHANGED dl /\ vouched \subseteq vouched'
        /\ d # NoDigest => <<n, d>> \in vouched'
    BY <1>2 DEF Register
  <2>2. Stands(i)'
    BY <2>1 DEF Stands
  <2> QED
    BY <2>1, <2>2 DEF Promised, Stands, TypeOK
<1>3. ASSUME NEW c \in Codes, Withdraw(c) PROVE Promised'
  BY <1>3 DEF Withdraw, Promised, Stands, TypeOK
<1>4. ASSUME NEW w \in Workers, NEW c \in Codes, Resolve(w, c) PROVE Promised'
  <2> DEFINE i == [name |-> offer[c].name, size |-> Len(body[c]), digest |-> offer[c].digest]
  <2>1. dl'[w].info = i /\ \A v \in Workers \ {w} : dl'[v] = dl[v]
    BY <1>4 DEF Resolve, TypeOK, Idle
  <2>2. Stands(i)
    BY <1>4 DEF Resolve, Promised, Stands
  <2>3. UNCHANGED <<offer, vouched>>
    BY <1>4 DEF Resolve, envVars
  <2> QED
    BY <2>1, <2>2, <2>3 DEF Promised, Stands
<1>5. ASSUME NEW w \in Workers, NEW c \in Codes, ClaimShare(w, c) PROVE Promised'
  <2>1. dl'[w].info = None /\ \A v \in Workers \ {w} : dl'[v] = dl[v]
    BY <1>5 DEF ClaimShare, TypeOK, Idle
  <2> QED
    BY <1>5, <2>1 DEF ClaimShare, envVars, Promised, Stands
<1>6. ASSUME NEW w \in Workers, Proceed(w) \/ Fail(w) PROVE Promised'
  <2>1. UNCHANGED <<offer, vouched>>
    BY <1>6 DEF Proceed, Fail, ClaimResolved, ReadHeader, Load, RefuseUndigested, CheckDestination,
        Open, FirstCheckpoint, Chunk, EndOfBody, Truncated, Verify, Link, Unlink, CheckAgain,
        Rename, Discard, ClearCheckpoint, Abort, Interrupt, PublishFails, envVars
  <2>2. CASE Return(w)
    BY <2>1, <2>2, Moves DEF Promised, Stands, Idle
  <2>3. CASE ClaimResolved(w)
    <3>1. CASE Goto(w, "admitted")
      BY <2>1, <3>1, GotoFields DEF Promised, Stands, Steps
    <3>2. CASE dl' = [dl EXCEPT ![w] = Idle]
      BY <2>1, <3>2 DEF Promised, Stands, Idle, TypeOK
    <3> QED
      BY <2>3, <3>1, <3>2 DEF ClaimResolved
  <2>4. CASE dl'[w].info = dl[w].info /\ \A v \in Workers \ {w} : dl'[v] = dl[v]
    BY <2>1, <2>4 DEF Promised, Stands
  <2>5. CASE /\ dl[w].code \in Codes /\ dl'[w].info = offer[dl[w].code]
             /\ \A v \in Workers \ {w} : dl'[v] = dl[v]
    BY <2>1, <2>5 DEF Promised, Stands
  <2> QED
    BY <1>6, <2>2, <2>3, <2>4, <2>5, Continues, FieldsPresent DEF Active
<1>7. CASE Crash
  BY <1>7 DEF Crash, envVars, Promised, Stands, Idle
<1>8. CASE UNCHANGED vars
  BY <1>8, <1>1 DEF vars, envVars
<1>9. ASSUME NEW n \in Names, UserRemoves(n) PROVE Promised'
  BY <1>9, <1>1 DEF UserRemoves, envVars
<1>10. ASSUME NEW n \in Names, NEW s \in Contents, UserPlaces(n, s) PROVE Promised'
  BY <1>10, <1>1 DEF UserPlaces, envVars
<1>11. ASSUME NEW c \in Codes, NEW s \in Contents, EditSource(c, s) PROVE Promised'
  BY <1>11, <1>1 DEF EditSource
<1> QED
  BY <1>2, <1>3, <1>4, <1>5, <1>6, <1>7, <1>8, <1>9, <1>10, <1>11
     DEF Next, Environment, Begin

-----------------------------------------------------------------------------
(* Partials and published files are different inodes *)

\* A download starts to hold a partial's path when it finds the destination
\* free, or when the partial is already gone.
LEMMA EntersStaging ==
  ASSUME TypeOK, Shapes, NEW w \in Workers, Proceed(w) \/ Fail(w),
         dl'[w].pc \in Staging
  PROVE  /\ Path(dl'[w]) = Path(dl[w])
         /\ \/ dl[w].pc \in Staging
            \/ dest[dl[w].info.name] = None /\ UNCHANGED <<dest, partial>>
            \/ partial[Path(dl[w])] = None /\ Unlink(w)
<1>0. dl[w] \in Workspace /\ dl \in [Workers -> Workspace]
  BY DEF TypeOK
<1>1. ~ Return(w)
  BY Moves DEF Staging, Idle
<1>2. ASSUME NEW p \in Steps, Goto(w, p) PROVE Path(dl'[w]) = Path(dl[w]) /\ dl'[w].pc = p
  BY <1>2, GotoFields DEF Path
<1>3. CASE ClaimResolved(w)
  <2>1. CASE Goto(w, "admitted")
    BY <2>1, <1>2 DEF Staging, Steps
  <2>2. CASE dl' = [dl EXCEPT ![w] = Idle]
    BY <2>2, <1>0 DEF Staging, Idle
  <2> QED
    BY <1>3, <2>1, <2>2 DEF ClaimResolved
<1>4. CASE ReadHeader(w)
  <2>1. dl' = [dl EXCEPT ![w] = [dl[w] EXCEPT !.pc = "offered", !.info = offer[dl[w].code]]]
    BY <1>4, <1>1 DEF ReadHeader
  <2> QED
    BY <1>0, <2>1 DEF Staging, Workspace
<1>5. CASE Load(w)
  <2> DEFINE r == IF Resumable(dl[w].code) THEN ckpt[dl[w].code] ELSE None
             p == IF dl[w].route = "share" THEN "loaded" ELSE "ready"
  <2>1. dl' = [dl EXCEPT ![w] = [dl[w] EXCEPT !.res = r, !.pc = p]]
    BY <1>5 DEF Load
  <2>2. dl[w].pc = "claimed" => dl[w].route = "share"
    BY DEF Shapes, Shape
  <2>3. dl[w].pc \in {"claimed", "checked"}
    BY <1>5 DEF Load
  <2> HIDE DEF r
  <2> QED
    BY <1>0, <2>1, <2>2, <2>3 DEF Staging, Workspace, Path
<1>6. CASE RefuseUndigested(w) \/ Truncated(w) \/ ClearCheckpoint(w) \/ Abort(w) \/ Interrupt(w)
  BY <1>6, <1>1 DEF RefuseUndigested, Truncated, ClearCheckpoint, Abort, Interrupt
<1>7. CASE CheckDestination(w)
  BY <1>7, <1>1, <1>2 DEF CheckDestination, Steps, diskVars
<1>8. CASE Open(w)
  <2> DEFINE i == IF partial[Path(dl[w])] = None THEN Fresh ELSE partial[Path(dl[w])]
             old == IF partial[Path(dl[w])] = None THEN <<>> ELSE data[i]
             h == SubSeq(old, 1, Offset(dl[w]))
  <2>1. dl' = [dl EXCEPT ![w].pc = "opened", ![w].fd = i, ![w].hash = h]
    BY <1>8, <1>1 DEF Open
  <2>2. dl' = [dl EXCEPT ![w] = [dl[w] EXCEPT !.pc = "opened", !.fd = i, !.hash = h]]
    BY <2>1
  <2>3. dl[w].pc \in Staging
    BY <1>8 DEF Open, Staging
  <2> HIDE DEF i, h
  <2> QED
    BY <1>0, <2>2, <2>3 DEF Workspace, Path
<1>9. CASE FirstCheckpoint(w) \/ EndOfBody(w) \/ CheckAgain(w) \/ PublishFails(w) \/ Rename(w) \/ Discard(w)
  <2>1. dl[w].pc \in Staging
    BY <1>9 DEF FirstCheckpoint, EndOfBody, CheckAgain, PublishFails, Rename, Discard, Staging
  <2>2. \E p \in {"complete", "body", "free", "discard", "landed", "discarded"} : Goto(w, p)
    BY <1>9, <1>1 DEF FirstCheckpoint, EndOfBody, CheckAgain, PublishFails, Rename, Discard
  <2> QED
    BY <2>1, <2>2, <1>2 DEF Steps
<1>10. CASE Chunk(w)
  <2> DEFINE d == dl[w]
             h == Append(d.hash, body[d.code][Received(d) + 1])
             end == IF d.route = "share" THEN d.info.size ELSE Len(body[d.code])
             p == IF Received(d) + 1 = end THEN "complete" ELSE "body"
  <2>1. dl' = [dl EXCEPT ![w] = [d EXCEPT !.hash = h, !.pc = p]]
    BY <1>10 DEF Chunk
  <2>2. d.pc \in Staging
    BY <1>10 DEF Chunk, Staging
  <2> HIDE DEF h, p
  <2> QED
    BY <1>0, <2>1, <2>2 DEF Workspace, Path
<1>11. CASE Verify(w)
  <2>1. \E p \in {"verified", "discard"} :
           dl' = [dl EXCEPT ![w] = [dl[w] EXCEPT !.pc = p, !.fd = None]]
    BY <1>11 DEF Verify
  <2>2. dl[w].pc \in Staging
    BY <1>11 DEF Verify, Staging
  <2> QED
    BY <1>0, <2>1, <2>2 DEF Workspace, Path
<1>12. CASE Link(w)
  <2>1. dl[w].pc \in Staging
    BY <1>12 DEF Link, Staging
  <2> QED
    BY <1>12, <2>1, <1>2 DEF Link, Steps
<1>13. CASE Unlink(w)
  <2>1. partial[Path(dl[w])] = None
    BY <1>13, <1>2 DEF Unlink, Steps, Staging
  <2>2. Goto(w, "discard")
    BY <1>13, <2>1 DEF Unlink
  <2> QED
    BY <1>13, <2>1, <2>2, <1>2 DEF Steps
<1> QED
  BY <1>3, <1>4, <1>5, <1>6, <1>7, <1>8, <1>9, <1>10, <1>11, <1>12, <1>13 DEF Proceed, Fail

\* Past the destination check, a worker knows its partial.
LEMMA StagingKnown ==
  ASSUME TypeOK, Shapes, NEW w \in Workers, dl[w].pc \in Staging
  PROVE  Active(w) /\ dl[w].info # None /\ dl[w].info \in Info /\ Path(dl[w]) \in Codes \X Names
  BY FieldsPresent DEF Shapes, Shape, Staging, Active

\* Workers with the same partial hold the same claim, so they are one.
LEMMA PathsApart ==
  ASSUME OneRoute, TypeOK, Shapes, Claimed, NEW v \in Workers, NEW w \in Workers,
         Active(v), Active(w), dl[v].info # None, dl[w].info # None, Path(dl[v]) = Path(dl[w])
  PROVE  v = w
  BY Exclusive DEF Path

\* No two partials share an inode.
Injective ==
  \A p, q \in Codes \X Names : partial[p] # None /\ partial[p] = partial[q] => p = q

\* A published file keeps its inode apart from every partial in use.
Apart ==
  \A n \in Names, p \in Codes \X Names :
     dest[n] # None /\ dest[n] = partial[p] =>
        /\ n = p[2]
        /\ \A w \in Workers : dl[w].pc \in Staging => Path(dl[w]) # p

\* Separate in the two parts its proof takes one by one.
LEMMA SeparateParts == Separate <=> Injective /\ Apart
  BY DEF Separate, Injective, Apart

\* No step makes two names share an inode, but the link of a verified partial.
LEMMA SeparatePreserved ==
  OneRoute /\ TypeOK /\ Shapes /\ Claimed /\ Separate /\ [Next]_vars => Separate'
<1> SUFFICES ASSUME OneRoute, TypeOK, Shapes, Claimed, Separate, [Next]_vars
             PROVE  Injective' /\ Apart'
  BY SeparateParts DEF Separate, Injective, Apart
<1>0. Injective /\ Apart
  BY SeparateParts
<1>1. CASE UNCHANGED <<dest, partial, dl>>
  BY <1>0, <1>1 DEF Injective, Apart
<1>2. ASSUME NEW n \in Names, UserRemoves(n) PROVE Injective' /\ Apart'
  BY <1>0, <1>2 DEF UserRemoves, Injective, Apart, TypeOK
<1>3. ASSUME NEW n \in Names, NEW s \in Contents, UserPlaces(n, s) PROVE Injective' /\ Apart'
  <2>1. Fresh \in Inodes /\ Unused(Fresh)
    BY <1>3, FreshUnused DEF UserPlaces
  <2>2. dest' = [dest EXCEPT ![n] = Fresh] /\ UNCHANGED <<partial, dl>>
    BY <1>3 DEF UserPlaces
  <2> QED
    BY <1>0, <2>1, <2>2 DEF Unused, Injective, Apart, TypeOK
<1>4. ASSUME NEW w \in Workers, Begin(w) PROVE Injective' /\ Apart'
  <2>1. UNCHANGED <<dest, partial>>
    BY <1>4 DEF Begin, Resolve, ClaimShare, diskVars
  <2>2. ASSUME NEW d, d.pc \notin Staging, dl' = [dl EXCEPT ![w] = d]
        PROVE  dl'[w].pc \notin Staging /\ \A v \in Workers \ {w} : dl'[v] = dl[v]
    BY <2>2 DEF TypeOK
  <2>3. dl'[w].pc \notin Staging /\ \A v \in Workers \ {w} : dl'[v] = dl[v]
    <3>1. CASE \E c \in Codes : Resolve(w, c)
      BY <2>2, <3>1 DEF Resolve, Idle, Staging
    <3>2. CASE \E c \in Codes : ClaimShare(w, c)
      BY <2>2, <3>2 DEF ClaimShare, Idle, Staging
    <3> QED
      BY <1>4, <3>1, <3>2 DEF Begin
  <2> QED
    BY <1>0, <2>1, <2>3 DEF Injective, Apart
<1>5. ASSUME NEW w \in Workers, Proceed(w) \/ Fail(w) PROVE Injective' /\ Apart'
  <2>1. \A v \in Workers \ {w} : dl'[v] = dl[v]
    BY <1>5, Continues
  <2>2. CASE UNCHANGED <<dest, partial>>
    <3>1. dl'[w].pc \in Staging =>
            /\ Path(dl'[w]) = Path(dl[w])
            /\ dl[w].pc \in Staging \/ dest[dl[w].info.name] = None \/ partial[Path(dl[w])] = None
      BY <1>5, EntersStaging
    <3>2. Path(dl[w])[2] = dl[w].info.name
      BY DEF Path
    <3> QED
      BY <1>0, <2>1, <2>2, <3>1, <3>2 DEF Injective, Apart
  <2>3. CASE Open(w)
    <3> DEFINE i == IF partial[Path(dl[w])] = None THEN Fresh ELSE partial[Path(dl[w])]
    <3>1. dl[w].pc \in Staging /\ Path(dl[w]) \in Codes \X Names
      BY <2>3, FieldsPresent DEF Open, Staging
    <3>2. partial' = [partial EXCEPT ![Path(dl[w])] = i] /\ UNCHANGED dest
      BY <2>3 DEF Open
    <3>3. dl'[w].pc \in Staging => Path(dl'[w]) = Path(dl[w])
      BY <1>5, EntersStaging
    <3>4. CASE partial[Path(dl[w])] # None
      <4>1. UNCHANGED partial
        BY <3>1, <3>2, <3>4 DEF TypeOK
      <4> QED
        BY <2>2, <3>2, <4>1
    <3>5. CASE partial[Path(dl[w])] = None
      <4>1. i \in Inodes /\ Unused(i)
        BY <2>3, <3>5, FreshUnused DEF Open
      <4>2. \A p \in Codes \X Names : partial'[p] = IF p = Path(dl[w]) THEN i ELSE partial[p]
        BY <3>1, <3>2 DEF TypeOK
      <4> HIDE DEF i
      <4>3. Injective'
        BY <1>0, <4>1, <4>2 DEF Unused, Injective
      <4>4. Apart'
        BY <1>0, <2>1, <3>1, <3>2, <3>3, <4>1, <4>2 DEF Unused, Apart
      <4> QED
        BY <4>3, <4>4
    <3> QED
      BY <3>4, <3>5
  <2>4. CASE Link(w)
    <3> DEFINE p == Path(dl[w])
    <3>1. dl[w].pc \in Staging /\ p \in Codes \X Names /\ UNCHANGED partial
      BY <2>4, FieldsPresent DEF Link, Staging
    <3>2. CASE UNCHANGED dest
      BY <2>2, <3>1, <3>2
    <3>3. CASE partial[p] # None /\ dest' = [dest EXCEPT ![p[2]] = partial[p]] /\ Goto(w, "linked")
      <4>1. dl'[w].pc \notin Staging
        BY <3>3, GotoFields DEF Staging, Steps
      <4>2. \A v \in Workers \ {w} : dl[v].pc \in Staging => Path(dl[v]) # p
        BY <3>1, StagingKnown, PathsApart
      <4>3. p[2] \in Names
        BY <3>1
      <4>4. \A n \in Names : dest'[n] = IF n = p[2] THEN partial[p] ELSE dest[n]
        BY <3>3, <4>3 DEF TypeOK
      <4>5. Injective'
        BY <1>0, <3>1 DEF Injective
      <4>6. Apart'
        BY <1>0, <2>1, <3>1, <4>1, <4>2, <4>4 DEF Injective, Apart
      <4> QED
        BY <4>5, <4>6
    <3> QED
      BY <2>4, <3>2, <3>3 DEF Link
  <2>5. CASE Unlink(w) \/ Rename(w) \/ Discard(w)
    <3> DEFINE p == Path(dl[w])
    <3>1. p \in Codes \X Names
      BY <2>5, FieldsPresent DEF Unlink, Rename, Discard
    <3>2. dl'[w].pc \in Staging =>
            /\ Path(dl'[w]) = p
            /\ dl[w].pc \in Staging \/ partial[p] = None \/ UNCHANGED <<dest, partial>>
      BY <1>5, EntersStaging
    <3>3. CASE UNCHANGED <<dest, partial>>
      BY <2>2, <3>3
    <3>4. CASE ~ UNCHANGED <<dest, partial>> /\ partial' = [partial EXCEPT ![p] = None] /\ UNCHANGED dest
      <4>1. \A q \in Codes \X Names : partial'[q] = IF q = p THEN None ELSE partial[q]
        BY <3>1, <3>4 DEF TypeOK
      <4>2. Injective'
        BY <1>0, <4>1 DEF Injective
      <4>3. Apart'
        BY <1>0, <2>1, <3>2, <3>4, <4>1 DEF Apart
      <4> QED
        BY <4>2, <4>3
    <3>5. CASE /\ partial[p] # None /\ dest' = [dest EXCEPT ![p[2]] = partial[p]]
               /\ partial' = [partial EXCEPT ![p] = None] /\ Goto(w, "landed")
      <4>1. \A q \in Codes \X Names : partial'[q] = IF q = p THEN None ELSE partial[q]
        BY <3>1, <3>5 DEF TypeOK
      <4>2. \A n \in Names : dest'[n] = IF n = p[2] THEN partial[p] ELSE dest[n]
        BY <3>1, <3>5 DEF TypeOK
      <4>3. dl'[w].pc \notin Staging
        BY <3>5, GotoFields DEF Staging, Steps
      <4>4. Injective'
        BY <1>0, <4>1 DEF Injective
      <4>5. Apart'
        BY <1>0, <2>1, <3>1, <3>5, <4>1, <4>2, <4>3 DEF Injective, Apart
      <4> QED
        BY <4>4, <4>5
    <3> QED
      BY <2>5, <3>3, <3>4, <3>5 DEF Unlink, Rename, Discard
  <2> QED
    BY <1>5, <2>2, <2>3, <2>4, <2>5 DEF Proceed, Fail, ClaimResolved, ReadHeader, Load,
       RefuseUndigested, CheckDestination, FirstCheckpoint, Chunk, EndOfBody, Truncated, Verify,
       CheckAgain, ClearCheckpoint, Abort, Interrupt, PublishFails, diskVars
<1>6. CASE Crash
  BY <1>0, <1>6 DEF Crash, diskVars, Injective, Apart, Idle, Staging
<1> QED
  BY <1>1, <1>2, <1>3, <1>4, <1>5, <1>6
     DEF Next, Environment, Register, EditSource, Withdraw, diskVars, vars

-----------------------------------------------------------------------------
(* What a step of one download leaves alone *)

\* The descriptor of an open download is its partial, and it has no final name.
LEMMA OpenOwn ==
  ASSUME IInv, NEW w \in Workers, dl[w].pc \in FileOpen
  PROVE  /\ Path(dl[w]) \in Codes \X Names
         /\ dl[w].fd \in Inodes /\ partial[Path(dl[w])] = dl[w].fd
         /\ data[dl[w].fd] = dl[w].hash
         /\ \A n \in Names : dest[n] # dl[w].fd
<1>1. dl[w].pc \in Staging
  BY DEF FileOpen, Staging
<1>2. Path(dl[w]) \in Codes \X Names /\ dl[w].fd \in Inodes
  BY <1>1, FieldsPresent, StagingKnown DEF IInv
<1>3. partial[Path(dl[w])] = dl[w].fd /\ data[dl[w].fd] = dl[w].hash
  BY DEF IInv, Hashed
<1>4. \A n \in Names : dest[n] # dl[w].fd
  BY <1>1, <1>2, <1>3, ConstantsAssumption DEF IInv, Separate
<1> QED
  BY <1>2, <1>3, <1>4

\* What Open does, for the inode it opens and the content it found there.
OpenWith(w, i, old) ==
  /\ Path(dl[w]) \in Codes \X Names
  /\ partial' = [partial EXCEPT ![Path(dl[w])] = i]
  /\ \/ partial[Path(dl[w])] = None /\ Unused(i) /\ old = <<>>
     \/ partial[Path(dl[w])] = i /\ old = data[i]
  /\ \A n \in Names : dest[n] # i
  /\ \/ /\ Offset(dl[w]) \in 0..Len(old)
        /\ data' = [data EXCEPT ![i] = SubSeq(old, 1, Offset(dl[w]))]
        /\ dl' = [dl EXCEPT ![w] = [dl[w] EXCEPT !.pc = "opened", !.fd = i,
                                     !.hash = SubSeq(old, 1, Offset(dl[w]))]]
        /\ UNCHANGED claims
     \/ /\ Offset(dl[w]) > Len(old)
        /\ data' = [data EXCEPT ![i] = old]
        /\ Return(w)

\* The partial Open leaves behind, and the inode it opens.
LEMMA OpenEffect ==
  ASSUME IInv, NEW w \in Workers, Open(w)
  PROVE  \E i \in Inodes, old \in Bytes : OpenWith(w, i, old)
<1> DEFINE d   == dl[w]
           off == Offset(d)
           new == partial[Path(d)] = None
           i   == IF new THEN Fresh ELSE partial[Path(d)]
           old == IF new THEN <<>> ELSE data[i]
<1>1. d \in Workspace /\ Path(d) \in Codes \X Names /\ d.pc \in Staging /\ TypeOK
  BY FieldsPresent DEF IInv, Open, Staging
<1>2. i \in Inodes /\ (new => Unused(i))
  BY <1>1, FreshUnused DEF Open, TypeOK
<1>3. old \in Bytes
  BY <1>1, <1>2 DEF TypeOK, Bytes
<1>4. off \in Nat
  BY <1>1 DEF Offset, Workspace, ResumeState
<1>5. Len(old) \in Nat
  BY <1>3 DEF Bytes
<1>6. \A n \in Names : dest[n] # i
  BY <1>1, <1>2, ConstantsAssumption DEF Unused, IInv, Separate
<1>7. partial' = [partial EXCEPT ![Path(d)] = i]
  BY DEF Open
<1>8. \/ /\ off <= Len(old)
         /\ data' = [data EXCEPT ![i] = SubSeq(old, 1, off)]
         /\ dl' = [dl EXCEPT ![w].pc = "opened", ![w].fd = i, ![w].hash = SubSeq(old, 1, off)]
         /\ UNCHANGED claims
      \/ /\ off > Len(old)
         /\ data' = [data EXCEPT ![i] = old]
         /\ Return(w)
  BY DEF Open
<1>9. dl' = [dl EXCEPT ![w].pc = "opened", ![w].fd = i, ![w].hash = SubSeq(old, 1, off)]
      => dl' = [dl EXCEPT ![w] = [d EXCEPT !.pc = "opened", !.fd = i, !.hash = SubSeq(old, 1, off)]]
  OBVIOUS
<1>10. (new /\ Unused(i) /\ old = <<>>) \/ (partial[Path(d)] = i /\ old = data[i])
  BY <1>2
<1> HIDE DEF i, old, new, off
<1>11. \/ /\ off \in 0..Len(old)
          /\ data' = [data EXCEPT ![i] = SubSeq(old, 1, off)]
          /\ dl' = [dl EXCEPT ![w] = [d EXCEPT !.pc = "opened", !.fd = i, !.hash = SubSeq(old, 1, off)]]
          /\ UNCHANGED claims
       \/ /\ off > Len(old)
          /\ data' = [data EXCEPT ![i] = old]
          /\ Return(w)
  <2>1. off <= Len(old) => off \in 0..Len(old)
    BY <1>4, <1>5
  <2> HIDE DEF d
  <2> QED
    BY <1>8, <1>9, <2>1
<1>12. OpenWith(w, i, old)
  BY <1>1, <1>6, <1>7, <1>10, <1>11, Zenon DEF OpenWith, off, new
<1> QED
  BY <1>2, <1>3, <1>12

\* A step of w touches no partial but its own and no published file.
LEMMA LeavesAlone ==
  ASSUME IInv, NEW w \in Workers, Proceed(w) \/ Fail(w)
  PROVE  /\ \A q \in Codes \X Names :
              dl[w].info = None \/ q # Path(dl[w]) =>
                 /\ partial'[q] = partial[q]
                 /\ partial[q] # None => data'[partial[q]] = data[partial[q]]
         /\ \A n \in Names : dest[n] # None => data'[dest[n]] = data[dest[n]]
<1>0. TypeOK /\ Shapes /\ Separate
  BY DEF IInv
<1>1. CASE UNCHANGED <<partial, data>>
  BY <1>1
<1>2. CASE Open(w)
  <2>0. PICK i \in Inodes, old \in Bytes : OpenWith(w, i, old)
    BY <1>2, OpenEffect
  <2>1. /\ Path(dl[w]) \in Codes \X Names
        /\ partial' = [partial EXCEPT ![Path(dl[w])] = i]
        /\ \/ partial[Path(dl[w])] = None /\ Unused(i)
           \/ partial[Path(dl[w])] = i
        /\ \A n \in Names : dest[n] # i
        /\ \E s : data' = [data EXCEPT ![i] = s]
    BY <2>0 DEF OpenWith
  <2>2. dl[w].info # None
    BY <1>0, <1>2 DEF Open, Shapes, Shape
  <2>3. ASSUME NEW q \in Codes \X Names, q # Path(dl[w])
        PROVE  partial[q] # i /\ partial'[q] = partial[q]
    BY <1>0, <2>1, <2>3, ConstantsAssumption DEF Unused, Separate, TypeOK
  <2>4. \A j \in Inodes : j # i => data'[j] = data[j]
    BY <1>0, <2>1 DEF TypeOK
  <2> QED
    BY <1>0, <2>1, <2>2, <2>3, <2>4 DEF TypeOK
<1>3. CASE Chunk(w)
  <2>1. dl[w].pc \in FileOpen /\ UNCHANGED <<partial, dest>>
    BY <1>3 DEF Chunk, FileOpen
  <2>2. \A j \in Inodes : j # dl[w].fd => data'[j] = data[j]
    BY <1>0, <1>3 DEF Chunk, TypeOK
  <2>3. \A q \in Codes \X Names : q # Path(dl[w]) => partial[q] # dl[w].fd
    BY <1>0, <2>1, OpenOwn, ConstantsAssumption DEF Separate
  <2>4. \A n \in Names : dest[n] # dl[w].fd
    BY <2>1, OpenOwn
  <2>5. dl[w].info # None
    BY <1>0, <1>3 DEF Chunk, Shapes, Shape
  <2> QED
    BY <1>0, <2>1, <2>2, <2>3, <2>4, <2>5 DEF TypeOK
<1>4. CASE Unlink(w) \/ Rename(w) \/ Discard(w)
  <2>1. dl[w].info # None /\ Path(dl[w]) \in Codes \X Names /\ UNCHANGED data
    BY <1>0, <1>4, FieldsPresent DEF Unlink, Rename, Discard, Shapes, Shape
  <2>2. partial' = [partial EXCEPT ![Path(dl[w])] = None] \/ UNCHANGED partial
    BY <1>4 DEF Unlink, Rename, Discard
  <2> QED
    BY <1>0, <2>1, <2>2 DEF TypeOK
<1> QED
  BY <1>1, <1>2, <1>3, <1>4 DEF Proceed, Fail, ClaimResolved, ReadHeader, Load,
     RefuseUndigested, CheckDestination, FirstCheckpoint, EndOfBody, Truncated, Verify, Link,
     CheckAgain, ClearCheckpoint, Abort, Interrupt, PublishFails, diskVars

\* A step of w touches no checkpoint but its own, and what it writes there
\* counts the bytes it has hashed.
LEMMA OwnCheckpoint ==
  ASSUME TypeOK, Shapes, NEW w \in Workers, Proceed(w) \/ Fail(w), NEW c \in Codes,
         ckpt'[c] # ckpt[c]
  PROVE  /\ Active(w) /\ c = dl[w].code
         /\ UNCHANGED <<partial, data>>
         /\ \/ ckpt'[c] = None
            \/ /\ dl[w].pc \in FileOpen
               /\ ckpt'[c] = [name |-> dl[w].info.name, size |-> dl[w].info.size,
                              off |-> Received(dl[w])]
<1>1. CASE UNCHANGED ckpt
  BY <1>1
<1>2. CASE ckpt' = [ckpt EXCEPT ![dl[w].code] = None] /\ Active(w) /\ UNCHANGED <<partial, data>>
  BY <1>2 DEF TypeOK
<1>3. CASE SaveCheckpoint(dl[w]) /\ dl[w].pc \in FileOpen /\ UNCHANGED <<partial, data>>
  BY <1>3 DEF SaveCheckpoint, TypeOK, Active, FileOpen
<1>4. CASE Load(w)
  BY <1>1, <1>2, <1>4 DEF Load, Active
<1>5. CASE RefuseUndigested(w) \/ ClearCheckpoint(w)
  BY <1>2, <1>5 DEF RefuseUndigested, ClearCheckpoint, Active
<1>6. CASE FirstCheckpoint(w) \/ Interrupt(w) \/ Truncated(w) \/ Verify(w)
  BY <1>1, <1>3, <1>6 DEF FirstCheckpoint, Interrupt, Truncated, Verify, FileOpen
<1> QED
  BY <1>1, <1>4, <1>5, <1>6 DEF Proceed, Fail, ClaimResolved, ReadHeader,
     CheckDestination, Open, Chunk, EndOfBody, Link, Unlink, CheckAgain, Rename, Discard,
     Abort, PublishFails, diskVars

-----------------------------------------------------------------------------
(* The hash covers the partial *)

\* Another download in the file system never has this one's partial.
LEMMA OthersKeep ==
  ASSUME OneRoute, IInv, NEW w \in Workers, Proceed(w) \/ Fail(w),
         NEW v \in Workers \ {w}, dl[v].pc \in Staging
  PROVE  /\ partial'[Path(dl[v])] = partial[Path(dl[v])]
         /\ partial[Path(dl[v])] # None =>
              data'[partial[Path(dl[v])]] = data[partial[Path(dl[v])]]
<1>0. TypeOK /\ Shapes /\ Claimed
  BY DEF IInv
<1>1. Active(v) /\ dl[v].info # None /\ Path(dl[v]) \in Codes \X Names
  BY <1>0, StagingKnown
<1>2. CASE ~ Active(w)
  <2>1. ClaimResolved(w)
    BY <1>0, <1>2, Continues
  <2> QED
    BY <2>1 DEF ClaimResolved, diskVars
<1>3. CASE Active(w)
  <2>1. dl[w].info = None \/ Path(dl[v]) # Path(dl[w])
    BY <1>0, <1>1, <1>3, PathsApart
  <2> QED
    BY <1>1, <2>1, LeavesAlone
<1> QED
  BY <1>2, <1>3

\* One worker's part of Hashed.
HashedBy(w) ==
  /\ dl[w].pc \in FileOpen => /\ partial[Path(dl[w])] = dl[w].fd
                              /\ data[dl[w].fd] = dl[w].hash
  /\ dl[w].pc \in {"verified", "free"} =>
       /\ partial[Path(dl[w])] # None
       /\ Digest(data[partial[Path(dl[w])]]) = dl[w].info.digest

\* What is hashed is what is written, and no one else writes there.
LEMMA HashedPreserved ==
  OneRoute /\ IInv /\ [Next]_vars => Hashed'
<1> SUFFICES ASSUME OneRoute, IInv, [Next]_vars, NEW v \in Workers PROVE HashedBy(v)'
  BY DEF Hashed, HashedBy
<1>0. TypeOK /\ Shapes /\ Claimed /\ Separate /\ HashedBy(v)
  BY DEF IInv, Hashed, HashedBy
<1>00. dl[v] \in Workspace /\ dl \in [Workers -> Workspace]
  BY <1>0 DEF TypeOK
<1>1. CASE UNCHANGED <<partial, data, dl>>
  BY <1>0, <1>1 DEF HashedBy, Path
<1>2. ASSUME NEW n \in Names, NEW s \in Contents, UserPlaces(n, s) PROVE HashedBy(v)'
  <2>1. Fresh \in Inodes /\ Unused(Fresh)
    BY <1>2, FreshUnused DEF UserPlaces
  <2>2. UNCHANGED <<partial, dl>> /\ \A j \in Inodes : j # Fresh => data'[j] = data[j]
    BY <1>0, <1>2, <2>1 DEF UserPlaces, TypeOK
  <2>3. dl[v].pc \in Staging => Path(dl[v]) \in Codes \X Names
    BY <1>0, StagingKnown
  <2> QED
    BY <1>0, <2>1, <2>2, <2>3, FieldsPresent DEF HashedBy, Unused, Staging, FileOpen, Path, TypeOK
<1>3. ASSUME NEW w \in Workers, Begin(w) PROVE HashedBy(v)'
  <2>1. UNCHANGED <<partial, data>>
    BY <1>3 DEF Begin, Resolve, ClaimShare, diskVars
  <2>2. dl'[v] = dl[v] \/ dl'[v].pc \in {"resolved", "claimed"}
    <3>1. CASE \E c \in Codes : Resolve(w, c)
      BY <1>00, <3>1 DEF Resolve, Idle
    <3>2. CASE \E c \in Codes : ClaimShare(w, c)
      BY <1>00, <3>2 DEF ClaimShare, Idle
    <3> QED
      BY <1>3, <3>1, <3>2 DEF Begin
  <2> QED
    BY <1>0, <2>1, <2>2 DEF HashedBy, FileOpen, Path
<1>4. ASSUME NEW w \in Workers, Proceed(w) \/ Fail(w), v # w PROVE HashedBy(v)'
  <2>1. dl'[v] = dl[v]
    BY <1>0, <1>4, Continues
  <2>2. dl[v].pc \in FileOpen \cup {"verified", "free"} => dl[v].pc \in Staging
    BY DEF FileOpen, Staging
  <2>3. dl[v].pc \in FileOpen => dl[v].fd # None
    BY <1>0 DEF Shapes, Shape
  <2> QED
    BY <1>0, <1>4, <2>1, <2>2, <2>3, OthersKeep DEF HashedBy, Path
<1>5. CASE Proceed(v) \/ Fail(v)
  <2>1. CASE Return(v)
    BY <1>0, <2>1, Moves DEF HashedBy, Idle, FileOpen
  <2>2. ASSUME NEW p \in Steps, Goto(v, p), UNCHANGED <<partial, data>>,
               p \in FileOpen => dl[v].pc \in FileOpen,
               p = "free" => dl[v].pc = "verified", p # "verified"
        PROVE  HashedBy(v)'
    BY <1>0, <2>2, GotoFields DEF HashedBy, FileOpen, Path
  <2>3. CASE ClaimResolved(v)
    <3>1. CASE Goto(v, "admitted")
      BY <2>2, <2>3, <3>1 DEF ClaimResolved, Steps, FileOpen, diskVars
    <3>2. CASE dl' = [dl EXCEPT ![v] = Idle]
      BY <1>00, <3>2 DEF HashedBy, Idle, FileOpen
    <3> QED
      BY <2>3, <3>1, <3>2 DEF ClaimResolved
  <2>4. CASE ReadHeader(v)
    <3>1. CASE Served(dl[v])
      <4>1. dl' = [dl EXCEPT ![v] = [dl[v] EXCEPT !.pc = "offered", !.info = offer[dl[v].code]]]
        BY <2>4, <3>1 DEF ReadHeader
      <4> QED
        BY <1>00, <4>1 DEF HashedBy, FileOpen, Workspace
    <3>2. CASE ~ Served(dl[v])
      BY <2>1, <2>4, <3>2 DEF ReadHeader
    <3> QED
      BY <3>1, <3>2
  <2>5. CASE Load(v)
    <3> DEFINE r == IF Resumable(dl[v].code) THEN ckpt[dl[v].code] ELSE None
               p == IF dl[v].route = "share" THEN "loaded" ELSE "ready"
    <3>1. dl' = [dl EXCEPT ![v] = [dl[v] EXCEPT !.res = r, !.pc = p]]
      BY <2>5 DEF Load
    <3> HIDE DEF r
    <3> QED
      BY <1>00, <3>1 DEF HashedBy, FileOpen, Workspace
  <2>6. CASE RefuseUndigested(v) \/ Truncated(v) \/ ClearCheckpoint(v) \/ Abort(v) \/ Interrupt(v)
    BY <2>1, <2>6 DEF RefuseUndigested, Truncated, ClearCheckpoint, Abort, Interrupt
  <2>7. CASE CheckDestination(v)
    BY <2>1, <2>2, <2>7 DEF CheckDestination, Steps, FileOpen, diskVars
  <2>8. CASE Open(v)
    <3>1. PICK i \in Inodes, old \in Bytes : OpenWith(v, i, old)
      BY <2>8, OpenEffect
    <3> DEFINE h == SubSeq(old, 1, Offset(dl[v]))
    <3>2. CASE /\ data' = [data EXCEPT ![i] = h]
               /\ dl' = [dl EXCEPT ![v] = [dl[v] EXCEPT !.pc = "opened", !.fd = i, !.hash = h]]
      <4>1. Path(dl[v]) \in Codes \X Names /\ partial' = [partial EXCEPT ![Path(dl[v])] = i]
        BY <3>1 DEF OpenWith
      <4> HIDE DEF h
      <4>2. dl'[v].pc = "opened" /\ dl'[v].fd = i /\ dl'[v].hash = h /\ Path(dl'[v]) = Path(dl[v])
        BY <1>00, <3>2 DEF Workspace, Path
      <4>3. partial'[Path(dl[v])] = i /\ data'[i] = h
        BY <1>0, <3>2, <4>1 DEF TypeOK
      <4> QED
        BY <4>2, <4>3 DEF HashedBy
    <3> QED
      BY <2>1, <3>1, <3>2 DEF OpenWith
  <2>9. CASE FirstCheckpoint(v) \/ EndOfBody(v)
    BY <2>1, <2>2, <2>9 DEF FirstCheckpoint, EndOfBody, Steps, FileOpen, diskVars
  <2>10. CASE Chunk(v)
    <3> DEFINE d == dl[v]
               x == body[d.code][Received(d) + 1]
               h == Append(d.hash, x)
               end == IF d.route = "share" THEN d.info.size ELSE Len(body[d.code])
               p == IF Received(d) + 1 = end THEN "complete" ELSE "body"
    <3>1. dl' = [dl EXCEPT ![v] = [d EXCEPT !.hash = h, !.pc = p]] /\ UNCHANGED partial
          /\ data' = [data EXCEPT ![d.fd] = WriteAt(data[d.fd], Received(d), x)]
      BY <2>10 DEF Chunk
    <3>2. d.pc \in FileOpen /\ d.fd \in Inodes /\ partial[Path(d)] = d.fd /\ data[d.fd] = d.hash
      BY <2>10, OpenOwn DEF Chunk, FileOpen
    <3>3. x \in Cells \cup {Hole}
      BY <1>0, <2>10, FieldsPresent DEF Chunk, TypeOK
    <3>4. WriteAt(data[d.fd], Received(d), x) = h
      BY <1>00, <3>2, <3>3, WriteAtEnd DEF Received, Workspace
    <3>5. p \notin {"verified", "free"}
      OBVIOUS
    <3> HIDE DEF h, p, x
    <3>6. dl'[v].pc = p /\ dl'[v].fd = d.fd /\ dl'[v].hash = h /\ Path(dl'[v]) = Path(d)
      BY <1>00, <3>1 DEF Workspace, Path
    <3>7. data'[d.fd] = h
      BY <1>0, <3>1, <3>2, <3>4 DEF TypeOK
    <3> QED
      BY <3>1, <3>2, <3>5, <3>6, <3>7 DEF HashedBy
  <2>11. CASE Verify(v)
    <3>1. UNCHANGED <<partial, data>> /\ dl[v].pc \in FileOpen
      BY <2>11 DEF Verify, FileOpen
    <3>2. CASE /\ Digest(dl[v].hash) = dl[v].info.digest
               /\ dl' = [dl EXCEPT ![v] = [dl[v] EXCEPT !.pc = "verified", !.fd = None]]
      <4>1. dl'[v].pc = "verified" /\ dl'[v].info = dl[v].info /\ Path(dl'[v]) = Path(dl[v])
        BY <1>00, <3>2 DEF Workspace, Path
      <4> QED
        BY <3>1, <3>2, <4>1, OpenOwn, ConstantsAssumption DEF HashedBy, FileOpen
    <3>3. CASE dl' = [dl EXCEPT ![v] = [dl[v] EXCEPT !.pc = "discard", !.fd = None]]
      BY <1>00, <3>3 DEF HashedBy, FileOpen, Workspace
    <3> QED
      BY <2>11, <3>2, <3>3 DEF Verify
  <2>12. CASE CheckAgain(v)
    BY <2>2, <2>12 DEF CheckAgain, Steps, FileOpen, diskVars
  <2>13. CASE Link(v) \/ Unlink(v) \/ Rename(v) \/ Discard(v) \/ PublishFails(v)
    <3>1. \E p \in {"linked", "discard", "landed", "discarded"} : Goto(v, p)
      BY <2>13 DEF Link, Unlink, Rename, Discard, PublishFails
    <3> QED
      BY <1>0, <3>1, GotoFields DEF HashedBy, FileOpen, Steps
  <2> QED
    BY <1>5, <2>3, <2>4, <2>5, <2>6, <2>7, <2>8, <2>9, <2>10, <2>11, <2>12, <2>13 DEF Proceed, Fail
<1>6. CASE Crash
  BY <1>6 DEF Crash, HashedBy, FileOpen, Idle
<1> QED
  BY <1>1, <1>2, <1>3, <1>4, <1>5, <1>6 DEF Next, Environment, Register, EditSource, Withdraw,
     UserRemoves, diskVars, vars

-----------------------------------------------------------------------------
(* Checkpoints *)

\* A checkpoint is saved from what is in the partial, and a partial shrinks
\* only to what was loaded from it.
LEMMA CheckpointBackedPreserved ==
  OneRoute /\ IInv /\ [Next]_vars => CheckpointBacked'
<1> DEFINE Backed(c) == ckpt[c] # None /\ partial[<<c, ckpt[c].name>>] # None =>
                          Len(data[partial[<<c, ckpt[c].name>>]]) >= ckpt[c].off
<1> SUFFICES ASSUME OneRoute, IInv, [Next]_vars, NEW c \in Codes PROVE Backed(c)'
  BY DEF CheckpointBacked
<1>0. TypeOK /\ Shapes /\ Separate /\ Loaded /\ Backed(c)
  BY DEF IInv, CheckpointBacked
<1>00. ckpt[c] # None => ckpt[c] \in ResumeState /\ <<c, ckpt[c].name>> \in Codes \X Names
  BY <1>0 DEF TypeOK, ResumeState
<1>1. CASE UNCHANGED <<partial, data, ckpt>>
  BY <1>0, <1>1
<1>2. ASSUME NEW n \in Names, NEW s \in Contents, UserPlaces(n, s) PROVE Backed(c)'
  <2>1. Fresh \in Inodes /\ Unused(Fresh)
    BY <1>2, FreshUnused DEF UserPlaces
  <2>2. UNCHANGED <<partial, ckpt>> /\ \A j \in Inodes : j # Fresh => data'[j] = data[j]
    BY <1>0, <1>2, <2>1 DEF UserPlaces, TypeOK
  <2> QED
    BY <1>0, <1>00, <2>1, <2>2 DEF Unused, TypeOK
<1>3. ASSUME NEW w \in Workers, Proceed(w) \/ Fail(w) PROVE Backed(c)'
  <2> DEFINE p == <<c, ckpt[c].name>>
  <2>1. CASE ckpt'[c] # ckpt[c]
    <3>1. CASE ckpt'[c] = None
      BY <3>1
    <3>2. CASE /\ dl[w].pc \in FileOpen /\ c = dl[w].code
               /\ ckpt'[c] = [name |-> dl[w].info.name, size |-> dl[w].info.size,
                              off |-> Received(dl[w])]
      <4>1. UNCHANGED <<partial, data>>
        BY <1>0, <1>3, <2>1, OwnCheckpoint
      <4>2. partial[Path(dl[w])] = dl[w].fd /\ data[dl[w].fd] = dl[w].hash
        BY <3>2, OpenOwn
      <4>3. Received(dl[w]) \in Nat
        BY <1>0, FieldsPresent
      <4> QED
        BY <3>2, <4>1, <4>2, <4>3 DEF Path, Received
    <3> QED
      BY <1>0, <1>3, <2>1, <3>1, <3>2, OwnCheckpoint
  <2>2. CASE ckpt'[c] = ckpt[c] /\ ckpt[c] # None /\ (dl[w].info = None \/ p # Path(dl[w]))
    BY <1>0, <1>00, <1>3, <2>2, LeavesAlone
  <2>3. CASE ckpt'[c] = ckpt[c] /\ ckpt[c] # None /\ dl[w].info # None /\ p = Path(dl[w])
    <3>1. CASE UNCHANGED <<partial, data>>
      BY <1>0, <2>3, <3>1
    <3>2. CASE Open(w)
      <4>1. PICK i \in Inodes, old \in Bytes : OpenWith(w, i, old)
        BY <3>2, OpenEffect
      <4>2. dl[w].code = c /\ dl[w].info.name = ckpt[c].name /\ dl[w].pc = "ready"
        BY <2>3, <3>2 DEF Path, Open
      <4>3. dl[w].res = ckpt[c]
        BY <1>0, <2>3, <4>2 DEF Loaded
      <4>4. partial[p] # None /\ Len(data[partial[p]]) >= ckpt[c].off
        BY <1>0, <2>3, <4>2, <4>3 DEF Loaded
      <4>5. Offset(dl[w]) = ckpt[c].off
        BY <2>3, <4>2, <4>3 DEF Offset
      <4>6. partial[p] = i /\ old = data[i]
        BY <2>3, <4>1, <4>4 DEF OpenWith
      <4>7. Len(old) \in Nat /\ ckpt[c].off \in Nat
        BY <1>00, <2>3 DEF ResumeState, Bytes
      <4>8. partial' = [partial EXCEPT ![p] = i]
        BY <2>3, <4>1 DEF OpenWith
      <4>9. ~ (Offset(dl[w]) > Len(old))
        BY <4>4, <4>5, <4>6, <4>7
      <4>10. data' = [data EXCEPT ![i] = SubSeq(old, 1, Offset(dl[w]))]
        BY <4>1, <4>9, Zenon DEF OpenWith
      <4>11. data' = [data EXCEPT ![i] = SubSeq(old, 1, ckpt[c].off)]
            /\ partial' = [partial EXCEPT ![p] = i]
        BY <4>5, <4>8, <4>10
      <4>12. Len(SubSeq(old, 1, ckpt[c].off)) = ckpt[c].off
        BY <4>4, <4>6, <4>7 DEF Bytes
      <4>13. partial'[p] = i /\ data'[i] = SubSeq(old, 1, ckpt[c].off)
        BY <1>0, <1>00, <2>3, <4>11 DEF TypeOK
      <4> QED
        BY <2>3, <4>7, <4>12, <4>13
    <3>3. CASE Chunk(w)
      <4> DEFINE d == dl[w]
                 x == body[d.code][Received(d) + 1]
      <4>1. d.pc \in FileOpen /\ d.fd \in Inodes /\ partial[Path(d)] = d.fd /\ data[d.fd] = d.hash
        BY <3>3, OpenOwn DEF Chunk, FileOpen
      <4>2. x \in Cells \cup {Hole}
        BY <1>0, <3>3, FieldsPresent DEF Chunk, TypeOK
      <4>3. d.hash \in Bytes /\ Received(d) = Len(d.hash)
        BY <1>0, FieldsPresent DEF Workspace, Received
      <4> HIDE DEF x
      <4>4. WriteAt(data[d.fd], Received(d), x) = Append(d.hash, x)
        BY <4>1, <4>2, <4>3, WriteAtEnd
      <4>5. data'[d.fd] = Append(d.hash, x) /\ UNCHANGED partial
        BY <1>0, <3>3, <4>1, <4>4 DEF Chunk, TypeOK, x
      <4>6. Len(Append(d.hash, x)) = Len(d.hash) + 1 /\ Len(d.hash) \in Nat
        BY <4>2, <4>3 DEF Bytes
      <4>7. ckpt[c].off \in Nat
        BY <1>00, <2>3 DEF ResumeState
      <4>8. partial[p] = d.fd /\ Len(d.hash) >= ckpt[c].off
        BY <1>0, <2>3, <4>1, ConstantsAssumption
      <4> QED
        BY <2>3, <4>5, <4>6, <4>7, <4>8
    <3>4. CASE Unlink(w) \/ Rename(w) \/ Discard(w)
      <4>1. UNCHANGED data /\ (UNCHANGED partial \/ partial' = [partial EXCEPT ![p] = None])
        BY <2>3, <3>4 DEF Unlink, Rename, Discard
      <4> QED
        BY <1>0, <1>00, <2>3, <4>1 DEF TypeOK
    <3> QED
      BY <1>3, <3>1, <3>2, <3>3, <3>4 DEF Proceed, Fail, ClaimResolved, ReadHeader, Load,
         RefuseUndigested, CheckDestination, FirstCheckpoint, EndOfBody, Truncated, Verify, Link,
         CheckAgain, ClearCheckpoint, Abort, Interrupt, PublishFails, diskVars
  <2>4. CASE ckpt'[c] = None
    BY <2>4
  <2> QED
    BY <2>1, <2>2, <2>3, <2>4
<1> QED
  BY <1>1, <1>2, <1>3 DEF Next, Environment, Register, EditSource, Withdraw, UserRemoves, Crash,
     Begin, Resolve, ClaimShare, diskVars, vars

\* One worker's part of Loaded.
LoadedBy(w) ==
  LET d == dl[w] IN
  d.pc \in {"loaded", "offered", "ready"} =>
    /\ ckpt[d.code] # None /\ (d.route = "share" \/ ckpt[d.code].name = d.info.name)
       => d.res = ckpt[d.code]
    /\ d.res # None /\ (d.route = "share" \/ d.res.name = d.info.name)
       => /\ partial[<<d.code, d.res.name>>] # None
          /\ Len(data[partial[<<d.code, d.res.name>>]]) >= d.res.off

\* A loaded checkpoint stays the one on disk, and backed, while it is used.
LEMMA LoadedPreserved ==
  OneRoute /\ IInv /\ [Next]_vars => Loaded'
<1> SUFFICES ASSUME OneRoute, IInv, [Next]_vars, NEW v \in Workers PROVE LoadedBy(v)'
  BY DEF Loaded, LoadedBy
<1>0. TypeOK /\ Shapes /\ Claimed /\ Separate /\ LoadedBy(v)
  BY DEF IInv, Loaded, LoadedBy
<1>00. dl[v] \in Workspace /\ dl \in [Workers -> Workspace]
  BY <1>0 DEF TypeOK
<1>01. dl[v].pc \in {"loaded", "offered", "ready"} =>
         /\ Active(v) /\ dl[v].code \in Codes
         /\ dl[v].route = "share" \/ dl[v].info # None
         /\ dl[v].res # None => <<dl[v].code, dl[v].res.name>> \in Codes \X Names
  BY <1>0, <1>00, FieldsPresent DEF Active, Shapes, Shape, Workspace, ResumeState
<1>1. CASE UNCHANGED <<partial, data, ckpt, dl>>
  BY <1>0, <1>1 DEF LoadedBy
<1>2. ASSUME NEW n \in Names, NEW s \in Contents, UserPlaces(n, s) PROVE LoadedBy(v)'
  <2>1. Fresh \in Inodes /\ Unused(Fresh)
    BY <1>2, FreshUnused DEF UserPlaces
  <2>2. UNCHANGED <<partial, ckpt, dl>> /\ \A j \in Inodes : j # Fresh => data'[j] = data[j]
    BY <1>0, <1>2, <2>1 DEF UserPlaces, TypeOK
  <2> QED
    BY <1>0, <1>01, <2>1, <2>2 DEF LoadedBy, Unused, TypeOK
<1>3. ASSUME NEW w \in Workers, Begin(w) PROVE LoadedBy(v)'
  <2>1. UNCHANGED <<partial, data, ckpt>>
    BY <1>3 DEF Begin, Resolve, ClaimShare, diskVars
  <2>2. dl'[v] = dl[v] \/ dl'[v].pc \in {"resolved", "claimed"}
    <3>1. CASE \E c \in Codes : Resolve(w, c)
      BY <1>00, <3>1 DEF Resolve, Idle
    <3>2. CASE \E c \in Codes : ClaimShare(w, c)
      BY <1>00, <3>2 DEF ClaimShare, Idle
    <3> QED
      BY <1>3, <3>1, <3>2 DEF Begin
  <2> QED
    BY <1>0, <2>1, <2>2 DEF LoadedBy
<1>4. ASSUME NEW w \in Workers, Proceed(w) \/ Fail(w), v # w,
             dl[v].pc \in {"loaded", "offered", "ready"}
      PROVE  LoadedBy(v)'
  <2>1. dl'[v] = dl[v]
    BY <1>0, <1>4, Continues
  <2> DEFINE c == dl[v].code
  <2>2. ckpt'[c] = ckpt[c] \/ ckpt'[c] = None
        \/ (dl[v].route = "read" /\ ckpt'[c].name # dl[v].info.name)
    <3>1. SUFFICES ASSUME ckpt'[c] # ckpt[c], ckpt'[c] # None
                   PROVE  dl[v].route = "read" /\ ckpt'[c].name # dl[v].info.name
      OBVIOUS
    <3>2. /\ Active(w) /\ c = dl[w].code /\ dl[w].pc \in FileOpen
          /\ ckpt'[c].name = dl[w].info.name
      <4>1. c \in Codes
        BY <1>01, <1>4
      <4>2. /\ Active(w) /\ c = dl[w].code /\ dl[w].pc \in FileOpen
            /\ ckpt'[c] = [name |-> dl[w].info.name, size |-> dl[w].info.size,
                           off |-> Received(dl[w])]
        <5> HIDE DEF c
        <5> QED
          BY <1>0, <1>4, <3>1, <4>1, OwnCheckpoint
      <4> QED
        BY <4>2
    <3>3. dl[w].info # None
      BY <1>0, <3>2 DEF Shapes, Shape, FileOpen
    <3>4. dl[v].route = "share" \/ dl[v].route = "read"
      BY <1>0, <1>4, FieldsPresent
    <3> QED
      BY <1>0, <1>01, <1>4, <3>2, <3>3, <3>4, Exclusive
  <2>3. ASSUME dl[v].res # None, dl[v].route = "share" \/ dl[v].res.name = dl[v].info.name
        PROVE  LET p == <<c, dl[v].res.name>> IN
               /\ partial'[p] = partial[p]
               /\ partial[p] # None => data'[partial[p]] = data[partial[p]]
    <3> DEFINE p == <<c, dl[v].res.name>>
    <3>1. CASE ~ Active(w)
      <4>1. ClaimResolved(w)
        BY <1>0, <1>4, <3>1, Continues
      <4> QED
        BY <4>1 DEF ClaimResolved, diskVars
    <3>2. CASE Active(w)
      <4>1. dl[w].info = None \/ p # Path(dl[w])
        BY <1>0, <1>01, <1>4, <2>3, <3>2, Exclusive DEF Path
      <4> QED
        BY <1>01, <1>4, <2>3, <4>1, LeavesAlone
    <3> QED
      BY <3>1, <3>2
  <2> QED
    BY <1>0, <1>01, <1>4, <2>1, <2>2, <2>3, ConstantsAssumption DEF LoadedBy
<1>5. CASE Proceed(v) \/ Fail(v)
  <2>1. CASE Return(v)
    BY <1>0, <2>1, Moves DEF LoadedBy, Idle
  <2>2. ASSUME NEW p \in Steps, Goto(v, p), p \notin {"loaded", "offered", "ready"}
        PROVE  LoadedBy(v)'
    BY <1>0, <2>2, GotoFields DEF LoadedBy
  <2>3. CASE ClaimResolved(v)
    <3>1. CASE Goto(v, "admitted")
      BY <2>2, <3>1 DEF Steps
    <3>2. CASE dl' = [dl EXCEPT ![v] = Idle]
      BY <1>00, <3>2 DEF LoadedBy, Idle
    <3> QED
      BY <2>3, <3>1, <3>2 DEF ClaimResolved
  <2>4. CASE ReadHeader(v)
    <3>1. CASE Served(dl[v])
      <4>1. dl' = [dl EXCEPT ![v] = [dl[v] EXCEPT !.pc = "offered", !.info = offer[dl[v].code]]]
        BY <2>4, <3>1 DEF ReadHeader
      <4>2. dl'[v].code = dl[v].code /\ dl'[v].route = dl[v].route /\ dl'[v].res = dl[v].res
        BY <1>00, <4>1 DEF Workspace
      <4>3. dl[v].pc = "loaded" /\ dl[v].route = "share" /\ UNCHANGED <<partial, data, ckpt>>
        BY <1>0, <2>4 DEF ReadHeader, Shapes, Shape, diskVars
      <4> QED
        BY <1>0, <4>2, <4>3 DEF LoadedBy
    <3>2. CASE ~ Served(dl[v])
      BY <2>1, <2>4, <3>2 DEF ReadHeader
    <3> QED
      BY <3>1, <3>2
  <2>5. CASE Load(v)
    <3> DEFINE c == dl[v].code
               r == IF Resumable(c) THEN ckpt[c] ELSE None
               p == IF dl[v].route = "share" THEN "loaded" ELSE "ready"
    <3>1. dl' = [dl EXCEPT ![v] = [dl[v] EXCEPT !.res = r, !.pc = p]] /\ UNCHANGED <<partial, data>>
      BY <2>5 DEF Load
    <3>2. c \in Codes
      BY <1>0, <2>5, FieldsPresent DEF Load
    <3>3. dl'[v].res = r /\ dl'[v].code = c
      <4> HIDE DEF r, p
      <4> QED
        BY <1>00, <3>1 DEF Workspace
    <3>4. CASE Resumable(c)
      <4>1. ckpt' = ckpt /\ dl'[v].res = ckpt[c]
        BY <2>5, <3>3, <3>4 DEF Load
      <4> QED
        BY <3>1, <3>3, <3>4, <4>1 DEF LoadedBy, Resumable
    <3>5. CASE ~ Resumable(c)
      <4>1. ckpt'[c] = None /\ dl'[v].res = None
        BY <1>0, <2>5, <3>2, <3>3, <3>5 DEF Load, TypeOK
      <4> QED
        BY <3>3, <4>1 DEF LoadedBy
    <3> QED
      BY <3>4, <3>5
  <2>6. CASE RefuseUndigested(v) \/ Truncated(v) \/ ClearCheckpoint(v) \/ Abort(v) \/ Interrupt(v)
    BY <2>1, <2>6 DEF RefuseUndigested, Truncated, ClearCheckpoint, Abort, Interrupt
  <2>7. CASE CheckDestination(v)
    <3>1. CASE Goto(v, "ready") /\ dl[v].route = "share"
      <4>1. dl[v].pc = "offered" /\ UNCHANGED <<partial, data, ckpt>>
        BY <1>0, <2>7, <3>1 DEF CheckDestination, Shapes, Shape, diskVars
      <4>2. dl'[v].code = dl[v].code /\ dl'[v].route = dl[v].route /\ dl'[v].res = dl[v].res
        BY <1>0, <3>1, GotoFields DEF Steps
      <4> QED
        BY <1>0, <3>1, <4>1, <4>2 DEF LoadedBy
    <3> QED
      BY <2>1, <2>2, <2>7, <3>1 DEF CheckDestination, Steps
  <2>8. CASE Open(v)
    <3>1. PICK i \in Inodes, old \in Bytes : OpenWith(v, i, old)
      BY <2>8, OpenEffect
    <3> DEFINE h == SubSeq(old, 1, Offset(dl[v]))
    <3>2. CASE dl' = [dl EXCEPT ![v] = [dl[v] EXCEPT !.pc = "opened", !.fd = i, !.hash = h]]
      <4> HIDE DEF h
      <4> QED
        BY <1>00, <3>2 DEF LoadedBy, Workspace
    <3> QED
      BY <2>1, <3>1, <3>2 DEF OpenWith
  <2>9. CASE FirstCheckpoint(v) \/ EndOfBody(v) \/ CheckAgain(v) \/ Link(v) \/ Unlink(v)
             \/ Rename(v) \/ Discard(v) \/ PublishFails(v)
    BY <2>1, <2>2, <2>9 DEF FirstCheckpoint, EndOfBody, CheckAgain, Link, Unlink, Rename,
       Discard, PublishFails, Steps
  <2>10. CASE Chunk(v)
    <3> DEFINE d == dl[v]
               h == Append(d.hash, body[d.code][Received(d) + 1])
               end == IF d.route = "share" THEN d.info.size ELSE Len(body[d.code])
               p == IF Received(d) + 1 = end THEN "complete" ELSE "body"
    <3>1. dl' = [dl EXCEPT ![v] = [d EXCEPT !.hash = h, !.pc = p]]
      BY <2>10 DEF Chunk
    <3>2. p \notin {"loaded", "offered", "ready"}
      OBVIOUS
    <3> HIDE DEF h, p
    <3> QED
      BY <1>00, <3>1, <3>2 DEF LoadedBy, Workspace
  <2>11. CASE Verify(v)
    <3>1. \E p \in {"verified", "discard"} :
             dl' = [dl EXCEPT ![v] = [dl[v] EXCEPT !.pc = p, !.fd = None]]
      BY <2>11 DEF Verify
    <3> QED
      BY <1>00, <3>1 DEF LoadedBy, Workspace
  <2> QED
    BY <1>5, <2>3, <2>4, <2>5, <2>6, <2>7, <2>8, <2>9, <2>10, <2>11 DEF Proceed, Fail
<1>6. CASE Crash
  BY <1>6 DEF Crash, LoadedBy, Idle
<1>7. ASSUME NEW w \in Workers, Proceed(w) \/ Fail(w), v # w,
             dl[v].pc \notin {"loaded", "offered", "ready"}
      PROVE  LoadedBy(v)'
  BY <1>0, <1>7, Continues DEF LoadedBy
<1> QED
  BY <1>1, <1>2, <1>3, <1>4, <1>5, <1>6, <1>7 DEF Next, Environment, Register, EditSource,
     Withdraw, UserRemoves, diskVars, vars

-----------------------------------------------------------------------------
(* What is published *)

\* A name appears with verified content, and its inode is not written again.
LEMMA IntactPreserved ==
  OneRoute /\ IInv /\ [Next]_vars => Intact'
<1> DEFINE Sound(n) == dest[n] # None => <<n, Digest(data[dest[n]])>> \in vouched
<1> SUFFICES ASSUME OneRoute, IInv, [Next]_vars, NEW n \in Names PROVE Sound(n)'
  BY DEF Intact
<1>0. TypeOK /\ Shapes /\ Hashed /\ Promised /\ Sound(n)
  BY DEF IInv, Intact
<1>1. CASE UNCHANGED <<dest, data>> /\ vouched \subseteq vouched'
  BY <1>0, <1>1
<1>2. ASSUME NEW m \in Names, NEW s \in Contents, UserPlaces(m, s) PROVE Sound(n)'
  <2>1. Fresh \in Inodes /\ Unused(Fresh)
    BY <1>2, FreshUnused DEF UserPlaces
  <2>2. /\ \A j \in Inodes : data'[j] = IF j = Fresh THEN s ELSE data[j]
        /\ dest'[n] = IF n = m THEN Fresh ELSE dest[n]
        /\ vouched' = vouched \cup {<<m, Digest(s)>>}
    BY <1>0, <1>2, <2>1 DEF UserPlaces, TypeOK
  <2> QED
    BY <1>0, <2>1, <2>2 DEF Unused, TypeOK
<1>3. ASSUME NEW m \in Names, UserRemoves(m) PROVE Sound(n)'
  BY <1>0, <1>3 DEF UserRemoves, TypeOK
<1>4. ASSUME NEW w \in Workers, Proceed(w) \/ Fail(w) PROVE Sound(n)'
  <2>1. vouched' = vouched
    BY <1>4 DEF Proceed, Fail, ClaimResolved, ReadHeader, Load, RefuseUndigested, CheckDestination,
        Open, FirstCheckpoint, Chunk, EndOfBody, Truncated, Verify, Link, Unlink, CheckAgain,
        Rename, Discard, ClearCheckpoint, Abort, Interrupt, PublishFails
  <2>2. CASE dest'[n] = dest[n]
    BY <1>0, <1>4, <2>1, <2>2, LeavesAlone
  <2>3. CASE /\ dl[w].pc \in {"verified", "free"} /\ partial[Path(dl[w])] # None
             /\ dest' = [dest EXCEPT ![Path(dl[w])[2]] = partial[Path(dl[w])]]
             /\ UNCHANGED data
    <3> DEFINE s == data[partial[Path(dl[w])]]
    <3>1. Path(dl[w]) \in Codes \X Names /\ dl[w].info \in Info /\ Path(dl[w])[2] = dl[w].info.name
      BY <1>0, <2>3, FieldsPresent DEF Path
    <3>2. Digest(s) = dl[w].info.digest /\ s \in Bytes
      BY <1>0, <2>3, <3>1 DEF Hashed, TypeOK
    <3>3. dl[w].info.digest # NoDigest
      BY <3>2, NoneAssumption DEF Digest, NoDigest
    <3>4. <<dl[w].info.name, Digest(s)>> \in vouched
      BY <1>0, <3>1, <3>2, <3>3, NoneAssumption DEF Promised, Stands
    <3>5. dest'[n] = IF n = dl[w].info.name THEN partial[Path(dl[w])] ELSE dest[n]
      BY <1>0, <2>3, <3>1 DEF TypeOK
    <3> QED
      BY <2>1, <2>2, <2>3, <3>4, <3>5
  <2> QED
    BY <1>4, <2>2, <2>3 DEF Proceed, Fail, ClaimResolved, ReadHeader, Load, RefuseUndigested,
       CheckDestination, Open, FirstCheckpoint, Chunk, EndOfBody, Truncated, Verify, Link, Unlink,
       CheckAgain, Rename, Discard, ClearCheckpoint, Abort, Interrupt, PublishFails, diskVars
<1> QED
  BY <1>1, <1>2, <1>3, <1>4 DEF Next, Environment, Register, EditSource, Withdraw, Crash,
     Begin, Resolve, ClaimShare, diskVars, vars

-----------------------------------------------------------------------------
(* The theorems *)

\* The invariant holds of an empty directory.
LEMMA IInvInit == Init => IInv
<1> SUFFICES ASSUME Init PROVE IInv
  OBVIOUS
<1>1. TypeOK /\ Shapes
  BY IdleTyped, IdleShape, ConstantsAssumption DEF Init, TypeOK, Shapes, Bytes
<1>2. \A w \in Workers : dl[w] = Idle
  BY DEF Init
<1> QED
  BY <1>1, <1>2 DEF Init, IInv, Claimed, Active, Promised, Stands, Separate, Hashed, Loaded,
     Intact, CheckpointBacked, Idle, FileOpen, Staging

\* The invariant is inductive.
LEMMA IInvPreserved == OneRoute /\ IInv /\ [Next]_vars => IInv'
<1> SUFFICES ASSUME OneRoute, IInv, [Next]_vars PROVE IInv'
  OBVIOUS
<1>1. TypeOK /\ Shapes /\ Claimed /\ Promised /\ Separate
  BY DEF IInv
<1>2. TypeOK' /\ Shapes' /\ Claimed' /\ Promised' /\ Separate'
  BY <1>1, TypePreserved, ShapesPreserved, ClaimedPreserved, PromisedPreserved, SeparatePreserved
<1>3. Hashed' /\ Loaded' /\ Intact' /\ CheckpointBacked'
  BY HashedPreserved, LoadedPreserved, IntactPreserved, CheckpointBackedPreserved
<1> QED
  BY <1>2, <1>3 DEF IInv

\* The inductive invariant holds in every instance in which each code is
\* fetched by one route.
THEOREM Inductive == ASSUME OneRoute PROVE Spec => []IInv
  BY OneRoute, IInvInit, IInvPreserved, PTL DEF Spec

\* Nothing lands that was not verified, and nothing changes it afterwards.
THEOREM PublishedIntact == ASSUME OneRoute PROVE Spec => []Intact
<1>1. IInv => Intact
  BY DEF IInv
<1> QED
  BY <1>1, Inductive, PTL

\* A checkpoint counts no byte that its partial does not hold.
THEOREM CheckpointsBacked == ASSUME OneRoute PROVE Spec => []CheckpointBacked
<1>1. IInv => CheckpointBacked
  BY DEF IInv
<1> QED
  BY <1>1, Inductive, PTL

-----------------------------------------------------------------------------
(* 3. Nothing is replaced, and Placement *)

\* The window between the check and the rename is never open.
NoWindow == \A w \in Workers : dl[w].pc # "free"

\* With hard links nobody takes the check-then-rename path.
LEMMA NoWindowPreserved ==
  HardLinks /\ TypeOK /\ Shapes /\ NoWindow /\ [Next]_vars => NoWindow'
<1> SUFFICES ASSUME HardLinks, TypeOK, Shapes, NoWindow, [Next]_vars, NEW v \in Workers
             PROVE  dl'[v].pc # "free"
  BY DEF NoWindow
<1>0. dl[v] \in Workspace /\ dl \in [Workers -> Workspace] /\ dl[v].pc # "free"
  BY DEF TypeOK, NoWindow
<1>1. CASE UNCHANGED dl
  BY <1>0, <1>1
<1>2. ASSUME NEW w \in Workers, Begin(w) PROVE dl'[v].pc # "free"
  <2>1. CASE \E c \in Codes : Resolve(w, c)
    BY <1>0, <2>1 DEF Resolve, Idle
  <2>2. CASE \E c \in Codes : ClaimShare(w, c)
    BY <1>0, <2>2 DEF ClaimShare, Idle
  <2> QED
    BY <1>2, <2>1, <2>2 DEF Begin
<1>3. ASSUME NEW w \in Workers, Proceed(w) \/ Fail(w), v # w PROVE dl'[v].pc # "free"
  BY <1>0, <1>3, Continues
<1>4. CASE Proceed(v) \/ Fail(v)
  <2>1. ASSUME NEW p \in Steps \ {"free"}, Goto(v, p) PROVE dl'[v].pc # "free"
    BY <2>1, GotoFields
  <2>2. CASE Return(v) \/ dl' = [dl EXCEPT ![v] = Idle]
    BY <1>0, <2>2, Moves DEF Idle
  <2>3. ASSUME NEW d, d.pc # "free", dl' = [dl EXCEPT ![v] = d] PROVE dl'[v].pc # "free"
    BY <1>0, <2>3
  <2>4. CASE ReadHeader(v)
    <3>1. CASE dl' = [dl EXCEPT ![v] = [dl[v] EXCEPT !.pc = "offered", !.info = offer[dl[v].code]]]
      BY <1>0, <3>1 DEF Workspace
    <3> QED
      BY <2>2, <2>4, <3>1 DEF ReadHeader
  <2>5. CASE Load(v)
    <3> DEFINE r == IF Resumable(dl[v].code) THEN ckpt[dl[v].code] ELSE None
               p == IF dl[v].route = "share" THEN "loaded" ELSE "ready"
    <3>1. dl' = [dl EXCEPT ![v] = [dl[v] EXCEPT !.res = r, !.pc = p]]
      BY <2>5 DEF Load
    <3> HIDE DEF r
    <3> QED
      BY <1>0, <3>1 DEF Workspace
  <2>6. CASE Open(v)
    <3> DEFINE i == IF partial[Path(dl[v])] = None THEN Fresh ELSE partial[Path(dl[v])]
               old == IF partial[Path(dl[v])] = None THEN <<>> ELSE data[i]
               h == SubSeq(old, 1, Offset(dl[v]))
    <3>1. CASE dl' = [dl EXCEPT ![v].pc = "opened", ![v].fd = i, ![v].hash = h]
      <4>1. dl' = [dl EXCEPT ![v] = [dl[v] EXCEPT !.pc = "opened", !.fd = i, !.hash = h]]
        BY <3>1
      <4> HIDE DEF i, h
      <4> QED
        BY <1>0, <4>1 DEF Workspace
    <3> QED
      BY <2>2, <2>6, <3>1 DEF Open
  <2>7. CASE Chunk(v)
    <3> DEFINE d == dl[v]
               h == Append(d.hash, body[d.code][Received(d) + 1])
               end == IF d.route = "share" THEN d.info.size ELSE Len(body[d.code])
               p == IF Received(d) + 1 = end THEN "complete" ELSE "body"
    <3>1. dl' = [dl EXCEPT ![v] = [d EXCEPT !.hash = h, !.pc = p]]
      BY <2>7 DEF Chunk
    <3>2. p # "free"
      OBVIOUS
    <3> HIDE DEF h, p
    <3> QED
      BY <1>0, <3>1, <3>2 DEF Workspace
  <2>8. CASE Verify(v)
    <3>1. \E p \in {"verified", "discard"} :
             dl' = [dl EXCEPT ![v] = [dl[v] EXCEPT !.pc = p, !.fd = None]]
      BY <2>8 DEF Verify
    <3> QED
      BY <1>0, <3>1 DEF Workspace
  <2>9. CASE \/ ClaimResolved(v) \/ CheckDestination(v) \/ FirstCheckpoint(v) \/ EndOfBody(v)
             \/ Link(v) \/ Unlink(v) \/ Rename(v) \/ Discard(v) \/ PublishFails(v)
             \/ RefuseUndigested(v) \/ Truncated(v) \/ ClearCheckpoint(v) \/ Abort(v) \/ Interrupt(v)
    <3>1. \/ Return(v) \/ dl' = [dl EXCEPT ![v] = Idle]
          \/ \E p \in {"admitted", "ready", "checked", "complete", "body", "linked", "discard",
                       "landed", "discarded"} : Goto(v, p)
      BY <2>9 DEF ClaimResolved, CheckDestination, FirstCheckpoint, EndOfBody, Link, Unlink,
         Rename, Discard, PublishFails, RefuseUndigested, Truncated, ClearCheckpoint, Abort, Interrupt
    <3> QED
      BY <2>1, <2>2, <3>1 DEF Steps
  <2>10. CASE CheckAgain(v)
    BY <2>10 DEF CheckAgain
  <2> QED
    BY <1>4, <2>4, <2>5, <2>6, <2>7, <2>8, <2>9, <2>10 DEF Proceed, Fail
<1>5. CASE Crash
  BY <1>5 DEF Crash, Idle
<1> QED
  BY <1>1, <1>2, <1>3, <1>4, <1>5 DEF Next, Environment, Register, EditSource, Withdraw,
     UserPlaces, UserRemoves, vars

\* Which steps change a final name.
LEMMA DestChanges ==
  ASSUME HardLinks, TypeOK, Shapes, NoWindow, [Next]_vars, NEW n \in Names, dest'[n] # dest[n]
  PROVE  \/ UserRemoves(n)
         \/ dest[n] = None /\ \E s \in Contents : UserPlaces(n, s)
         \/ dest[n] = None /\ \E w \in Workers : Link(w) /\ dl[w].info.name = n
<1>1. ASSUME NEW m \in Names, UserRemoves(m) PROVE m = n
  BY <1>1 DEF UserRemoves, TypeOK
<1>2. ASSUME NEW m \in Names, NEW s \in Contents, UserPlaces(m, s) PROVE m = n /\ dest[n] = None
  BY <1>2 DEF UserPlaces, TypeOK
<1>3. ASSUME NEW w \in Workers, Link(w) PROVE dest[n] = None /\ dl[w].info.name = n
  <2>1. Path(dl[w])[2] = dl[w].info.name
    BY DEF Path
  <2> QED
    BY <1>3, <2>1 DEF Link, TypeOK
<1>4. ASSUME NEW w \in Workers, Rename(w) PROVE FALSE
  BY <1>4 DEF Rename, NoWindow
<1>5. ASSUME NEW w \in Workers, Proceed(w) \/ Fail(w) PROVE Link(w)
  BY <1>4, <1>5 DEF Proceed, Fail, ClaimResolved, ReadHeader, Load, RefuseUndigested,
     CheckDestination, Open, FirstCheckpoint, Chunk, EndOfBody, Truncated, Verify, Unlink,
     CheckAgain, Discard, ClearCheckpoint, Abort, Interrupt, PublishFails, diskVars
<1>6. ~ Crash /\ ~ UNCHANGED vars /\ \A w \in Workers : ~ Begin(w)
  BY DEF Crash, Begin, Resolve, ClaimShare, diskVars, vars
<1>7. CASE Environment
  <2>1. ASSUME NEW c \in Codes, NEW m \in Names, NEW s \in Contents, NEW d \in {Digest(s), NoDigest}
        PROVE  ~ Register(c, m, s, d)
    BY DEF Register, diskVars
  <2>2. ASSUME NEW c \in Codes, NEW s \in Contents PROVE ~ EditSource(c, s)
    BY DEF EditSource, diskVars
  <2>3. ASSUME NEW c \in Codes PROVE ~ Withdraw(c)
    BY DEF Withdraw, diskVars
  <2> QED
    BY <1>1, <1>2, <1>7, <2>1, <2>2, <2>3 DEF Environment
<1> QED
  BY <1>3, <1>5, <1>6, <1>7 DEF Next

\* With hard links no interleaving makes a download replace a file, whichever
\* routes a code is fetched by.
THEOREM NothingReplaced == ASSUME HardLinks PROVE Spec => NeverReplaces
<1>1. Init => TypeOK /\ Shapes /\ NoWindow
  BY IdleTyped, IdleShape, ConstantsAssumption DEF Init, TypeOK, Shapes, NoWindow, Idle, Bytes
<1>2. TypeOK /\ Shapes /\ NoWindow /\ [Next]_vars => (TypeOK /\ Shapes /\ NoWindow)'
  BY HardLinks, TypePreserved, ShapesPreserved, NoWindowPreserved
<1>3. TypeOK /\ Shapes /\ NoWindow /\ [Next]_vars =>
        [\A n \in Names : dest[n] # None /\ dest'[n] # dest[n] => UserRemoves(n)]_vars
  <2> SUFFICES ASSUME TypeOK, Shapes, NoWindow, [Next]_vars, NEW n \in Names,
                      dest[n] # None, dest'[n] # dest[n]
               PROVE  UserRemoves(n)
    OBVIOUS
  <2> QED
    BY HardLinks, DestChanges
<1> QED
  BY <1>1, <1>2, <1>3, PTL DEF Spec, NeverReplaces

-----------------------------------------------------------------------------
(* Download implements Placement *)

\* A name whose inode and content stay shows the same file.
LEMMA FileKept ==
  ASSUME NEW n \in Names, dest'[n] = dest[n], dest[n] # None => data'[dest[n]] = data[dest[n]]
  PROVE  files'[n] = files[n]
  BY DEF files

\* Every step of Download is a step of Placement or a stutter.
LEMMA StepImplements ==
  ASSUME OneRoute, HardLinks, IInv, NoWindow, IInv', [Next]_vars
  PROVE  [Promise!PNext]_<<files, vouched>>
<1>0. TypeOK /\ Shapes
  BY DEF IInv
<1>1. CASE UNCHANGED <<dest, data>> /\ vouched \subseteq vouched'
  BY <1>1 DEF files, Promise!PNext, Promise!Vouch
<1>2. ASSUME NEW n \in Names, UserRemoves(n) PROVE Promise!UserDeletes(n)
  <2>1. \A m \in Names : dest'[m] = IF m = n THEN None ELSE dest[m]
    BY <1>0, <1>2 DEF UserRemoves, TypeOK
  <2>2. UNCHANGED <<data, vouched>>
    BY <1>2 DEF UserRemoves
  <2>3. \A m \in Names : files'[m] = IF m = n THEN None ELSE files[m]
    BY <2>1, <2>2 DEF files
  <2>4. files' = [files EXCEPT ![n] = None]
    <3>1. files = [m \in Names |-> files[m]] /\ files' = [m \in Names |-> files'[m]]
      BY DEF files
    <3> QED
      BY <2>3, <3>1
  <2> QED
    BY <2>2, <2>4 DEF Promise!UserDeletes
<1>3. ASSUME NEW n \in Names, NEW s \in Contents, UserPlaces(n, s) PROVE Promise!UserWrites(n)
  <2>1. Fresh \in Inodes /\ Unused(Fresh)
    BY <1>3, FreshUnused DEF UserPlaces
  <2>2. /\ \A j \in Inodes : data'[j] = IF j = Fresh THEN s ELSE data[j]
        /\ \A m \in Names : dest'[m] = IF m = n THEN Fresh ELSE dest[m]
        /\ vouched' = vouched \cup {<<n, Digest(s)>>}
        /\ dest[n] = None
    BY <1>0, <1>3, <2>1 DEF UserPlaces, TypeOK
  <2>3. s \in Bytes
    BY ConstantsAssumption, BytesFromCells
  <2>4. files'[n] = s /\ files[n] = None
    BY <2>1, <2>2, ConstantsAssumption DEF files
  <2>5. \A m \in Names : m # n => files'[m] = files[m]
    BY <1>0, <2>1, <2>2 DEF files, Unused, TypeOK
  <2>6. files' = [files EXCEPT ![n] = files'[n]]
    <3>1. files = [m \in Names |-> files[m]] /\ files' = [m \in Names |-> files'[m]]
      BY DEF files
    <3> QED
      BY <2>5, <3>1
  <2> QED
    BY <2>2, <2>3, <2>4, <2>6 DEF Promise!UserWrites
<1>4. ASSUME NEW w \in Workers, Proceed(w) \/ Fail(w) PROVE [Promise!PNext]_<<files, vouched>>
  <2>1. vouched' = vouched
    BY <1>4 DEF Proceed, Fail, ClaimResolved, ReadHeader, Load, RefuseUndigested, CheckDestination,
        Open, FirstCheckpoint, Chunk, EndOfBody, Truncated, Verify, Link, Unlink, CheckAgain,
        Rename, Discard, ClearCheckpoint, Abort, Interrupt, PublishFails
  <2>2. \A n \in Names : dest'[n] = dest[n] => files'[n] = files[n]
    BY <1>4, LeavesAlone, FileKept
  <2>3. CASE dest' = dest
    BY <2>1, <2>2, <2>3 DEF files
  <2>4. CASE Link(w) /\ dest' # dest
    <3> DEFINE n == dl[w].info.name
               i == partial[Path(dl[w])]
    <3>1. n \in Names /\ Path(dl[w]) \in Codes \X Names /\ Path(dl[w])[2] = n
      BY <1>0, <2>4, FieldsPresent DEF Link, Path, Info
    <3>2. i # None /\ dest[n] = None /\ dest' = [dest EXCEPT ![n] = i] /\ UNCHANGED data
      BY <2>4, <3>1 DEF Link
    <3>3. i \in Inodes /\ dest'[n] = i
      BY <1>0, <3>1, <3>2 DEF TypeOK
    <3>4. files[n] = None /\ files'[n] = data[i] /\ data[i] \in Bytes
      BY <1>0, <3>1, <3>2, <3>3 DEF files, TypeOK
    <3>5. <<n, Digest(files'[n])>> \in vouched
      BY <2>1, <3>1, <3>2, <3>3, <3>4 DEF IInv, Intact
    <3>6. files' = [files EXCEPT ![n] = files'[n]]
      BY <1>0, <2>2, <3>2 DEF files, TypeOK
    <3> QED
      BY <2>1, <3>1, <3>4, <3>5, <3>6 DEF Promise!PNext, Promise!Land
  <2>5. ~ Rename(w)
    BY DEF Rename, NoWindow
  <2> QED
    BY <1>4, <2>3, <2>4, <2>5 DEF Proceed, Fail, ClaimResolved, ReadHeader, Load, RefuseUndigested,
       CheckDestination, Open, FirstCheckpoint, Chunk, EndOfBody, Truncated, Verify, Unlink,
       CheckAgain, Discard, ClearCheckpoint, Abort, Interrupt, PublishFails, diskVars
<1> QED
  BY <1>1, <1>2, <1>3, <1>4 DEF Promise!PNext, Next, Environment, Register, EditSource, Withdraw,
     Crash, Begin, Resolve, ClaimShare, diskVars, vars

\* With hard links and one route per code, the output directory behaves as
\* Placement says, in every instance.
THEOREM Implements == ASSUME OneRoute, HardLinks PROVE Spec => LandsWhole
<1>1. Init => Promise!PInit /\ NoWindow
  BY DEF Init, files, Promise!PInit, NoWindow, Idle
<1>2. IInv /\ NoWindow /\ [Next]_vars => NoWindow'
  BY HardLinks, NoWindowPreserved DEF IInv
<1>3. IInv /\ NoWindow /\ IInv' /\ [Next]_vars => [Promise!PNext]_<<files, vouched>>
  BY OneRoute, HardLinks, StepImplements
<1>4. Spec => []IInv
  BY OneRoute, Inductive
<1> QED
  BY <1>1, <1>2, <1>3, <1>4, PTL DEF Spec, LandsWhole, Promise!PSpec, Promise!pvars

=============================================================================
