------------------------------ MODULE MCShare -------------------------------
(***************************************************************************)
(* Small instances of Share.  A cfg chooses the receivers, which of them   *)
(* are paired, and whether the two codes share one file.                   *)
(***************************************************************************)
EXTENDS Share, TLC

CONSTANTS c1, c2, f1, f2

OwnFiles == [c \in Codes |-> IF c = c1 THEN f1 ELSE f2]
OneFile == [c \in Codes |-> f1]

PeerSymmetry == Permutations(Peers)

=============================================================================
