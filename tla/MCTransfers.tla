---------------------------- MODULE MCTransfers -----------------------------
(***************************************************************************)
(* Two transfers of codes of their own, and what they do to each other.    *)
(***************************************************************************)
EXTENDS Transfers, TLC

OfItsOwn == [t \in Transfers |-> t]

TransferSymmetry == Permutations(Transfers)

=============================================================================
