-------------------------- MODULE MCReceiptLedger --------------------------
(* Small instances of ReceiptLedger and its reader for TLC. *)
EXTENDS ReceiptReader, TLC

Symmetry == Permutations(Writer)

=============================================================================
