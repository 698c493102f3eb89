--------------------------- MODULE MCTransactions ---------------------------
(***************************************************************************)
(* Instances of Transactions for TLC.                                      *)
(***************************************************************************)
EXTENDS Transactions, TLC

\* Cells are interchangeable.  Only runs without liveness use this.
CellSymmetry == Permutations(Cells)
=============================================================================
