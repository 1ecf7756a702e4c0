---------------------------- MODULE MCLockOrder ----------------------------
(* Instances of LockOrder: interchangeable transactions. *)
EXTENDS LockOrder, TLC

TxSymmetry == Permutations(Tx)

=============================================================================
