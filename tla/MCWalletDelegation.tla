------------------------ MODULE MCWalletDelegation ------------------------
(* An instance of WalletDelegation for TLC. *)
EXTENDS WalletDelegation, TLC

Symmetry == Permutations(Requests) \cup Permutations(Nominees) \cup Permutations(Scopes)
=============================================================================
