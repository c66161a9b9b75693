----------------------------- MODULE MCNoncePool -----------------------------
(* NoncePool for TLC.  Merchants are interchangeable: nothing orders them and *)
(* no definition names one, so the runs of safety properties take the         *)
(* permutations of Merchants as symmetry.                                     *)
EXTENDS NoncePool, TLC

MerchantSymmetry == Permutations(Merchants)
==============================================================================
