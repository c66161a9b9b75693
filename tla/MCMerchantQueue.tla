--------------------------- MODULE MCMerchantQueue ---------------------------
(* Instances of MerchantQueue for TLC: payments are interchangeable.  What the *)
(* merchant was told is history that no guard reads, so a run whose            *)
(* properties do not look at it leaves it out of the view.                     *)
EXTENDS MerchantQueue, TLC

AuthSymmetry == Permutations(Auths)
Symmetry == AuthSymmetry \cup Permutations(Callers)

WithoutWhatWasTold ==
  <<clock, payments, failures, stored, storedFailures, writes, call, chainVars,
    handed, drains>>
==============================================================================
