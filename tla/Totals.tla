-------------------------------- MODULE Totals --------------------------------
(***************************************************************************)
(* Totals of amounts, as the ledger's and the queue's `reduce` compute     *)
(* them.  An amount is a natural number of units, so a total counts units. *)
(* The form is one the provers can reason about: no fold, no recursion.    *)
(***************************************************************************)
EXTENDS Naturals, FiniteSets

Units(amount) == UNION {{x} \X (1 .. amount[x]) : x \in DOMAIN amount}

Total(amount) == Cardinality(Units(amount))
==============================================================================
