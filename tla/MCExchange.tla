----------------------------- MODULE MCExchange -----------------------------
(* A plain token and a Token-2022 mint whose default account state the freeze *)
(* authority can change, and nothing else.                                    *)
EXTENDS Exchange, TLC

CONSTANTS usd, eur

Extension(kind, active, authority) ==
  [kind |-> kind, active |-> active, authority |-> authority]

MCMints ==
  (usd :> [tokenProgram |-> "spl-token", freezeAuthority |-> FALSE, extensions |-> {}])
  @@
  (eur :> [tokenProgram |-> "token-2022", freezeAuthority |-> TRUE,
           extensions |-> {Extension("defaultAccountState", "no", FALSE),
                           Extension("tokenMetadata", "no", FALSE)}])

Symmetry == Permutations(Merchants) \cup Permutations(Amounts)
==============================================================================
