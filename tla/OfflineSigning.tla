--------------------------- MODULE OfflineSigning ---------------------------
(***************************************************************************)
(* What the payer's pool promises to everybody who cannot look into the    *)
(* device: merchants, who hold signed payments, and the chain, where one   *)
(* payment lands per nonce value.  No ledger, no store, no crash: only     *)
(* payments, signed one after the other, and time.                         *)
(***************************************************************************)
EXTENDS Integers

CONSTANTS
  Payments,    \* what may be signed: [n, slot, value, at, amount, ...]
  SendWindow,  \* a payment not sent within it is presumed abandoned
  SpendLimit,  \* most that is signed in a SpendWindow
  SpendWindow,
  Total(_)     \* the total of a function from items to amounts

VARIABLES
  signed,  \* payments signed so far
  landed,  \* those that have landed
  clock

Init == signed = {} /\ landed = {} /\ clock = 0

SameNonce(x, y) == x.slot = y.slot /\ x.value = y.value

\* No other payment that could still be submitted holds the nonce.
NonceIsFree(x) ==
  \A y \in signed : SameNonce(x, y) => x.at - y.at >= SendWindow

\* Signed in the SpendWindow that ends with x, x included.
SpentWith(x) ==
  Total([y \in {y \in signed : y.at > x.at - SpendWindow} \cup {x} |-> y.amount])

Sign(x) ==
  /\ signed' = signed \cup {x}
  /\ \A y \in signed : y.n < x.n /\ y.at <= x.at
  /\ x.at <= clock
  /\ NonceIsFree(x)
  /\ SpentWith(x) <= SpendLimit
  /\ UNCHANGED <<landed, clock>>

Land(x) ==
  /\ landed' = landed \cup {x}
  /\ \A y \in landed : ~SameNonce(x, y)
  /\ UNCHANGED <<signed, clock>>

Tick == clock' = clock + 1 /\ UNCHANGED <<signed, landed>>

Next ==
  \/ Tick
  \/ \E x \in Payments \ signed : Sign(x)
  \/ \E x \in signed \ landed : Land(x)

Spec == Init /\ [][Next]_<<signed, landed, clock>>
==============================================================================
