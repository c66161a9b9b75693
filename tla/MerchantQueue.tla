---------------------------- MODULE MerchantQueue ----------------------------
(***************************************************************************)
(* The merchant's queue of signed payments: packages/client/src/queue.ts,  *)
(* with submit.ts and nonce-check.ts, the accept flow of the merchant app  *)
(* that calls them, the store that keeps the queue and the chain that      *)
(* settles payments.                                                       *)
(*                                                                         *)
(* A call is a small process: an `accept` (with T1's look-up before it and *)
(* T0's drain after it) or a `drain`.  Every await of the code is a point  *)
(* at which the chain, the clock, the store and a crash may take steps.    *)
(***************************************************************************)
EXTENDS Integers, FiniteSets, Sequences, SequencesExt, Totals

CONSTANTS
  Auths,         \* payments customers show, named by their dedupe key (D31)
  Fresh,         \* those on the fresh-blockhash path
  Tiers,         \* tiers the merchant uses, of "T0", "T1", "T2"
  Amounts,       \* amounts a payment may have
  Callers,       \* calls of the queue that may be in progress at once
  ReceiptCap,    \* receiptCapByTier of T1 and T2
  ExposureCap,   \* queueExposureCap
  MaxFailed,     \* maxConsecutiveFailedSends
  SendWindow,    \* sendWindowMs
  CommitOnResolve, \* store.set resolves only when the write survives a crash
  Faults,        \* which of FaultKinds may happen
  NULL,          \* null and undefined
  MaxClock,      \* bound: the clock stops here
  MaxDrains      \* bound: drains that may be started from the queue screen

FaultKinds == {"crash", "writeFailure", "rpcFailure", "drop"}

ASSUME AuthsAssumption == IsFiniteSet(Auths) /\ Fresh \subseteq Auths
ASSUME LimitAssumption ==
  /\ Amounts \subseteq Nat
  /\ ReceiptCap \in Nat /\ ExposureCap \in Nat
  /\ MaxFailed \in Nat /\ SendWindow \in Nat
ASSUME ChoiceAssumption ==
  /\ Tiers \subseteq {"T0", "T1", "T2"} /\ Faults \subseteq FaultKinds
  /\ CommitOnResolve \in BOOLEAN
ASSUME BoundAssumption == MaxClock \in Nat /\ MaxDrains \in Nat

VARIABLES
  clock,
  payments,      \* the queue's Map: dedupe key -> record, NULL when absent
  failures,      \* consecutiveFailedSends
  stored,        \* the same two in the store
  storedFailures,
  writes,        \* store.set calls on their way, in the order they were made
  call,          \* caller -> its call in progress
  account,       \* what each payment's nonce account (or blockhash) is
  flying,        \* payments broadcast and not landed
  landed,        \* how each payment ended on chain
  handed,        \* how often goods were handed over for a payment (history)
  voidedShown,   \* payments the merchant was told are voided (history)
  refused,       \* payments the merchant was told were not accepted (history)
  drains         \* drains started from the queue screen

chainVars == <<account, flying, landed>>
historyVars == <<handed, voidedShown, refused>>
vars == <<clock, payments, failures, stored, storedFailures, writes, call,
          chainVars, historyVars, drains>>
------------------------------------------------------------------------------
(* Data *)

Times == 0 .. MaxClock
States == {"queued", "submitting", "settled", "failed", "voided"}
\* A fabricated account never existed; a closed one did.
AccountStates == {"current", "moved", "closed", "fabricated"}

FailCodes == {"SUBMIT_NONCE_STALE", "SUBMIT_NONCE_ABSENT",
              "SUBMIT_EXECUTION_FAILED", "SUBMIT_BLOCKHASH_EXPIRED",
              "SUBMIT_RPC_UNAVAILABLE"}
Codes == FailCodes \cup {"settled"}

\* A QueuedPayment.  `order` is the order of acceptance: acceptedAt in
\* milliseconds, of which `at` keeps only what the send window needs.
QueuedPayments ==
  [id : Auths, order : Nat \ {0}, tier : Tiers, at : Times, amount : Amounts,
   state : States,
   lastError : FailCodes \cup {"LIMIT_SEND_WINDOW_EXPIRED", NULL}]

\* NULL is no payment, caller, record, word or number.
ASSUME NullAssumption ==
  /\ NULL \notin Auths /\ NULL \notin Callers /\ NULL \notin QueuedPayments
  /\ NULL \notin Tiers /\ NULL \notin Amounts /\ NULL \notin Codes

Phases == {"idle", "offered", "accepting", "next", "marking", "sending",
           "confirming", "lookup", "precheck", "readback", "recording",
           "meta"}

Calls ==
  [phase   : Phases,
   sale    : Auths \cup {NULL},   \* the payment being accepted
   tier    : Tiers \cup {NULL},   \* and its tier, amount and T1 verdict
   amount  : Amounts \cup {NULL},
   verdict : BOOLEAN,
   todo    : Seq(QueuedPayments), \* what this drain has still to submit
   error   : FailCodes \cup {NULL},  \* what sendPayment threw, if it says
   caught  : BOOLEAN,             \* in submit's catch block
   result  : Codes \cup {NULL},   \* submit's outcome for the head of todo
   last    : Codes \cup {NULL}]   \* outcomes.at(-1)

Idle == [phase |-> "idle", sale |-> NULL, tier |-> NULL, amount |-> NULL,
         verdict |-> FALSE, todo |-> <<>>, error |-> NULL, caught |-> FALSE,
         result |-> NULL, last |-> NULL]

Present(book) == {p \in Auths : book[p] # NULL}

\* Mutant: newest first.
OrderedNewestFirst(S) ==
  {s \in [1 .. Cardinality(S) -> S] :
     \A i, j \in DOMAIN s : i < j => s[i].order > s[j].order}

\* ordered(): records in the one order there is, oldest first.
Ordered(S) ==
  {s \in [1 .. Cardinality(S) -> S] :
     \A i, j \in DOMAIN s : i < j => s[i].order < s[j].order}

NextOrder(book) ==
  1 + Max({0} \cup {book[p].order : p \in Present(book)})

\* Mutant: a payment being sent is no longer counted.
UnsettledNotSubmitting == {"queued", "failed"}

UNSETTLED == {"queued", "submitting", "failed"}

AmountsOf(book, S) == Total([p \in S |-> book[p].amount])

\* T0 hands over after settlement, so it is not exposed.
Exposure(book) ==
  AmountsOf(book, {p \in Present(book) :
                     book[p].tier # "T0" /\ book[p].state \in UNSETTLED})

\* Failures that mean the merchant should stop accepting.
COUNTS_AS_FAILED_SEND == {"SUBMIT_EXECUTION_FAILED", "SUBMIT_NONCE_ABSENT"}
------------------------------------------------------------------------------
Init ==
  /\ clock = 0
  /\ payments = [p \in Auths |-> NULL]
  /\ failures = 0
  /\ stored = payments
  /\ storedFailures = 0
  /\ writes = <<>>
  /\ call = [c \in Callers |-> Idle]
  /\ account \in [Auths -> {"current", "fabricated"}]
  /\ flying = {}
  /\ landed = [p \in Auths |-> "none"]
  /\ handed = [p \in Auths |-> 0]
  /\ voidedShown = {}
  /\ refused = {}
  /\ drains = 0

Moves(c, k) == call' = [call EXCEPT ![c] = k]

OnlyTheCall ==
  UNCHANGED <<clock, payments, failures, stored, storedFailures, writes,
              chainVars, historyVars, drains>>

\* save: the Map changes at once, the store when the write lands.
Save(c, record) ==
  /\ payments' = [payments EXCEPT ![record.id] = record]
  /\ writes' = Append(writes, [owner |-> c, record |-> record])
------------------------------------------------------------------------------
(* accept *)

\* A customer's AUTH has been scanned and verified against this sale.
Offer(c, p, tier, amount) ==
  /\ call[c] = Idle
  /\ Moves(c, [Idle EXCEPT !.phase = "offered", !.sale = p, !.tier = tier,
                           !.amount = amount])
  /\ OnlyTheCall

\* Mutant: the look-up is left to the caller.
NeedNotLookUp(k) == FALSE

\* T1 looks the nonce account up before it accepts.
MustLookUp(k) == k.tier = "T1" /\ k.sale \notin Fresh /\ ~k.verdict

PrecheckPasses(c) ==
  LET k == call[c]
  IN  /\ k.phase = "offered" /\ MustLookUp(k)
      /\ account[k.sale] = "current"
      /\ Moves(c, [k EXCEPT !.verdict = TRUE])
      /\ OnlyTheCall

\* Mutant: only unsettled payments count as duplicates.
AcceptableOnceSettled(k) ==
  /\ payments[k.sale] # NULL => payments[k.sale].state \notin UNSETTLED
  /\ ~MustLookUp(k)
  /\ failures < MaxFailed
  /\ k.tier # "T0" => /\ k.amount <= ReceiptCap
                      /\ Exposure(payments) + k.amount <= ExposureCap

Acceptable(k) ==
  /\ payments[k.sale] = NULL
  /\ ~MustLookUp(k)
  /\ failures < MaxFailed
  /\ k.tier # "T0" => /\ k.amount <= ReceiptCap
                      /\ Exposure(payments) + k.amount <= ExposureCap

\* The checks and the Map's entry are one synchronous step.
Accept(c) ==
  LET k == call[c]
      accepted == [id |-> k.sale, order |-> NextOrder(payments),
                   tier |-> k.tier, at |-> clock, amount |-> k.amount,
                   state |-> "queued", lastError |-> NULL]
  IN  /\ k.phase = "offered"
      /\ Acceptable(k)
      /\ Save(c, accepted)
      /\ Moves(c, [k EXCEPT !.phase = "accepting", !.verdict = FALSE,
                            !.amount = NULL])
      /\ UNCHANGED <<clock, failures, stored, storedFailures, chainVars,
                     historyVars, drains>>

\* accept throws a VadumError: a check fails, or T1's look-up finds the nonce
\* stale or absent, or cannot be made.
Rejected(c) ==
  LET k == call[c]
  IN  /\ k.phase = "offered"
      /\ IF MustLookUp(k)
         THEN account[k.sale] # "current" \/ "rpcFailure" \in Faults
         ELSE ~Acceptable(k)
      /\ Moves(c, Idle)
      /\ OnlyTheCall
------------------------------------------------------------------------------
(* drain *)

\* Mutant: everything that is not settled is sent.
EligibleUnlessSettled(book) ==
  {book[p] : p \in {p \in Present(book) : book[p].state # "settled"}}

\* The snapshot a drain works through: states are read when it begins.
Eligible(book) ==
  {book[p] : p \in {p \in Present(book) : book[p].state \in {"queued", "failed"}}}

\* "Send everything now" on the queue screen.
DrainBegins(c) ==
  /\ call[c] = Idle
  /\ drains < MaxDrains
  /\ Eligible(payments) # {}
  /\ drains' = drains + 1
  /\ \E todo \in Ordered(Eligible(payments)) :
       Moves(c, [Idle EXCEPT !.phase = "next", !.todo = todo])
  /\ UNCHANGED <<clock, payments, failures, stored, storedFailures, writes,
                 chainVars, historyVars>>

MarksSubmitting(c) ==
  LET k == call[c]
  IN  /\ k.phase = "next" /\ k.todo # <<>>
      /\ Save(c, [Head(k.todo) EXCEPT !.state = "submitting"])
      /\ Moves(c, [k EXCEPT !.phase = "marking"])
      /\ UNCHANGED <<clock, failures, stored, storedFailures, chainVars,
                     historyVars, drains>>

\* sendPayment hands the transaction to the network, or hands it over again.
Broadcasts(c) ==
  LET k == call[c]
      p == Head(k.todo).id
  IN  /\ k.phase \in {"sending", "confirming"}
      /\ account[p] = "current"
      /\ flying' = flying \cup {p}
      /\ Moves(c, [k EXCEPT !.phase = "confirming"])
      /\ UNCHANGED <<clock, payments, failures, stored, storedFailures, writes,
                     account, landed, historyVars, drains>>

\* sendPayment throws, and submit catches it.
SendThrows(c, error) ==
  /\ Moves(c, [call[c] EXCEPT !.phase = "lookup", !.error = error,
                              !.caught = TRUE])
  /\ OnlyTheCall

\* What the endpoint's simulation says of a transaction it does not broadcast:
\* there is no money, or the nonce is not the one claimed.
Objection(p) == IF account[p] = "current" THEN "SUBMIT_EXECUTION_FAILED"
                                          ELSE "SUBMIT_BLOCKHASH_EXPIRED"

\* The send throws without having sent: the simulation objects, or the endpoint
\* is out of reach.
SendRefused(c) ==
  /\ call[c].phase = "sending"
  /\ \/ SendThrows(c, Objection(Head(call[c].todo).id))
     \/ "rpcFailure" \in Faults /\ SendThrows(c, "SUBMIT_RPC_UNAVAILABLE")

SendConfirmed(c) ==
  LET k == call[c]
  IN  /\ k.phase = "confirming"
      /\ landed[Head(k.todo).id] = "ok"
      /\ Moves(c, [k EXCEPT !.phase = "readback"])
      /\ OnlyTheCall

\* The confirmer throws: the transaction failed, or its nonce moved without it.
ConfirmerThrows(c) ==
  LET p == Head(call[c].todo).id
  IN  /\ call[c].phase = "confirming"
      /\ \/ landed[p] = "failed" /\ SendThrows(c, "SUBMIT_EXECUTION_FAILED")
         \/ /\ landed[p] = "none" /\ account[p] # "current"
            /\ SendThrows(c, IF p \in Fresh THEN "SUBMIT_BLOCKHASH_EXPIRED" ELSE NULL)

\* The send throws after the broadcast, also because nothing was heard of it in
\* time, or because it was sent once more and the simulation then objected.
SendUnconfirmed(c) ==
  \/ ConfirmerThrows(c)
  \/ /\ "rpcFailure" \in Faults
     /\ call[c].phase = "confirming"
     /\ \/ SendThrows(c, "SUBMIT_RPC_UNAVAILABLE")
        \/ SendThrows(c, Objection(Head(call[c].todo).id))

\* What a failure is called when the chain does not say.
Told(error) == IF error = NULL THEN "SUBMIT_RPC_UNAVAILABLE" ELSE error

\* submit's outcome is known: drain saves it over its own snapshot.
Resolves(c, code) ==
  LET k == call[c]
      q == Head(k.todo)
  IN  /\ Save(c, IF code = "settled"
                 THEN [q EXCEPT !.state = "settled"]
                 ELSE [q EXCEPT !.state = "failed", !.lastError = code])
      /\ Moves(c, [k EXCEPT !.phase = "recording", !.result = code,
                            !.error = NULL, !.caught = FALSE])
      /\ UNCHANGED <<clock, failures, stored, storedFailures, chainVars,
                     historyVars, drains>>

\* Reading the nonce's new value back.  Nothing depends on what it reads.
ReadsBack(c) ==
  /\ call[c].phase = "readback"
  /\ Resolves(c, "settled")

\* Mutant: a nonce that has moved means that the payment went through.
LooksAtTheNonce(c) ==
  LET k == call[c]
  IN  /\ k.phase = "lookup"
      /\ Moves(c, [k EXCEPT !.phase =
                      IF account[Head(k.todo).id] = "moved" THEN "readback"
                                                            ELSE "precheck"])
      /\ OnlyTheCall

\* getSignatureOutcome: the chain decides what a failed send cost.
LooksUp(c) ==
  LET k == call[c]
      p == Head(k.todo).id
  IN  /\ k.phase = "lookup"
      /\ \/ /\ landed[p] = "ok"
            /\ Moves(c, [k EXCEPT !.phase = "readback"])
            /\ OnlyTheCall
         \/ /\ landed[p] = "failed"
            /\ Resolves(c, "SUBMIT_EXECUTION_FAILED")
         \/ /\ landed[p] = "none" /\ p \in Fresh
            /\ Resolves(c, Told(k.error))
         \/ /\ landed[p] = "none" /\ p \notin Fresh
            /\ Moves(c, [k EXCEPT !.phase = "precheck"])
            /\ OnlyTheCall

\* precheckNonce: a stale nonce and an absent one are different events (D21).
Classifies(c) ==
  LET k == call[c]
      p == Head(k.todo).id
  IN  /\ k.phase = "precheck"
      /\ CASE account[p] = "current" -> Resolves(c, Told(k.error))
           [] account[p] = "moved"   -> Resolves(c, "SUBMIT_NONCE_STALE")
           [] OTHER                  -> Resolves(c, "SUBMIT_NONCE_ABSENT")

\* An error the code does not name leaves the call.  The merchant reads that
\* nothing was accepted or sent.
ThrowsOut(c) ==
  LET k == call[c]
  IN  /\ Moves(c, Idle)
      /\ refused' = refused \cup
           {IF k.sale # NULL THEN k.sale ELSE Head(k.todo).id}
      /\ UNCHANGED <<handed, voidedShown>>

\* The call awaits a read of the chain; a payment without a nonce reads none back.
AwaitsRead(c) ==
  /\ call[c].phase \in {"readback", "lookup", "precheck"}
  /\ call[c].phase = "readback" => Head(call[c].todo).id \notin Fresh

\* A read of the chain fails.  Inside the try block it only leads to the catch
\* block; there it throws out of submit and drain.
ReadFails(c) ==
  LET k == call[c]
  IN  /\ "rpcFailure" \in Faults
      /\ AwaitsRead(c)
      /\ IF k.caught
         THEN ThrowsOut(c)
         ELSE /\ Moves(c, [k EXCEPT !.phase = "lookup", !.caught = TRUE,
                                    !.error = "SUBMIT_RPC_UNAVAILABLE"])
              /\ UNCHANGED historyVars
      /\ UNCHANGED <<clock, payments, failures, stored, storedFailures, writes,
                     chainVars, drains>>

\* saveMeta resolves, and the drain turns to its next payment.
MetaLands(c) ==
  LET k == call[c]
  IN  /\ k.phase = "meta"
      /\ \/ storedFailures' = failures
         \/ ~CommitOnResolve /\ storedFailures' = storedFailures
      /\ Moves(c, [k EXCEPT !.phase = "next", !.todo = Tail(k.todo)])
      /\ UNCHANGED <<clock, payments, failures, stored, writes, chainVars,
                     historyVars, drains>>

\* A drain that served a T0 sale shows the last outcome as that sale's, and the
\* merchant hands over when it says settled.
DrainEnds(c) ==
  LET k == call[c]
  IN  /\ k.phase = "next" /\ k.todo = <<>>
      /\ handed' = IF k.sale # NULL /\ k.last = "settled"
                   THEN [handed EXCEPT ![k.sale] = @ + 1]
                   ELSE handed
      /\ Moves(c, Idle)
      /\ UNCHANGED <<clock, payments, failures, stored, storedFailures, writes,
                     chainVars, voidedShown, refused, drains>>
------------------------------------------------------------------------------
(* The store *)

\* What an awaited write lets its caller do.  T1 and T2 hand over on acceptance;
\* T0 goes on to a drain of everything eligible.
Resumes(c) ==
  LET k == call[c]
  IN  CASE k.phase = "accepting" /\ k.tier = "T0" ->
             /\ \E todo \in Ordered(Eligible(payments)) :
                  Moves(c, [k EXCEPT !.phase = "next", !.todo = todo])
             /\ UNCHANGED <<failures, handed>>
        [] k.phase = "accepting" /\ k.tier # "T0" ->
             /\ Moves(c, Idle)
             /\ handed' = [handed EXCEPT ![k.sale] = @ + 1]
             /\ UNCHANGED failures
        [] k.phase = "marking" ->
             /\ Moves(c, [k EXCEPT !.phase = "sending"])
             /\ UNCHANGED <<failures, handed>>
        [] k.phase = "recording" ->
             /\ failures' = IF k.result = "settled" THEN 0
                            ELSE IF k.result \in COUNTS_AS_FAILED_SEND
                                 THEN failures + 1 ELSE failures
             /\ Moves(c, [k EXCEPT !.phase = "meta", !.last = k.result,
                                   !.result = NULL])
             /\ UNCHANGED handed

\* store.set resolves, and its caller goes on.  It does so before the transaction
\* commits: the page may go away first, or the commit fail, and nobody hears of it.
WriteLands ==
  /\ writes # <<>>
  /\ LET w == Head(writes)
     IN  /\ \/ stored' = [stored EXCEPT ![w.record.id] = w.record]
            \/ ~CommitOnResolve /\ stored' = stored
         /\ IF w.owner = NULL THEN UNCHANGED <<call, failures, handed>>
                              ELSE Resumes(w.owner)
  /\ writes' = Tail(writes)
  /\ UNCHANGED <<clock, payments, storedFailures, chainVars, voidedShown,
                 refused, drains>>

\* Mutant: nothing awaits the write.
WriteFailsUnheard ==
  /\ "writeFailure" \in Faults
  /\ writes # <<>>
  /\ IF Head(writes).owner = NULL THEN UNCHANGED <<call, failures, handed>>
                                  ELSE Resumes(Head(writes).owner)
  /\ writes' = Tail(writes)
  /\ UNCHANGED <<clock, payments, stored, storedFailures, chainVars,
                 voidedShown, refused, drains>>

\* A refused write throws out of its call, but the Map has already changed.
\* Nothing hears of it when nothing awaits it.
WriteFails ==
  /\ "writeFailure" \in Faults
  /\ writes # <<>>
  /\ LET w == Head(writes)
     IN  IF w.owner = NULL THEN UNCHANGED <<call, historyVars>>
                           ELSE ThrowsOut(w.owner)
  /\ writes' = Tail(writes)
  /\ UNCHANGED <<clock, payments, failures, stored, storedFailures, chainVars,
                 drains>>

MetaWriteFails(c) ==
  /\ "writeFailure" \in Faults
  /\ call[c].phase = "meta"
  /\ ThrowsOut(c)
  /\ UNCHANGED <<clock, payments, failures, stored, storedFailures, writes,
                 chainVars, drains>>
------------------------------------------------------------------------------
(* expire *)

\* Mutants: a payment being sent is left to its drain; a state nobody reads.
OverdueUnlessSubmitting(book) ==
  {p \in Present(book) : /\ book[p].state \in {"queued", "failed"}
                         /\ clock - book[p].at >= SendWindow}
VoidedAsExpired(q) == [q EXCEPT !.state = "expired",
                                !.lastError = "LIMIT_SEND_WINDOW_EXPIRED"]

\* Opening the queue screen: what the send window has outlived is voided, and the
\* writes that say so are awaited by nobody.
Overdue(book) ==
  {p \in Present(book) : /\ book[p].state \notin {"settled", "voided"}
                         /\ clock - book[p].at >= SendWindow}

Voided(q) == [q EXCEPT !.state = "voided",
                       !.lastError = "LIMIT_SEND_WINDOW_EXPIRED"]

Expire ==
  LET expired == {Voided(payments[p]) : p \in Overdue(payments)}
  IN  /\ \E c \in Callers : call[c] = Idle
      /\ expired # {}
      /\ payments' = [p \in Auths |-> IF p \in Overdue(payments)
                                      THEN Voided(payments[p])
                                      ELSE payments[p]]
      /\ \E voids \in Ordered(expired) :
           writes' = writes \o
             [i \in DOMAIN voids |-> [owner |-> NULL, record |-> voids[i]]]
      /\ voidedShown' = voidedShown \cup Overdue(payments)
      /\ UNCHANGED <<clock, failures, stored, storedFailures, call, chainVars,
                     handed, refused, drains>>
------------------------------------------------------------------------------
(* The chain, the clock and the page *)

\* A broadcast transaction is executed: its nonce advances either way.
ChainLands(p) ==
  /\ p \in flying
  /\ flying' = flying \ {p}
  /\ IF account[p] = "current"
     THEN /\ \E outcome \in {"ok", "failed"} :
               landed' = [landed EXCEPT ![p] = outcome]
          /\ account' = [account EXCEPT ![p] = "moved"]
     ELSE UNCHANGED <<account, landed>>
  /\ UNCHANGED <<clock, payments, failures, stored, storedFailures, writes, call,
                 historyVars, drains>>

\* The network forgets a broadcast transaction.
Dropped(p) ==
  /\ "drop" \in Faults
  /\ p \in flying
  /\ flying' = flying \ {p}
  /\ UNCHANGED <<clock, payments, failures, stored, storedFailures, writes, call,
                 account, landed, historyVars, drains>>

\* The customer spends the nonce elsewhere or closes its account.
AccountLeaves(p) ==
  /\ account[p] = "current"
  /\ \E to \in {"moved", "closed"} : account' = [account EXCEPT ![p] = to]
  /\ UNCHANGED <<clock, payments, failures, stored, storedFailures, writes, call,
                 flying, landed, historyVars, drains>>

Tick ==
  /\ clock < MaxClock
  /\ clock' = clock + 1
  /\ UNCHANGED <<payments, failures, stored, storedFailures, writes, call,
                 chainVars, historyVars, drains>>

\* The page goes away and comes back: load reads the store, and leaves the
\* states it finds as they are.
Crash ==
  /\ "crash" \in Faults
  /\ payments' = stored
  /\ failures' = storedFailures
  /\ writes' = <<>>
  /\ call' = [c \in Callers |-> Idle]
  /\ UNCHANGED <<clock, stored, storedFailures, chainVars, historyVars, drains>>
------------------------------------------------------------------------------
\* Steps of a call on the device, and steps that answer from the network.
LocalStep(c) ==
  \/ PrecheckPasses(c) \/ Accept(c) \/ Rejected(c) \/ MarksSubmitting(c)
  \/ MetaLands(c) \/ MetaWriteFails(c) \/ DrainEnds(c)

ReadAnswered(c) == ReadsBack(c) \/ LooksUp(c) \/ Classifies(c)

NetworkStep(c) ==
  \/ Broadcasts(c) \/ SendRefused(c) \/ SendConfirmed(c) \/ SendUnconfirmed(c)
  \/ ReadAnswered(c) \/ ReadFails(c)

CallStep(c) == LocalStep(c) \/ NetworkStep(c)

Merchant ==
  \/ \E c \in Callers, p \in Auths, tier \in Tiers, a \in Amounts :
       Offer(c, p, tier, a)
  \/ \E c \in Callers : DrainBegins(c)
  \/ Expire

Environment ==
  \/ \E p \in Auths : ChainLands(p) \/ Dropped(p) \/ AccountLeaves(p)
  \/ WriteLands \/ WriteFails \/ Tick

Next == (\E c \in Callers : CallStep(c)) \/ Merchant \/ Environment \/ Crash

Spec == Init /\ [][Next]_vars

\* Calls run on, writes land, transactions land, time passes, and the merchant
\* comes back to the queue screen between sales.
Fairness ==
  /\ \A c \in Callers : WF_vars(CallStep(c))
  /\ \A p \in Auths : WF_vars(ChainLands(p))
  /\ WF_vars(WriteLands \/ WriteFails)
  /\ WF_vars(Tick)
  /\ SF_vars(Expire)

FairSpec == Spec /\ Fairness
------------------------------------------------------------------------------
(* Properties *)

Books == [Auths -> QueuedPayments \cup {NULL}]

\* Every variable keeps its shape, and a record sits under its own dedupe key.
TypeOK ==
  /\ clock \in Times
  /\ payments \in Books /\ stored \in Books
  /\ \A p \in Present(payments) : payments[p].id = p
  /\ \A p \in Present(stored) : stored[p].id = p
  /\ failures \in Nat /\ storedFailures \in Nat
  /\ writes \in Seq([owner : Callers \cup {NULL}, record : QueuedPayments])
  /\ call \in [Callers -> Calls]
  /\ account \in [Auths -> AccountStates]
  /\ flying \subseteq Auths
  /\ landed \in [Auths -> {"none", "ok", "failed"}]
  /\ handed \in [Auths -> Nat]
  /\ voidedShown \subseteq Auths /\ refused \subseteq Auths
  /\ drains \in 0 .. MaxDrains

\* No payment buys goods twice, however often its code is shown again and
\* whatever reloads in between (accept's dedupe, D31), if resolved writes survive.
ServedOnce == \A p \in Auths : handed[p] <= 1

\* A payment is recorded as settled, in memory or in the store, only if its
\* transaction landed and succeeded.
SettledHasLanded ==
  \A p \in Auths : \A book \in {payments, stored} :
    (book[p] # NULL /\ book[p].state = "settled") => landed[p] = "ok"

\* Goods handed over against money that has neither arrived nor been given up
\* never exceed the exposure cap, reloads and refused writes included.  Goods that
\* are gone count only as long as the queue knows them: NothingHandedIsForgotten.
AtRiskBounded ==
  AmountsOf(payments, {p \in Auths : /\ handed[p] > 0
                                     /\ payments[p].tier # "T0"
                                     /\ landed[p] # "ok"
                                     /\ p \notin voidedShown}) <= ExposureCap

\* Once goods have changed hands the store knows the payment, so that no reload
\* forgets money the merchant is owed: accept awaits its write before it returns.
NothingHandedIsForgotten ==
  \A p \in Auths : handed[p] > 0 => stored[p] # NULL

\* "T0 hands over only after `drain` settles": that sale's payment, not another.
T0HandsOverSettled ==
  [][\A p \in Auths :
       (handed'[p] > handed[p] /\ payments[p].tier = "T0")
         => landed[p] = "ok"]_vars

\* A T1 sale handed over was backed by an account that existed when it was
\* looked up (D21, D30).
T1WasBacked ==
  [][\A p \in Auths \ Fresh :
       (handed'[p] > handed[p] /\ payments[p].tier = "T1")
         => account[p] # "fabricated"]_vars

\* A payment leaves 'settled' only by a reload, and 'voided' in memory never
\* comes back to life under the code's own hand: drains and the queue screen do
\* not undo each other.
Final(state) == state \in {"settled", "voided"}
FinalStaysFinal ==
  [][\A p \in Auths :
       (payments[p] # NULL /\ Final(payments[p].state))
         => \/ payments'[p] = payments[p]
            \/ payments' = stored]_vars

\* Every payment the store holds early enough is settled or voided in the end,
\* even one a broken drain left as 'submitting'.
EveryPaymentResolves ==
  \A p \in Auths :
    (stored[p] # NULL /\ stored[p].at + SendWindow <= MaxClock)
      ~> (stored[p] # NULL /\ Final(stored[p].state))
------------------------------------------------------------------------------
(* What the code's comments and copy say, and the code does not keep *)

\* "Nothing was accepted or sent."
RefusedIsNotSent ==
  \A p \in refused : p \notin flying /\ landed[p] = "none"

\* "Not charged - another merchant settled this payment first."
StaleIsNotSettled ==
  \A p \in Present(payments) :
    (payments[p].state = "failed"
       /\ payments[p].lastError = "SUBMIT_NONCE_STALE") => landed[p] # "ok"
==============================================================================
