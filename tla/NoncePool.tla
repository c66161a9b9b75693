------------------------------ MODULE NoncePool ------------------------------
(***************************************************************************)
(* The payer's pool of durable-nonce slots: packages/client/src/pool.ts,   *)
(* which decides when the payer's device may sign, and its surroundings:   *)
(* the nonce accounts on chain, the merchants who hold signed payments,    *)
(* the store the ledger is persisted in, and the device's clock.           *)
(*                                                                         *)
(* A call of the pool is a small process.  It copies the ledger, awaits    *)
(* chain reads one slot at a time, and persists the copy: first the cached *)
(* `current` (mem), then the store (disk).  Between two of its awaits the  *)
(* chain, the clock and (with several Callers) other calls take steps.     *)
(***************************************************************************)
EXTENDS Integers, FiniteSets, Totals

CONSTANTS
  Slots,           \* slot indices of the pool, numbers
  Merchants,       \* merchants the payer pays
  Amounts,         \* amounts a payment may ask for
  Callers,         \* calls of one Pool that may be in progress at once
  SendWindow,      \* sendWindowMs: an unsent payment is presumed abandoned
  SpendLimit,      \* spendLimit: most that is signed offline in a SpendWindow
  SpendWindow,     \* spendLimitWindowMs
  CommitOnResolve, \* store.set resolves only when the write survives a crash
  Faults,          \* which of FaultKinds may happen
  NULL,            \* null and undefined
  MaxClock,        \* bound: the clock stops here
  MaxNonce,        \* bound: values a nonce account goes through
  MaxReservations  \* bound: calls of reserveSlot that take a slot

FaultKinds == {"crash", "storageLoss", "writeFailure", "rpcFailure"}

ASSUME SlotsAssumption == Slots \subseteq Nat /\ IsFiniteSet(Slots)
ASSUME WindowAssumption == SendWindow \in Nat /\ SpendWindow \in Nat
ASSUME AmountAssumption == Amounts \subseteq Nat /\ SpendLimit \in Nat
ASSUME BoundAssumption ==
  MaxClock \in Nat /\ MaxNonce \in Nat /\ MaxReservations \in Nat
ASSUME SwitchAssumption ==
  CommitOnResolve \in BOOLEAN /\ Faults \subseteq FaultKinds

VARIABLES
  nonce,        \* slot -> the value its nonce account holds, or held last
  live,         \* slots whose nonce account exists
  clock,        \* the device's clock, Date.now()
  disk,         \* the ledger in the store, NULL when the key is absent
  mem,          \* `current`: the ledger this Pool has in memory, or NULL
  call,         \* caller -> its call in progress
  signed,       \* payments the payer has signed (history)
  landed,       \* those that advanced their nonce on chain (history)
  returns,      \* nonce returns a merchant has shown
  reservations  \* slots reserveSlot has taken, numbered

chainVars == <<nonce, live, landed>>
vars == <<nonce, live, clock, disk, mem, call, signed, landed, returns,
          reservations>>
------------------------------------------------------------------------------
(* Data *)

Times == 0 .. MaxClock
Values == 0 .. MaxNonce

Records == [value : Values, merchant : Merchants, at : Times]

\* A slot of the ledger.  "unlisted" is a slot the ledger does not contain:
\* `recover` lists only the accounts it found.
PoolSlots ==
  [state        : {"unspent", "spent", "unknown", "unlisted"},
   value        : Values \cup {NULL},
   spentAgainst : Records \cup {NULL},
   releasedAt   : Times \cup {NULL}]

\* An entry of the spend log.  `n` tells equal entries of the array apart.
SpendEntries == [n : 1 .. MaxReservations, at : Times, amount : Amounts]

Ledgers == [slots : [Slots -> PoolSlots], spendLog : SUBSET SpendEntries]

Signings ==
  [n : 1 .. MaxReservations, slot : Slots, value : Values,
   merchant : Merchants, at : Times, amount : Amounts]

Returns == [slot : Slots, value : Values, against : Values,
            merchant : Merchants]

Calls ==
  [op      : {"none", "reserve", "return", "refresh", "reconcile", "recover",
              "close", "create"},
   phase   : {"idle", "reading", "sent", "writing"},
   ledger  : Ledgers \cup {NULL},   \* the copy it works on and will persist
   todo    : SUBSET Slots,          \* slots it has still to read on chain
   found   : SUBSET Slots,          \* slots it has found funded (close)
   now     : Times,                 \* its `now` argument
   signing : Signings \cup {NULL}]  \* what reserveSlot will return

ASSUME NullAssumption == NULL \notin Nat /\ NULL \notin Ledgers

Idle == [op |-> "none", phase |-> "idle", ledger |-> NULL, todo |-> {},
         found |-> {}, now |-> 0, signing |-> NULL]

BlankSlot == [state |-> "unlisted", value |-> NULL, spentAgainst |-> NULL,
              releasedAt |-> NULL]

Rearmed(value, state, releasedAt) ==
  [state |-> state, value |-> value, spentAgainst |-> NULL,
   releasedAt |-> releasedAt]

WithSlot(ledger, s, slot) == [ledger EXCEPT !.slots[s] = slot]

Listed(ledger) == {s \in Slots : ledger.slots[s].state # "unlisted"}

IsSpent(slot) == slot.state = "spent" /\ slot.spentAgainst # NULL

\* What a chain read of the slot's account answers.
ReadValue(s) == IF s \in live THEN nonce[s] ELSE NULL
------------------------------------------------------------------------------
(* The spend limit (T12) *)

\* Mutation of Counted: an entry is dropped one tick too early.
CountedBriefly(log, now) == {e \in log : e.at > now - SpendWindow + 1}

Counted(log, now) == {e \in log : e.at > now - SpendWindow}

SumOfAmounts(S) == Total([e \in S |-> e.amount])

Remaining(log, now) ==
  LET spent == SumOfAmounts(Counted(log, now))
  IN  IF spent >= SpendLimit THEN 0 ELSE SpendLimit - spent

\* current ?? store.get(key)
Held == IF mem # NULL THEN mem ELSE disk

\* Mutation of PriorSpendLog: a new ledger starts with an empty log.
PriorSpendLogDropped == {}

PriorSpendLog == IF Held = NULL THEN {} ELSE Held.spendLog
------------------------------------------------------------------------------
(* Which slot a payment is signed against *)

Usable(ledger) ==
  {s \in Slots : /\ ledger.slots[s].state = "unspent"
                 /\ ledger.slots[s].value # NULL}

NeverReleased(ledger) ==
  {s \in Usable(ledger) : ledger.slots[s].releasedAt = NULL}

\* The first slot never released, else the one released longest ago.
Preferred(ledger, s) ==
  IF NeverReleased(ledger) # {}
  THEN /\ s \in NeverReleased(ledger)
       /\ \A t \in NeverReleased(ledger) : s <= t
  ELSE /\ s \in Usable(ledger)
       /\ \A t \in Usable(ledger) :
            \/ ledger.slots[s].releasedAt < ledger.slots[t].releasedAt
            \/ /\ ledger.slots[s].releasedAt = ledger.slots[t].releasedAt
               /\ s <= t
------------------------------------------------------------------------------
Init ==
  /\ nonce = [s \in Slots |-> 0]
  /\ live = {}
  /\ clock = 0
  /\ disk = NULL
  /\ mem = NULL
  /\ call = [c \in Callers |-> Idle]
  /\ signed = {}
  /\ landed = {}
  /\ returns = {}
  /\ reservations = 0

(* Starting, persisting and ending a call *)

\* `current ??= await store.get(key)`, the first line of every call but
\* create and recover.
Load ==
  /\ mem = NULL
  /\ disk # NULL
  /\ mem' = disk
  /\ UNCHANGED <<nonce, live, clock, disk, call, signed, landed, returns,
                 reservations>>

\* The slots a call reads on chain, one await each.
ToRead(op, ledger) ==
  CASE op \in {"refresh", "close"} -> Listed(ledger)
    [] op = "reconcile" -> {s \in Slots : IsSpent(ledger.slots[s])}
    [] OTHER -> {}

Reading(op, ledger) ==
  [Idle EXCEPT !.op = op, !.phase = "reading", !.ledger = ledger,
               !.todo = ToRead(op, ledger),
               !.now = IF op \in {"reserve", "reconcile"} THEN clock ELSE 0]

\* A call takes its copy of the ledger: `const state = await loaded()`.
Begin(c, op) ==
  /\ call[c] = Idle
  /\ mem # NULL
  /\ op = "reserve" => reservations < MaxReservations
  /\ call' = [call EXCEPT ![c] = Reading(op, mem)]
  /\ UNCHANGED <<nonce, live, clock, disk, mem, signed, landed, returns,
                 reservations>>

\* persist: `current` changes at once, the store when the write lands.
Persist(c, ledger, signing) ==
  /\ mem' = ledger
  /\ call' = [call EXCEPT ![c] =
                [Idle EXCEPT !.op = call[c].op, !.phase = "writing",
                             !.ledger = ledger, !.signing = signing]]

\* The write lands and the call resolves.  A reservation is signed now, and
\* create goes on to refresh.
WriteLands(c) ==
  LET k == call[c]
  IN  /\ k.phase = "writing"
      /\ \/ disk' = k.ledger
         \/ ~CommitOnResolve /\ disk' = disk
      /\ signed' = IF k.signing = NULL THEN signed
                                       ELSE signed \cup {k.signing}
      /\ call' = [call EXCEPT ![c] = IF k.op = "create"
                                     THEN Reading("refresh", mem)
                                     ELSE Idle]
      /\ UNCHANGED <<nonce, live, clock, mem, landed, returns, reservations>>

\* Mutation of WriteFails: the call resolves although the store refused.
WriteFailsUnheard(c) ==
  LET k == call[c]
  IN  /\ "writeFailure" \in Faults
      /\ k.phase = "writing"
      /\ signed' = IF k.signing = NULL THEN signed
                                       ELSE signed \cup {k.signing}
      /\ call' = [call EXCEPT ![c] = Idle]
      /\ UNCHANGED <<nonce, live, clock, disk, mem, landed, returns,
                     reservations>>

\* store.set rejects: the call throws, and `current` keeps what it persisted.
WriteFails(c) ==
  /\ "writeFailure" \in Faults
  /\ call[c].phase = "writing"
  /\ call' = [call EXCEPT ![c] = Idle]
  /\ UNCHANGED <<nonce, live, clock, disk, mem, signed, landed, returns,
                 reservations>>

\* The endpoint fails, or a transaction's confirmation never arrives: the
\* call throws.  What was sent may have landed (phase "sent").
RpcFails(c) ==
  /\ "rpcFailure" \in Faults
  /\ call[c].phase \in {"reading", "sent"}
  /\ call[c].op \notin {"reserve", "return"}
  /\ call' = [call EXCEPT ![c] = Idle]
  /\ UNCHANGED <<nonce, live, clock, disk, mem, signed, landed, returns,
                 reservations>>
------------------------------------------------------------------------------
(* Offline calls *)

\* reserveSlot: the slot is marked spent and the spend logged in one write.
ReserveSlot(c, merchant, amount) ==
  LET k == call[c]
  IN  /\ k.op = "reserve" /\ k.phase = "reading"
      /\ reservations < MaxReservations
      /\ amount > 0
      /\ amount <= Remaining(k.ledger.spendLog, k.now)
      /\ \E s \in Slots :
           /\ Preferred(k.ledger, s)
           /\ LET n == reservations + 1
                  value == k.ledger.slots[s].value
                  spent == [k.ledger.slots[s] EXCEPT
                              !.state = "spent",
                              !.spentAgainst = [value |-> value,
                                                merchant |-> merchant,
                                                at |-> k.now]]
                  log == Counted(k.ledger.spendLog, k.now)
                           \cup {[n |-> n, at |-> k.now, amount |-> amount]}
              IN  Persist(c, [WithSlot(k.ledger, s, spent) EXCEPT
                                !.spendLog = log],
                          [n |-> n, slot |-> s, value |-> value,
                           merchant |-> merchant, at |-> k.now,
                           amount |-> amount])
      /\ reservations' = reservations + 1
      /\ UNCHANGED <<nonce, live, clock, disk, signed, landed, returns>>

\* reserveSlot throws, changing nothing: over the allowance, or no slot left.
ReserveRefused(c) ==
  LET k == call[c]
  IN  /\ k.op = "reserve" /\ k.phase = "reading"
      /\ \/ Usable(k.ledger) = {}
         \/ \E a \in Amounts : a = 0 \/ a > Remaining(k.ledger.spendLog, k.now)
      /\ call' = [call EXCEPT ![c] = Idle]
      /\ UNCHANGED <<nonce, live, clock, disk, mem, signed, landed, returns,
                     reservations>>

\* Mutation of Trusted: the statement does not name the value spent against.
TrustedInAnyCycle(r, slot) ==
  IsSpent(slot) /\ r.merchant = slot.spentAgainst.merchant

\* verifyNonceReturn: the recorded merchant's signature covers the slot, the
\* value spent against and a new value other than that one.
Trusted(r, slot) ==
  /\ IsSpent(slot)
  /\ r.merchant = slot.spentAgainst.merchant
  /\ r.against = slot.spentAgainst.value
  /\ r.value # r.against

ApplyNonceReturn(c) ==
  LET k == call[c]
  IN  /\ k.op = "return" /\ k.phase = "reading"
      /\ \E r \in returns :
           /\ Trusted(r, k.ledger.slots[r.slot])
           /\ Persist(c, WithSlot(k.ledger, r.slot,
                                  Rearmed(r.value, "unspent", NULL)), NULL)
      /\ UNCHANGED <<nonce, live, clock, disk, signed, landed, returns,
                     reservations>>

\* Anything else that is scanned as a nonce return is refused.
ReturnRefused(c) ==
  /\ call[c].op = "return" /\ call[c].phase = "reading"
  /\ call' = [call EXCEPT ![c] = Idle]
  /\ UNCHANGED <<nonce, live, clock, disk, mem, signed, landed, returns,
                 reservations>>
------------------------------------------------------------------------------
(* Online calls *)

\* Mutations of Reconciled: no send window; a release that leaves no mark; a
\* mark that says when the slot is free again; no release at all.
ReconciledTooEarly(slot, value, now) ==
  Rearmed(value, IF value = NULL THEN "unknown" ELSE "unspent",
          IF value = slot.spentAgainst.value THEN now ELSE NULL)
ReconciledUnmarked(slot, value, now) ==
  IF value = NULL THEN Rearmed(NULL, "unknown", NULL)
  ELSE IF \/ value # slot.spentAgainst.value
          \/ now - slot.spentAgainst.at >= SendWindow
       THEN Rearmed(value, "unspent", NULL)
  ELSE slot
ReconciledFreeFrom(slot, value, now) ==
  IF value = slot.spentAgainst.value /\ now - slot.spentAgainst.at >= SendWindow
  THEN Rearmed(value, "unspent", now + SendWindow)
  ELSE slot
ReconciledNeverReleases(slot, value, now) ==
  IF value = NULL THEN Rearmed(NULL, "unknown", NULL)
  ELSE IF value # slot.spentAgainst.value THEN Rearmed(value, "unspent", NULL)
  ELSE slot

\* One slot of reconcile: gone, settled, released after the send window, or
\* still pending.
Reconciled(slot, value, now) ==
  IF value = NULL THEN Rearmed(NULL, "unknown", NULL)
  ELSE IF value # slot.spentAgainst.value THEN Rearmed(value, "unspent", NULL)
  ELSE IF now - slot.spentAgainst.at >= SendWindow
       THEN Rearmed(value, "unspent", now)
  ELSE slot

\* What one read adds to the copy the call works on.
AfterRead(k, s) ==
  LET slot == k.ledger.slots[s]
      rest == [k EXCEPT !.todo = k.todo \ {s}]
      with(new) == [rest EXCEPT !.ledger = WithSlot(k.ledger, s, new)]
  IN  CASE k.op = "refresh"   -> with([slot EXCEPT !.value = ReadValue(s)])
        [] k.op = "reconcile" -> with(Reconciled(slot, ReadValue(s), k.now))
        [] k.op = "recover" /\ s \in live ->
             with(Rearmed(nonce[s], "unknown", NULL))
        [] k.op = "close" /\ s \in live ->
             [rest EXCEPT !.found = k.found \cup {s}]
        [] OTHER -> rest

\* One chain read of refresh, reconcile, recover or close, in index order.
ReadSlot(c) ==
  /\ call[c].phase = "reading"
  /\ \E s \in call[c].todo :
       /\ \A t \in call[c].todo : s <= t
       /\ call' = [call EXCEPT ![c] = AfterRead(call[c], s)]
  /\ UNCHANGED <<nonce, live, clock, disk, mem, signed, landed, returns,
                 reservations>>

\* refresh and reconcile persist the copy they took before their reads.
ScanFinishes(c) ==
  /\ call[c].op \in {"refresh", "reconcile"}
  /\ call[c].phase = "reading" /\ call[c].todo = {}
  /\ Persist(c, call[c].ledger, NULL)
  /\ UNCHANGED <<nonce, live, clock, disk, signed, landed, returns,
                 reservations>>

\* The payer's screens reach recover only when there is no ledger to load.
RecoverBegins(c) ==
  /\ call[c] = Idle
  /\ Held = NULL
  /\ call' = [call EXCEPT ![c] =
       [Idle EXCEPT !.op = "recover", !.phase = "reading", !.todo = Slots,
                    !.ledger = [slots |-> [s \in Slots |-> BlankSlot],
                                spendLog |-> {}]]]
  /\ UNCHANGED <<nonce, live, clock, disk, mem, signed, landed, returns,
                 reservations>>

\* Mutation of RecoverFinishes: a ledger is written even if nothing was found.
RecoverFinishesEmpty(c) ==
  LET k == call[c]
  IN  /\ k.op = "recover" /\ k.phase = "reading" /\ k.todo = {}
      /\ Persist(c, [k.ledger EXCEPT !.spendLog = PriorSpendLog], NULL)
      /\ UNCHANGED <<nonce, live, clock, disk, signed, landed, returns,
                     reservations>>

RecoverFinishes(c) ==
  LET k == call[c]
  IN  /\ k.op = "recover" /\ k.phase = "reading" /\ k.todo = {}
      /\ Listed(k.ledger) # {}
      /\ Persist(c, [k.ledger EXCEPT !.spendLog = PriorSpendLog], NULL)
      /\ UNCHANGED <<nonce, live, clock, disk, signed, landed, returns,
                     reservations>>

\* Throws NONCE_LEDGER_MISSING.
RecoverFindsNothing(c) ==
  /\ call[c].op = "recover" /\ call[c].phase = "reading" /\ call[c].todo = {}
  /\ Listed(call[c].ledger) = {}
  /\ call' = [call EXCEPT ![c] = Idle]
  /\ UNCHANGED <<nonce, live, clock, disk, mem, signed, landed, returns,
                 reservations>>

\* close withdraws every account it found, in one transaction.
CloseSends(c) ==
  LET k == call[c]
  IN  /\ k.op = "close" /\ k.phase = "reading" /\ k.todo = {}
      /\ k.found \subseteq live
      /\ live' = live \ k.found
      /\ call' = [call EXCEPT ![c].phase = "sent"]
      /\ UNCHANGED <<nonce, clock, disk, mem, signed, landed, returns,
                     reservations>>

\* The record stays, every slot unknown; so does the spend log.
CloseFinishes(c) ==
  LET k == call[c]
  IN  /\ k.op = "close" /\ k.phase = "sent"
      /\ Persist(c, [k.ledger EXCEPT !.slots = [s \in Slots |->
                       IF s \in Listed(k.ledger)
                       THEN Rearmed(NULL, "unknown", NULL)
                       ELSE k.ledger.slots[s]]], NULL)
      /\ UNCHANGED <<nonce, live, clock, disk, signed, landed, returns,
                     reservations>>

\* The payer's screens offer new slots when no pool is recorded, or when every
\* slot of the recorded one is unknown.
CreateOffered ==
  Held # NULL => \A s \in Listed(Held) : Held.slots[s].state = "unknown"

\* One transaction creates every account, so it fails if one exists.
CreateSends(c) ==
  /\ call[c] = Idle
  /\ CreateOffered
  /\ live = {}
  /\ \A s \in Slots : nonce[s] < MaxNonce
  /\ live' = Slots
  /\ nonce' = [s \in Slots |-> nonce[s] + 1]
  /\ call' = [call EXCEPT ![c] =
                [Idle EXCEPT !.op = "create", !.phase = "sent"]]
  /\ UNCHANGED <<clock, disk, mem, signed, landed, returns, reservations>>

\* The new ledger keeps the old spend log.  Its values are not known yet.
CreateFinishes(c) ==
  /\ call[c].op = "create" /\ call[c].phase = "sent"
  /\ Persist(c, [slots |-> [s \in Slots |-> Rearmed(NULL, "unspent", NULL)],
                 spendLog |-> PriorSpendLog], NULL)
  /\ UNCHANGED <<nonce, live, clock, disk, signed, landed, returns,
                 reservations>>
------------------------------------------------------------------------------
(* The surroundings *)

Tick ==
  /\ clock < MaxClock
  /\ clock' = clock + 1
  /\ UNCHANGED <<nonce, live, disk, mem, call, signed, landed, returns,
                 reservations>>

\* A merchant submits a payment it holds, however late.  If the account still
\* holds the value it was signed against it lands and advances the nonce,
\* whether or not the transfer in it succeeds.
PaymentLands(x) ==
  /\ x \in signed \ landed
  /\ x.slot \in live
  /\ nonce[x.slot] = x.value
  /\ nonce[x.slot] < MaxNonce
  /\ nonce' = [nonce EXCEPT ![x.slot] = @ + 1]
  /\ landed' = landed \cup {x}
  /\ UNCHANGED <<live, clock, disk, mem, call, signed, returns, reservations>>

\* The merchant reads the new value and shows a nonce return, which the payer
\* may scan at any later time, or several times.
MerchantReturns(x) ==
  /\ x \in landed
  /\ x.slot \in live
  /\ returns' = returns \cup {[slot |-> x.slot, value |-> nonce[x.slot],
                               against |-> x.value, merchant |-> x.merchant]}
  /\ UNCHANGED <<nonce, live, clock, disk, mem, call, signed, landed,
                 reservations>>

\* The page is closed or reloaded between two steps: memory is gone.
Crash ==
  /\ "crash" \in Faults
  /\ mem' = NULL
  /\ call' = [c \in Callers |-> Idle]
  /\ UNCHANGED <<nonce, live, clock, disk, signed, landed, returns,
                 reservations>>

\* The browser drops the stored ledger (and the page with it).
StorageLost ==
  /\ "storageLoss" \in Faults
  /\ disk' = NULL
  /\ mem' = NULL
  /\ call' = [c \in Callers |-> Idle]
  /\ UNCHANGED <<nonce, live, clock, signed, landed, returns, reservations>>
------------------------------------------------------------------------------
\* Steps a call takes by itself once it has begun.
Progress(c) ==
  \/ WriteLands(c)
  \/ \E m \in Merchants, a \in Amounts : ReserveSlot(c, m, a)
  \/ ReserveRefused(c)
  \/ ApplyNonceReturn(c)
  \/ ReturnRefused(c)
  \/ ReadSlot(c)
  \/ ScanFinishes(c)
  \/ RecoverFinishes(c)
  \/ RecoverFindsNothing(c)
  \/ CloseSends(c)
  \/ CloseFinishes(c)
  \/ CreateFinishes(c)

CallStep(c) ==
  \/ \E op \in {"reserve", "return", "refresh", "reconcile", "close"} :
       Begin(c, op)
  \/ RecoverBegins(c)
  \/ CreateSends(c)
  \/ Progress(c)
  \/ WriteFails(c)
  \/ RpcFails(c)

Environment ==
  \/ Tick
  \/ \E x \in signed : PaymentLands(x) \/ MerchantReturns(x)
  \/ Crash
  \/ StorageLost

Next == Load \/ (\E c \in Callers : CallStep(c)) \/ Environment

Spec == Init /\ [][Next]_vars

\* A call that has begun goes on, time passes, outages of the network end, and a
\* payer who keeps coming online keeps reconciling.  Nobody has to pay, to
\* submit or to scan.
Fairness ==
  /\ WF_vars(Load)
  /\ WF_vars(Tick)
  /\ \A c \in Callers : /\ WF_vars(Progress(c))
                        /\ SF_vars(Begin(c, "reconcile"))
                        /\ <>[][~RpcFails(c)]_vars

FairSpec == Spec /\ Fairness
------------------------------------------------------------------------------
(* Properties *)

TypeOK ==
  /\ nonce \in [Slots -> Values]
  /\ live \subseteq Slots
  /\ clock \in Times
  /\ disk \in Ledgers \cup {NULL}
  /\ mem \in Ledgers \cup {NULL}
  /\ call \in [Callers -> Calls]
  /\ signed \subseteq Signings
  /\ landed \subseteq signed
  /\ returns \subseteq Returns
  /\ reservations \in 0 .. MaxReservations

\* The payer never signs two payments against one nonce value less than a send
\* window apart, whatever it reads, scans, crashes over, closes or recovers
\* (23-SPEC-errors.md, step 4: "releasing early risks double-signing").
NoDoubleSign ==
  \A x, y \in signed :
    (x.n < y.n /\ x.slot = y.slot /\ x.value = y.value)
       => y.at - x.at >= SendWindow

\* The payments signed in any SpendWindow never add up to more than the spend
\* limit, even over close, create, recover and crashes (T12).
SpendBounded ==
  SumOfAmounts({x \in signed : x.at > clock - SpendWindow}) <= SpendLimit

\* "Nothing gives allowance back except time": no step of a running device,
\* of the chain or of a merchant raises what may still be signed.
OnlyTimeRefills ==
  [][(clock' = clock /\ mem # NULL /\ mem' # NULL)
       => Remaining(mem'.spendLog, clock) <= Remaining(mem.spendLog, clock)]_vars

\* A spent slot becomes usable again only because every payment against the
\* value recorded for it is dead on chain, or because the send window is over
\* and the slot is marked as released ("re-arm it only via a verified
\* NONCE_RETURN or online reconciliation", 23-SPEC-errors.md).
RearmIsEarned ==
  [][(mem # NULL /\ mem' # NULL) =>
       \A s \in Slots :
         LET old == mem.slots[s]
             new == mem'.slots[s]
         IN  (IsSpent(old) /\ new.state = "unspent") =>
               \/ s \notin live \/ nonce[s] # old.spentAgainst.value
               \/ /\ clock - old.spentAgainst.at >= SendWindow
                  /\ new.releasedAt # NULL]_vars

\* A ledger never hides a funded account from `close`: while there is a ledger
\* and no call in progress, every account on chain is listed in it.
NoDepositForgotten ==
  (Held # NULL /\ \A c \in Callers : call[c] = Idle)
     => live \subseteq Listed(Held)

SpentBefore(s, limit) ==
  /\ mem # NULL
  /\ IsSpent(mem.slots[s])
  /\ mem.slots[s].spentAgainst.at <= limit

\* A slot that is spent stops being spent in the end: a merchant who never
\* submits costs the payer a send window, not the slot (T3, WIRE-8), unless the
\* ledger itself is lost meanwhile.  Asked of the slots spent early enough for
\* the bounded clock to outlast the window.
SpentIsReleased ==
  \A s \in Slots :
    SpentBefore(s, MaxClock - SendWindow)
       ~> (Held = NULL \/ (mem # NULL /\ mem.slots[s].state # "spent"))

\* No ledger the device can start from, in memory or in the store, offers a
\* value that an earlier payment, younger than the send window, is signed
\* against: a crash at any step costs a slot, never a second signature.
OutstandingNeverOffered ==
  \A ledger \in {mem, disk} \ {NULL} : \A x \in signed :
    clock - x.at < SendWindow =>
      ~(x.slot \in Usable(ledger) /\ ledger.slots[x.slot].value = x.value)
------------------------------------------------------------------------------
(* What the pool is for *)

Promise == INSTANCE OfflineSigning WITH Payments <- Signings

\* Seen from outside, over every await, crash, refused write and late answer,
\* the pool signs as OfflineSigning does: one payment after the other, each with
\* a nonce of its own and within the limit that time alone gives back (D32, T12).
SignsAsPromised == Promise!Spec
==============================================================================
