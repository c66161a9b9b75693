--------------------------- MODULE NoncePoolProofs ---------------------------
(***************************************************************************)
(* Theorems about NoncePool, for every value of its constants.             *)
(*                                                                         *)
(* TypeCorrect needs nothing.  The theorems about signing need two things  *)
(* the code does not enforce by itself: one call of a Pool at a time, and  *)
(* a store whose writes survive once they have resolved.                   *)
(***************************************************************************)
EXTENDS NoncePool, TLAPS

OneCallAtATime == \A c, d \in Callers : c = d

\* The ledger a call works on is there in every phase that uses it.
CallShape(c) ==
  /\ call[c].phase \in {"reading", "writing"} => call[c].ledger \in Ledgers
  /\ (call[c].phase = "sent" /\ call[c].op = "close")
       => call[c].ledger \in Ledgers
  /\ call[c].phase = "writing" => mem \in Ledgers

TypeInv == TypeOK /\ \A c \in Callers : CallShape(c)
------------------------------------------------------------------------------
(* Types *)

LEMMA RearmedType ==
  ASSUME NEW value \in Values \cup {NULL},
         NEW state \in {"unspent", "spent", "unknown", "unlisted"},
         NEW at \in Times \cup {NULL}
  PROVE  Rearmed(value, state, at) \in PoolSlots
  BY DEF Rearmed, PoolSlots

LEMMA WithSlotType ==
  ASSUME NEW ledger \in Ledgers, NEW s \in Slots, NEW slot \in PoolSlots
  PROVE  WithSlot(ledger, s, slot) \in Ledgers
  BY DEF WithSlot, Ledgers

LEMMA IdleType == Idle \in Calls
  BY BoundAssumption DEF Idle, Calls, Times

LEMMA ReadingType ==
  ASSUME NEW op \in {"reserve", "return", "refresh", "reconcile", "close"},
         NEW ledger \in Ledgers, clock \in Times
  PROVE  /\ Reading(op, ledger) \in Calls
         /\ Reading(op, ledger).op = op
         /\ Reading(op, ledger).phase = "reading"
         /\ Reading(op, ledger).ledger = ledger
         /\ Reading(op, ledger).signing = NULL
         /\ Reading(op, ledger).todo = ToRead(op, ledger)
         /\ Reading(op, ledger).now =
              (IF op \in {"reserve", "reconcile"} THEN clock ELSE 0)
<1>1. ToRead(op, ledger) \in SUBSET Slots
  BY DEF ToRead, Listed, IsSpent
<1>2. 0 \in Times
  BY BoundAssumption DEF Times
<1> QED
  BY <1>1, <1>2 DEF Reading, Idle, Calls

LEMMA ReadValueType ==
  ASSUME TypeOK, NEW s \in Slots
  PROVE  ReadValue(s) \in Values \cup {NULL}
  BY DEF TypeOK, ReadValue

LEMMA ReconciledType ==
  ASSUME NEW slot \in PoolSlots, NEW value \in Values \cup {NULL},
         NEW now \in Times
  PROVE  Reconciled(slot, value, now) \in PoolSlots
  BY RearmedType DEF Reconciled

\* Persist leaves the caller writing a ledger, which memory holds already.
LEMMA PersistType ==
  ASSUME TypeInv, NEW c \in Callers, NEW ledger \in Ledgers,
         NEW signing \in Signings \cup {NULL},
         Persist(c, ledger, signing)
  PROVE  /\ mem' \in Ledgers
         /\ call' \in [Callers -> Calls]
         /\ call'[c].op = call[c].op /\ call'[c].phase = "writing"
         /\ call'[c].ledger = ledger /\ call'[c].signing = signing
         /\ call'[c].now = 0 /\ call'[c].todo = {}
         /\ \A d \in Callers : d # c => call'[d] = call[d]
         /\ \A d \in Callers : CallShape(d)'
<1> DEFINE k == [Idle EXCEPT !.op = call[c].op, !.phase = "writing",
                             !.ledger = ledger, !.signing = signing]
<1>1. k \in Calls /\ k.op = call[c].op /\ k.phase = "writing"
      /\ k.ledger = ledger /\ k.signing = signing /\ k.now = 0 /\ k.todo = {}
  BY IdleType DEF Calls, Idle, TypeInv, TypeOK
<1>2. call' = [call EXCEPT ![c] = k] /\ mem' = ledger
  BY DEF Persist
<1> QED
  BY <1>1, <1>2 DEF TypeInv, TypeOK, CallShape

\* A caller whose call goes back to idle, or begins one that reads `ledger`.
LEMMA CallReplaced ==
  ASSUME TypeInv, NEW c \in Callers, NEW k \in Calls,
         call' = [call EXCEPT ![c] = k], mem' = mem,
         k.phase \in {"reading", "writing"} => k.ledger \in Ledgers,
         (k.phase = "sent" /\ k.op = "close") => k.ledger \in Ledgers,
         k.phase = "writing" => mem \in Ledgers
  PROVE  /\ call' \in [Callers -> Calls]
         /\ \A d \in Callers : CallShape(d)'
  BY DEF TypeInv, TypeOK, CallShape

LEMMA AfterReadType ==
  ASSUME TypeInv, NEW c \in Callers, call[c].phase = "reading",
         NEW s \in call[c].todo
  PROVE  /\ AfterRead(call[c], s) \in Calls
         /\ AfterRead(call[c], s).ledger \in Ledgers
         /\ AfterRead(call[c], s).phase = "reading"
         /\ AfterRead(call[c], s).op = call[c].op
         /\ AfterRead(call[c], s).now = call[c].now
         /\ AfterRead(call[c], s).signing = call[c].signing
         /\ AfterRead(call[c], s).todo = call[c].todo \ {s}
<1> DEFINE k == call[c]
           slot == k.ledger.slots[s]
           rest == [k EXCEPT !.todo = k.todo \ {s}]
           with(new) == [rest EXCEPT !.ledger = WithSlot(k.ledger, s, new)]
<1>1. k \in Calls /\ k.ledger \in Ledgers /\ s \in Slots /\ slot \in PoolSlots
      /\ k.now \in Times
  BY DEF TypeInv, TypeOK, CallShape, Calls, Ledgers
<1>2. ReadValue(s) \in Values \cup {NULL}
  BY <1>1, ReadValueType DEF TypeInv
<1>3. ASSUME NEW new \in PoolSlots
      PROVE  /\ with(new) \in Calls /\ with(new).ledger \in Ledgers
             /\ with(new).phase = "reading" /\ with(new).op = k.op
             /\ with(new).now = k.now /\ with(new).signing = k.signing
             /\ with(new).todo = k.todo \ {s}
  <2>1. WithSlot(k.ledger, s, new) \in Ledgers
    BY <1>1, WithSlotType
  <2> QED
    BY <1>1, <2>1 DEF Calls
<1>4. [slot EXCEPT !.value = ReadValue(s)] \in PoolSlots
  BY <1>1, <1>2 DEF PoolSlots
<1>5. Reconciled(slot, ReadValue(s), k.now) \in PoolSlots
  BY <1>1, <1>2, ReconciledType
<1>6. s \in live => Rearmed(nonce[s], "unknown", NULL) \in PoolSlots
  BY <1>1, RearmedType DEF TypeInv, TypeOK
<1>7. /\ rest \in Calls /\ rest.ledger \in Ledgers
      /\ rest.phase = "reading" /\ rest.op = k.op /\ rest.now = k.now
      /\ rest.signing = k.signing /\ rest.todo = k.todo \ {s}
  BY <1>1 DEF Calls
<1>8. LET r == [rest EXCEPT !.found = k.found \cup {s}]
      IN  /\ r \in Calls /\ r.ledger \in Ledgers
          /\ r.phase = "reading" /\ r.op = k.op /\ r.now = k.now
          /\ r.signing = k.signing /\ r.todo = k.todo \ {s}
  BY <1>1 DEF Calls
<1> HIDE DEF with, rest, slot
<1>9. AfterRead(k, s) =
        CASE k.op = "refresh"   -> with([slot EXCEPT !.value = ReadValue(s)])
          [] k.op = "reconcile" -> with(Reconciled(slot, ReadValue(s), k.now))
          [] k.op = "recover" /\ s \in live ->
               with(Rearmed(nonce[s], "unknown", NULL))
          [] k.op = "close" /\ s \in live ->
               [rest EXCEPT !.found = k.found \cup {s}]
          [] OTHER -> rest
  BY DEF AfterRead, with, rest, slot
<1>a. CASE k.op = "refresh"
  BY <1>a, <1>3, <1>4, <1>9
<1>b. CASE k.op = "reconcile"
  BY <1>b, <1>3, <1>5, <1>9
<1>c. CASE k.op = "recover"
  <2>1. CASE s \in live
    BY <1>c, <2>1, <1>3, <1>6, <1>9
  <2>2. CASE s \notin live
    BY <1>c, <2>2, <1>7, <1>9
  <2> QED BY <2>1, <2>2
<1>d. CASE k.op = "close"
  <2>1. CASE s \in live
    BY <1>d, <2>1, <1>8, <1>9
  <2>2. CASE s \notin live
    BY <1>d, <2>2, <1>7, <1>9
  <2> QED BY <2>1, <2>2
<1>e. CASE k.op \notin {"refresh", "reconcile", "recover", "close"}
  BY <1>e, <1>7, <1>9
<1> QED
  BY <1>a, <1>b, <1>c, <1>d, <1>e
LEMMA PriorSpendLogType ==
  ASSUME TypeOK
  PROVE  PriorSpendLog \in SUBSET SpendEntries
  BY DEF TypeOK, PriorSpendLog, Held, Ledgers

LEMMA CalledType ==
  ASSUME TypeInv, NEW c \in Callers
  PROVE  call[c] \in Calls
  BY DEF TypeInv, TypeOK

LEMMA TypeInit == Init => TypeInv
<1> SUFFICES ASSUME Init PROVE TypeInv
  OBVIOUS
<1>1. call \in [Callers -> Calls]
  BY IdleType DEF Init
<1>2. nonce \in [Slots -> Values] /\ clock \in Times
      /\ reservations \in 0 .. MaxReservations
  BY BoundAssumption DEF Init, Values, Times
<1>3. ASSUME NEW c \in Callers PROVE call[c].phase = "idle"
  BY DEF Init, Idle
<1> QED
  BY <1>1, <1>2, <1>3 DEF Init, TypeInv, TypeOK, CallShape

\* A step that only ends or starts a call keeps the types of everything else.
LEMMA TypeBegin ==
  ASSUME TypeInv, NEW c \in Callers,
         NEW op \in {"reserve", "return", "refresh", "reconcile", "close"},
         Begin(c, op)
  PROVE  TypeInv'
<1>1. mem \in Ledgers /\ clock \in Times
  BY DEF TypeInv, TypeOK, Begin
<1>2. /\ Reading(op, mem) \in Calls
      /\ Reading(op, mem).phase = "reading"
      /\ Reading(op, mem).ledger = mem
  BY <1>1, ReadingType
<1>3. call' = [call EXCEPT ![c] = Reading(op, mem)] /\ mem' = mem
  BY DEF Begin
<1>4. call' \in [Callers -> Calls] /\ \A d \in Callers : CallShape(d)'
  BY <1>1, <1>2, <1>3, CallReplaced
<1> QED
  BY <1>4 DEF Begin, TypeInv, TypeOK

LEMMA TypeToIdle ==
  ASSUME TypeInv, NEW c \in Callers,
         call' = [call EXCEPT ![c] = Idle], mem' = mem
  PROVE  /\ call' \in [Callers -> Calls]
         /\ \A d \in Callers : CallShape(d)'
<1>1. Idle.phase = "idle"
  BY DEF Idle
<1> QED
  BY <1>1, IdleType, CallReplaced

LEMMA TypeWriteLands ==
  ASSUME TypeInv, NEW c \in Callers, WriteLands(c)
  PROVE  TypeInv'
<1>1. /\ call[c] \in Calls /\ call[c].ledger \in Ledgers
      /\ mem \in Ledgers /\ clock \in Times
  BY CalledType DEF WriteLands, TypeInv, TypeOK, CallShape
<1>2. /\ Reading("refresh", mem) \in Calls
      /\ Reading("refresh", mem).phase = "reading"
      /\ Reading("refresh", mem).ledger = mem
  BY <1>1, ReadingType
<1>3. mem' = mem
  BY DEF WriteLands
<1>4. call' \in [Callers -> Calls] /\ \A d \in Callers : CallShape(d)'
  <2>1. CASE call[c].op = "create"
    <3>1. call' = [call EXCEPT ![c] = Reading("refresh", mem)]
      BY <2>1 DEF WriteLands
    <3> QED
      BY <3>1, <1>1, <1>2, <1>3, CallReplaced
  <2>2. CASE call[c].op # "create"
    BY <2>2, <1>3, TypeToIdle DEF WriteLands
  <2> QED
    BY <2>1, <2>2
<1>5. disk' \in Ledgers \cup {NULL}
  BY <1>1 DEF WriteLands, TypeInv, TypeOK
<1>6. signed' \subseteq Signings /\ landed' \subseteq signed'
  BY <1>1 DEF WriteLands, TypeInv, TypeOK, Calls
<1> QED
  BY <1>3, <1>4, <1>5, <1>6 DEF WriteLands, TypeInv, TypeOK

LEMMA TypeReserve ==
  ASSUME TypeInv, NEW c \in Callers, NEW m \in Merchants, NEW a \in Amounts,
         ReserveSlot(c, m, a)
  PROVE  TypeInv'
<1> DEFINE k == call[c]
           n == reservations + 1
           log == Counted(k.ledger.spendLog, k.now)
                    \cup {[n |-> n, at |-> k.now, amount |-> a]}
<1>1. k \in Calls /\ k.ledger \in Ledgers /\ k.now \in Times
  BY CalledType DEF ReserveSlot, TypeInv, CallShape, Calls
<1>2. n \in 1 .. MaxReservations /\ a \in Nat
  BY BoundAssumption, AmountAssumption DEF ReserveSlot, TypeInv, TypeOK
<1>3. PICK s \in Slots :
        /\ Preferred(k.ledger, s)
        /\ LET value == k.ledger.slots[s].value
               spent == [k.ledger.slots[s] EXCEPT
                           !.state = "spent",
                           !.spentAgainst = [value |-> value, merchant |-> m,
                                             at |-> k.now]]
           IN  Persist(c, [WithSlot(k.ledger, s, spent) EXCEPT
                             !.spendLog = log],
                       [n |-> n, slot |-> s, value |-> value, merchant |-> m,
                        at |-> k.now, amount |-> a])
  BY DEF ReserveSlot
<1> DEFINE value == k.ledger.slots[s].value
           spent == [k.ledger.slots[s] EXCEPT
                       !.state = "spent",
                       !.spentAgainst = [value |-> value, merchant |-> m,
                                         at |-> k.now]]
           ledger == [WithSlot(k.ledger, s, spent) EXCEPT !.spendLog = log]
           signing == [n |-> n, slot |-> s, value |-> value, merchant |-> m,
                       at |-> k.now, amount |-> a]
<1>4. s \in Usable(k.ledger)
  BY <1>3 DEF Preferred, NeverReleased
<1>5. k.ledger.slots[s] \in PoolSlots /\ value \in Values
  BY <1>1, <1>4 DEF Usable, Ledgers, PoolSlots
<1>6. spent \in PoolSlots
  BY <1>1, <1>5 DEF PoolSlots, Records
<1>7. log \in SUBSET SpendEntries
  BY <1>1, <1>2 DEF SpendEntries, Counted, Ledgers
<1>8. ledger \in Ledgers
  <2>1. WithSlot(k.ledger, s, spent) \in Ledgers
    BY <1>1, <1>6, WithSlotType
  <2> QED
    BY <2>1, <1>7 DEF Ledgers
<1>9. signing \in Signings
  BY <1>1, <1>2, <1>5 DEF Signings
<1>a. Persist(c, ledger, signing)
  BY <1>3
<1>b. /\ mem' \in Ledgers /\ call' \in [Callers -> Calls]
      /\ \A d \in Callers : CallShape(d)'
  <2> HIDE DEF ledger, signing
  <2> QED
    BY <1>8, <1>9, <1>a, PersistType
<1>c. reservations' \in 0 .. MaxReservations
  BY <1>2 DEF ReserveSlot
<1> QED
  BY <1>b, <1>c DEF ReserveSlot, TypeInv, TypeOK
LEMMA TypeReturn ==
  ASSUME TypeInv, NEW c \in Callers, ApplyNonceReturn(c)
  PROVE  TypeInv'
<1>1. PICK r \in returns :
        Persist(c, WithSlot(call[c].ledger, r.slot,
                            Rearmed(r.value, "unspent", NULL)), NULL)
  BY DEF ApplyNonceReturn
<1>2. call[c].ledger \in Ledgers
  BY DEF ApplyNonceReturn, TypeInv, CallShape
<1>3. r \in Returns
  BY DEF TypeInv, TypeOK
<1>4. WithSlot(call[c].ledger, r.slot, Rearmed(r.value, "unspent", NULL))
        \in Ledgers
  <2>1. r.slot \in Slots /\ r.value \in Values
    BY <1>3 DEF Returns
  <2>2. Rearmed(r.value, "unspent", NULL) \in PoolSlots
    BY <2>1, RearmedType
  <2> QED
    BY <1>2, <2>1, <2>2, WithSlotType
<1>5. /\ mem' \in Ledgers /\ call' \in [Callers -> Calls]
      /\ \A d \in Callers : CallShape(d)'
  BY <1>1, <1>4, PersistType
<1> QED
  BY <1>5 DEF ApplyNonceReturn, TypeInv, TypeOK

LEMMA TypeReadSlot ==
  ASSUME TypeInv, NEW c \in Callers, ReadSlot(c)
  PROVE  TypeInv'
<1>1. PICK s \in call[c].todo :
        call' = [call EXCEPT ![c] = AfterRead(call[c], s)]
  BY DEF ReadSlot
<1>2. call[c].phase = "reading" /\ mem' = mem
  BY DEF ReadSlot
<1>3. /\ AfterRead(call[c], s) \in Calls
      /\ AfterRead(call[c], s).ledger \in Ledgers
      /\ AfterRead(call[c], s).phase = "reading"
  BY <1>2, AfterReadType
<1>4. call' \in [Callers -> Calls] /\ \A d \in Callers : CallShape(d)'
  BY <1>1, <1>2, <1>3, CallReplaced
<1> QED
  BY <1>4 DEF ReadSlot, TypeInv, TypeOK

\* refresh, reconcile, recover, close and create end by persisting a ledger.
LEMMA TypeScanPersists ==
  ASSUME TypeInv, NEW c \in Callers,
         \/ ScanFinishes(c) \/ RecoverFinishes(c)
         \/ CloseFinishes(c) \/ CreateFinishes(c)
  PROVE  TypeInv'
<1> DEFINE k == call[c]
<1>1. PriorSpendLog \in SUBSET SpendEntries
  BY PriorSpendLogType DEF TypeInv
<1>2. (ScanFinishes(c) \/ RecoverFinishes(c) \/ CloseFinishes(c))
         => k.ledger \in Ledgers
  BY DEF ScanFinishes, RecoverFinishes, CloseFinishes, TypeInv, CallShape
<1>3. ASSUME NEW ledger \in Ledgers, Persist(c, ledger, NULL)
      PROVE  /\ mem' \in Ledgers /\ call' \in [Callers -> Calls]
             /\ \A d \in Callers : CallShape(d)'
  BY <1>3, PersistType
<1>4. /\ mem' \in Ledgers /\ call' \in [Callers -> Calls]
      /\ \A d \in Callers : CallShape(d)'
  <2>1. CASE ScanFinishes(c)
    BY <2>1, <1>2, <1>3 DEF ScanFinishes
  <2>2. CASE RecoverFinishes(c)
    <3>1. [k.ledger EXCEPT !.spendLog = PriorSpendLog] \in Ledgers
      BY <2>2, <1>1, <1>2 DEF Ledgers
    <3> QED
      BY <2>2, <3>1, <1>3 DEF RecoverFinishes
  <2>3. CASE CloseFinishes(c)
    <3> DEFINE slots == [s \in Slots |-> IF s \in Listed(k.ledger)
                                         THEN Rearmed(NULL, "unknown", NULL)
                                         ELSE k.ledger.slots[s]]
    <3>1. Rearmed(NULL, "unknown", NULL) \in PoolSlots
      BY RearmedType
    <3>2. slots \in [Slots -> PoolSlots]
      BY <2>3, <3>1, <1>2 DEF Ledgers
    <3>3. [k.ledger EXCEPT !.slots = slots] \in Ledgers
      BY <2>3, <3>2, <1>2 DEF Ledgers
    <3> QED
      BY <2>3, <3>3, <1>3 DEF CloseFinishes
  <2>4. CASE CreateFinishes(c)
    <3>1. Rearmed(NULL, "unspent", NULL) \in PoolSlots
      BY RearmedType
    <3>2. [slots |-> [s \in Slots |-> Rearmed(NULL, "unspent", NULL)],
           spendLog |-> PriorSpendLog] \in Ledgers
      BY <3>1, <1>1 DEF Ledgers
    <3> QED
      BY <2>4, <3>2, <1>3 DEF CreateFinishes
  <2> QED
    BY <2>1, <2>2, <2>3, <2>4
<1> QED
  BY <1>4 DEF ScanFinishes, RecoverFinishes, CloseFinishes, CreateFinishes,
              TypeInv, TypeOK

LEMMA TypeRecoverBegins ==
  ASSUME TypeInv, NEW c \in Callers, RecoverBegins(c)
  PROVE  TypeInv'
<1> DEFINE blank == [slots |-> [s \in Slots |-> BlankSlot], spendLog |-> {}]
           k == [Idle EXCEPT !.op = "recover", !.phase = "reading",
                             !.todo = Slots, !.ledger = blank]
<1>1. blank \in Ledgers
  BY DEF Ledgers, PoolSlots, BlankSlot
<1>2. k \in Calls /\ k.phase = "reading" /\ k.ledger = blank
  BY <1>1, IdleType DEF Calls, Idle
<1>3. call' = [call EXCEPT ![c] = k] /\ mem' = mem
  BY DEF RecoverBegins
<1>4. call' \in [Callers -> Calls] /\ \A d \in Callers : CallShape(d)'
  <2> HIDE DEF k
  <2> QED
    BY <1>1, <1>2, <1>3, CallReplaced
<1> QED
  BY <1>4 DEF RecoverBegins, TypeInv, TypeOK

LEMMA TypeSends ==
  ASSUME TypeInv, NEW c \in Callers, CloseSends(c) \/ CreateSends(c)
  PROVE  TypeInv'
<1>1. CASE CloseSends(c)
  <2> DEFINE k == [call[c] EXCEPT !.phase = "sent"]
  <2>1. call[c] \in Calls /\ call[c].ledger \in Ledgers
    BY <1>1, CalledType DEF CloseSends, TypeInv, CallShape
  <2>2. k \in Calls /\ k.phase = "sent" /\ k.ledger = call[c].ledger
    BY <2>1 DEF Calls
  <2>3. call' = [call EXCEPT ![c] = k] /\ mem' = mem
    BY <1>1, <2>1 DEF CloseSends, TypeInv, TypeOK
  <2>4. call' \in [Callers -> Calls] /\ \A d \in Callers : CallShape(d)'
    <3> HIDE DEF k
    <3> QED
      BY <2>1, <2>2, <2>3, CallReplaced
  <2> QED
    BY <1>1, <2>4 DEF CloseSends, TypeInv, TypeOK
<1>2. CASE CreateSends(c)
  <2> DEFINE k == [Idle EXCEPT !.op = "create", !.phase = "sent"]
  <2>1. k \in Calls /\ k.phase = "sent" /\ k.op = "create"
    BY IdleType DEF Calls, Idle
  <2>2. call' = [call EXCEPT ![c] = k] /\ mem' = mem
    BY <1>2 DEF CreateSends
  <2>3. call' \in [Callers -> Calls] /\ \A d \in Callers : CallShape(d)'
    <3> HIDE DEF k
    <3> QED
      BY <2>1, <2>2, CallReplaced
  <2>4. nonce' \in [Slots -> Values]
    BY <1>2, BoundAssumption DEF CreateSends, TypeInv, TypeOK, Values
  <2> QED
    BY <1>2, <2>3, <2>4 DEF CreateSends, TypeInv, TypeOK
<1> QED
  BY <1>1, <1>2

LEMMA TypeEnvironment ==
  ASSUME TypeInv, Environment
  PROVE  TypeInv'
<1>1. CASE Tick
  BY <1>1, BoundAssumption DEF Tick, TypeInv, TypeOK, CallShape, Times
<1>2. ASSUME NEW x \in signed, PaymentLands(x)
      PROVE  TypeInv'
  BY <1>2, BoundAssumption
     DEF PaymentLands, TypeInv, TypeOK, CallShape, Values
<1>3. ASSUME NEW x \in signed, MerchantReturns(x)
      PROVE  TypeInv'
  <2>1. [slot |-> x.slot, value |-> nonce[x.slot], against |-> x.value,
         merchant |-> x.merchant] \in Returns
    BY <1>3 DEF TypeInv, TypeOK, Signings, Returns
  <2> QED
    BY <1>3, <2>1 DEF MerchantReturns, TypeInv, TypeOK, CallShape
<1>4. CASE Crash \/ StorageLost
  <2>1. Idle \in Calls /\ Idle.phase = "idle"
    BY IdleType DEF Idle
  <2>2. call' = [c \in Callers |-> Idle]
    BY <1>4 DEF Crash, StorageLost
  <2> QED
    BY <1>4, <2>1, <2>2 DEF Crash, StorageLost, TypeInv, TypeOK, CallShape
<1> QED
  BY <1>1, <1>2, <1>3, <1>4 DEF Environment

LEMMA TypeStep == TypeInv /\ [Next]_vars => TypeInv'
<1> SUFFICES ASSUME TypeInv, [Next]_vars PROVE TypeInv'
  OBVIOUS
<1>1. CASE Load
  BY <1>1 DEF Load, TypeInv, TypeOK, CallShape
<1>2. ASSUME NEW c \in Callers, CallStep(c)
      PROVE  TypeInv'
  <2>1. ASSUME \/ ReserveRefused(c) \/ ReturnRefused(c)
               \/ RecoverFindsNothing(c) \/ WriteFails(c) \/ RpcFails(c)
        PROVE  TypeInv'
    <3>1. call' = [call EXCEPT ![c] = Idle] /\ mem' = mem
      BY <2>1 DEF ReserveRefused, ReturnRefused, RecoverFindsNothing,
                  WriteFails, RpcFails
    <3>2. call' \in [Callers -> Calls] /\ \A d \in Callers : CallShape(d)'
      BY <3>1, TypeToIdle
    <3> QED
      BY <2>1, <3>2 DEF ReserveRefused, ReturnRefused, RecoverFindsNothing,
                        WriteFails, RpcFails, TypeInv, TypeOK
  <2> QED
    BY <1>2, <2>1, TypeBegin, TypeWriteLands, TypeReserve, TypeReturn,
       TypeReadSlot, TypeScanPersists, TypeRecoverBegins, TypeSends
       DEF CallStep, Progress
<1>3. CASE Environment
  BY <1>3, TypeEnvironment
<1>4. CASE UNCHANGED vars
  BY <1>4 DEF vars, TypeInv, TypeOK, CallShape
<1> QED
  BY <1>1, <1>2, <1>3, <1>4 DEF Next

\* Every variable keeps its type, whatever the bounds, the faults and the
\* number of calls of the pool in progress at once.
THEOREM TypeCorrect == Spec => []TypeOK
<1>1. TypeInv => TypeOK
  BY DEF TypeInv
<1> QED
  BY <1>1, TypeInit, TypeStep, PTL DEF Spec
==============================================================================
