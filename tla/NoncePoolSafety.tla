--------------------------- MODULE NoncePoolSafety ---------------------------
(***************************************************************************)
(* What the payer's pool guarantees, as theorems of NoncePool for every    *)
(* number of slots, merchants, payments and amounts, provided that a Pool  *)
(* has one call in progress at a time and that a resolved write survives.  *)
(*                                                                         *)
(*   SafetyInv  the payer never double-signs, and no ledger the device can *)
(*              start from offers an outstanding value                     *)
(*   CopyInv    persisting a copy taken before several awaits re-arms no   *)
(*              slot, forgets no account and gives no allowance back       *)
(*   SpendInv   the spend limit holds, and the pool implements             *)
(*              OfflineSigning (the stored ledger is not lost)             *)
(*                                                                         *)
(* Each is inductive with the ones before it.  SafetyInv and CopyInv hold  *)
(* under every fault in FaultKinds.                                        *)
(***************************************************************************)
EXTENDS NoncePoolProofs, TotalsProofs

\* What the chain and the merchants guarantee: a nonce account only moves on.
History ==
  /\ \A x \in signed : /\ x.value <= nonce[x.slot]
                       /\ x.at <= clock
                       /\ x.n <= reservations
  /\ \A x \in landed : x.value < nonce[x.slot]
  /\ \A r \in returns : r.against < r.value /\ r.value <= nonce[r.slot]

SignedOn(s) == {x \in signed : x.slot = s}

\* No payment against the value this slot offers is younger than the window.
Offers(s, slot) ==
  slot.state = "unspent" =>
    IF slot.value = NULL
    THEN s \in live => \A x \in SignedOn(s) : x.value < nonce[s]
    ELSE /\ slot.value <= nonce[s]
         /\ \A x \in SignedOn(s) :
              /\ x.value <= slot.value
              /\ x.value = slot.value => clock - x.at >= SendWindow

\* The record of a spent slot is the latest payment signed against it.
Recorded(s, slot) ==
  IsSpent(slot) =>
    /\ slot.spentAgainst.value <= nonce[s]
    /\ slot.spentAgainst.at <= clock
    /\ \A x \in SignedOn(s) :
         /\ x.value <= slot.spentAgainst.value
         /\ x.value = slot.spentAgainst.value => x.at <= slot.spentAgainst.at

SlotSound(s, slot) == Offers(s, slot) /\ Recorded(s, slot)

LedgerSound(ledger) == \A s \in Slots : SlotSound(s, ledger.slots[s])

\* What reserveSlot is about to return, once its write has landed.
SigningSound(k) ==
  LET y == k.signing
  IN  y # NULL =>
        /\ k.op = "reserve"
        /\ y.value <= nonce[y.slot] /\ y.at <= clock /\ y.n <= reservations
        /\ \A x \in signed :
             /\ x.n < y.n
             /\ (x.slot = y.slot /\ x.value = y.value)
                  => y.at - x.at >= SendWindow
        /\ \A x \in SignedOn(y.slot) : x.value <= y.value
        /\ k.ledger.slots[y.slot].state = "spent"
        /\ k.ledger.slots[y.slot].spentAgainst.value = y.value
        /\ k.ledger.slots[y.slot].spentAgainst.at = y.at

ReserveSound(k) ==
  \A s \in Usable(k.ledger) : \A x \in SignedOn(s) :
    x.value = k.ledger.slots[s].value => k.now - x.at >= SendWindow

\* A call and the ledger it works on.
CallSound(c) ==
  LET k == call[c]
  IN  /\ k.now <= clock
      /\ k.phase \in {"reading", "writing"} => LedgerSound(k.ledger)
      /\ k.phase = "writing" => k.ledger = mem /\ SigningSound(k)
      /\ (k.op = "create" /\ k.phase = "sent") =>
           \A x \in signed : x.value < nonce[x.slot]
      /\ (k.op = "reconcile" /\ k.phase = "reading") =>
           \A s \in k.todo : IsSpent(k.ledger.slots[s])
      /\ (k.op = "reserve" /\ k.phase = "reading") => ReserveSound(k)

SoundInv ==
  /\ History
  /\ mem # NULL => LedgerSound(mem)
  /\ disk # NULL => LedgerSound(disk)
  /\ \A c \in Callers : CallSound(c)
  /\ NoDoubleSign

SafetyInv == TypeInv /\ SoundInv
------------------------------------------------------------------------------
\* Every step but one that signs leaves what is signed alone and lets the
\* chain and the clock only move on.
MovesOn ==
  /\ signed' = signed
  /\ clock <= clock'
  /\ \A s \in Slots : nonce[s] <= nonce'[s]
  /\ \A s \in live' : s \in live \/ \A x \in SignedOn(s) : x.value < nonce'[s]

LEMMA SlotStaysSound ==
  ASSUME TypeInv, TypeInv', History, MovesOn,
         NEW s \in Slots, NEW slot \in PoolSlots, SlotSound(s, slot)
  PROVE  SlotSound(s, slot)'
<1>1. /\ nonce[s] \in Nat /\ nonce'[s] \in Nat /\ nonce[s] <= nonce'[s]
      /\ clock \in Nat /\ clock' \in Nat /\ clock <= clock'
      /\ SendWindow \in Nat
  BY BoundAssumption, WindowAssumption
     DEF TypeInv, TypeOK, MovesOn, Values, Times
<1>2. SignedOn(s)' = SignedOn(s)
  BY DEF MovesOn, SignedOn
<1>3. \A x \in SignedOn(s) :
        x.value \in Nat /\ x.at \in Nat /\ x.value <= nonce[s]
  BY BoundAssumption
     DEF TypeInv, TypeOK, Signings, SignedOn, History, Values, Times
<1>4. Offers(s, slot)'
  <2>1. CASE slot.state = "unspent" /\ slot.value = NULL
    BY <2>1, <1>1, <1>2, <1>3 DEF SlotSound, Offers, MovesOn
  <2>2. CASE slot.state = "unspent" /\ slot.value # NULL
    <3>1. slot.value \in Nat
      BY <2>2, BoundAssumption DEF PoolSlots, Values
    <3> QED
      BY <2>2, <3>1, <1>1, <1>2, <1>3 DEF SlotSound, Offers
  <2> QED
    BY <2>1, <2>2 DEF Offers
<1>5. Recorded(s, slot)'
  <2> SUFFICES ASSUME IsSpent(slot)
               PROVE  Recorded(s, slot)'
    BY DEF Recorded
  <2>1. slot.spentAgainst.value \in Nat /\ slot.spentAgainst.at \in Nat
    BY BoundAssumption DEF PoolSlots, IsSpent, Records, Values, Times
  <2> QED
    BY <2>1, <1>1, <1>2, <1>3 DEF SlotSound, Recorded
<1> QED
  BY <1>4, <1>5 DEF SlotSound

LEMMA LedgerStaysSound ==
  ASSUME TypeInv, TypeInv', History, MovesOn,
         NEW ledger \in Ledgers, LedgerSound(ledger)
  PROVE  LedgerSound(ledger)'
  BY SlotStaysSound DEF LedgerSound, Ledgers

LEMMA MemoryStaysSound ==
  ASSUME SafetyInv, TypeInv', MovesOn
  PROVE  /\ mem' = mem /\ mem' # NULL => LedgerSound(mem)'
         /\ disk' = disk /\ disk' # NULL => LedgerSound(disk)'
         /\ mem' = disk /\ mem' # NULL => LedgerSound(mem)'
<1>1. mem # NULL => mem \in Ledgers /\ LedgerSound(mem)
  BY DEF SafetyInv, TypeInv, TypeOK, SoundInv
<1>2. disk # NULL => disk \in Ledgers /\ LedgerSound(disk)
  BY DEF SafetyInv, TypeInv, TypeOK, SoundInv
<1> QED
  BY <1>1, <1>2, LedgerStaysSound DEF SafetyInv, SoundInv

\* A step that signs nothing keeps SoundInv if what the one caller works on,
\* memory and the store stay sound.
LEMMA Assemble ==
  ASSUME SafetyInv, TypeInv', OneCallAtATime, MovesOn,
         landed' = landed, returns' = returns, reservations <= reservations',
         mem' # NULL => LedgerSound(mem)', disk' # NULL => LedgerSound(disk)',
         \A c \in Callers : CallSound(c)'
  PROVE  SoundInv'
<1>1. History'
  <2>1. \A s \in Slots : nonce[s] \in Nat /\ nonce'[s] \in Nat
    BY BoundAssumption DEF SafetyInv, TypeInv, TypeOK, Values
  <2>2. /\ clock \in Nat /\ clock' \in Nat
        /\ reservations \in Nat /\ reservations' \in Nat
    BY BoundAssumption DEF SafetyInv, TypeInv, TypeOK, Times
  <2>3. \A x \in signed : /\ x.slot \in Slots /\ x.value \in Nat
                          /\ x.at \in Nat /\ x.n \in Nat
    BY BoundAssumption
       DEF SafetyInv, TypeInv, TypeOK, Signings, Values, Times
  <2>4. \A r \in returns : r.slot \in Slots /\ r.value \in Nat
    BY BoundAssumption DEF SafetyInv, TypeInv, TypeOK, Returns, Values
  <2>5. landed \subseteq signed
    BY DEF SafetyInv, TypeInv, TypeOK
  <2> QED
    BY <2>1, <2>2, <2>3, <2>4, <2>5 DEF SafetyInv, SoundInv, History, MovesOn
<1>2. NoDoubleSign'
  BY DEF SafetyInv, SoundInv, NoDoubleSign, MovesOn
<1> QED
  BY <1>1, <1>2 DEF SoundInv

\* The chain, the clock and a page that only loads leave a call sound.
LEMMA CallStaysSound ==
  ASSUME SafetyInv, TypeInv', MovesOn, reservations <= reservations',
         NEW c \in Callers, call'[c] = call[c],
         call[c].phase = "writing" => mem' = mem
  PROVE  CallSound(c)'
<1> DEFINE k == call[c]
<1>1. k \in Calls /\ CallSound(c)
  BY CalledType DEF SafetyInv, SoundInv
<1>2. /\ clock \in Nat /\ clock' \in Nat /\ clock <= clock' /\ k.now \in Nat
      /\ reservations \in Nat /\ reservations' \in Nat
  BY <1>1, BoundAssumption
     DEF SafetyInv, TypeInv, TypeOK, Times, MovesOn, Calls
<1>3. \A s \in Slots : /\ nonce[s] \in Nat /\ nonce'[s] \in Nat
                       /\ nonce[s] <= nonce'[s]
  BY BoundAssumption DEF SafetyInv, TypeInv, TypeOK, Values, MovesOn
<1>4. \A x \in signed : x.slot \in Slots /\ x.value \in Nat
  BY BoundAssumption DEF SafetyInv, TypeInv, TypeOK, Signings, Values
<1>5. signed' = signed /\ \A s \in Slots : SignedOn(s)' = SignedOn(s)
  BY DEF MovesOn, SignedOn
<1>6. k.phase \in {"reading", "writing"} => LedgerSound(call[c].ledger)'
  <2> SUFFICES ASSUME k.phase \in {"reading", "writing"}
               PROVE  LedgerSound(call[c].ledger)'
    OBVIOUS
  <2>1. k.ledger \in Ledgers /\ LedgerSound(k.ledger)
    BY <1>1 DEF CallSound, SafetyInv, TypeInv, CallShape
  <2> QED
    BY <2>1, LedgerStaysSound DEF SafetyInv, SoundInv
<1>7. SigningSound(k) => SigningSound(call[c])'
  <2> SUFFICES ASSUME SigningSound(k), k.signing # NULL
               PROVE  SigningSound(call[c])'
    BY DEF SigningSound
  <2>1. k.signing \in Signings
    BY <1>1 DEF Calls
  <2>2. /\ k.signing.slot \in Slots /\ k.signing.value \in Nat
        /\ k.signing.at \in Nat /\ k.signing.n \in Nat
    BY <2>1, BoundAssumption DEF Signings, Values, Times
  <2>3. k.signing.at <= clock' /\ k.signing.n <= reservations'
    BY <2>2, <1>2 DEF SigningSound
  <2>4. k.signing.value <= nonce'[k.signing.slot]
    BY <2>2, <1>3 DEF SigningSound
  <2> QED
    BY <2>2, <2>3, <2>4, <1>5 DEF SigningSound
<1>8. ReserveSound(k) => ReserveSound(call[c])'
  BY <1>5 DEF ReserveSound, Usable
<1>9. CallSound(c)'
  BY <1>1, <1>2, <1>3, <1>4, <1>5, <1>6, <1>7, <1>8 DEF CallSound
<1> QED
  BY <1>9
\* A call that persists `ledger`, which is sound, keeps SoundInv.
LEMMA PersistStaysSound ==
  ASSUME SafetyInv, TypeInv', OneCallAtATime, MovesOn, NEW c \in Callers,
         NEW ledger \in Ledgers, NEW signing \in Signings \cup {NULL},
         Persist(c, ledger, signing), SigningSound(call[c])',
         LedgerSound(ledger), disk' = disk, landed' = landed,
         returns' = returns, reservations <= reservations'
  PROVE  SoundInv'
<1>1. LedgerSound(ledger)'
  BY LedgerStaysSound DEF SafetyInv, SoundInv
<1>2. /\ mem' = ledger /\ call'[c].phase = "writing"
      /\ call'[c].ledger = ledger /\ call'[c].now = 0
  BY PersistType DEF SafetyInv, Persist
<1>3. LedgerSound(mem)'
  BY <1>1, <1>2 DEF LedgerSound
<1>4. CallSound(c)'
  <2>1. 0 <= clock'
    BY BoundAssumption DEF TypeInv, TypeOK, Times
  <2>2. LedgerSound(call[c].ledger)'
    BY <1>1, <1>2 DEF LedgerSound
  <2> QED
    BY <1>2, <2>1, <2>2 DEF CallSound
<1>5. disk' # NULL => LedgerSound(disk)'
  BY MemoryStaysSound
<1> QED
  BY <1>3, <1>4, <1>5, Assemble DEF OneCallAtATime

\* The same for a call that has nothing to sign.
LEMMA PersistUnsigned ==
  ASSUME SafetyInv, TypeInv', OneCallAtATime, MovesOn, NEW c \in Callers,
         NEW ledger \in Ledgers, Persist(c, ledger, NULL),
         LedgerSound(ledger), disk' = disk, landed' = landed,
         returns' = returns, reservations' = reservations
  PROVE  SoundInv'
<1>1. call'[c].signing = NULL
  BY PersistType DEF SafetyInv
<1>2. SigningSound(call[c])'
  BY <1>1 DEF SigningSound
<1>3. reservations <= reservations'
  BY BoundAssumption DEF SafetyInv, TypeInv, TypeOK
<1> QED
  BY <1>2, <1>3, PersistStaysSound

LEMMA SoundToIdle ==
  ASSUME SafetyInv, TypeInv', OneCallAtATime, MovesOn, NEW c \in Callers,
         call' = [call EXCEPT ![c] = Idle], mem' = mem,
         disk' # NULL => LedgerSound(disk)', landed' = landed,
         returns' = returns, reservations' = reservations
  PROVE  SoundInv'
<1>1. call'[c] = Idle
  BY DEF SafetyInv, TypeInv, TypeOK
<1>2. CallSound(c)'
  BY <1>1, BoundAssumption DEF CallSound, Idle, TypeInv, TypeOK, Times
<1>3. mem' # NULL => LedgerSound(mem)'
  BY MemoryStaysSound
<1>4. reservations <= reservations'
  BY BoundAssumption DEF SafetyInv, TypeInv, TypeOK
<1> QED
  BY <1>2, <1>3, <1>4, Assemble DEF OneCallAtATime

\* A step that leaves the chain, the clock and the signed payments alone.
LEMMA StandsStill ==
  ASSUME SafetyInv, signed' = signed, clock' = clock, nonce' = nonce,
         live' \subseteq live
  PROVE  MovesOn
  BY BoundAssumption DEF SafetyInv, TypeInv, TypeOK, MovesOn, Times, Values

LEMMA SoundBegin ==
  ASSUME SafetyInv, TypeInv', OneCallAtATime, NEW c \in Callers,
         NEW op \in {"reserve", "return", "refresh", "reconcile", "close"},
         Begin(c, op)
  PROVE  SoundInv'
<1>1. MovesOn
  BY StandsStill DEF Begin
<1>2. mem \in Ledgers /\ LedgerSound(mem) /\ clock \in Nat
  BY BoundAssumption
     DEF SafetyInv, SoundInv, TypeInv, TypeOK, Begin, Times
<1>3. /\ call'[c].op = op /\ call'[c].phase = "reading"
      /\ call'[c].ledger = mem /\ call'[c].todo = ToRead(op, mem)
      /\ call'[c].now = IF op \in {"reserve", "reconcile"} THEN clock ELSE 0
  BY <1>2, ReadingType DEF Begin, SafetyInv, TypeInv, TypeOK
<1>4. /\ mem' = mem /\ disk' = disk /\ clock' = clock /\ signed' = signed
      /\ landed' = landed /\ returns' = returns
      /\ reservations' = reservations
  BY DEF Begin
<1>5. /\ mem' # NULL => LedgerSound(mem)'
      /\ disk' # NULL => LedgerSound(disk)'
  BY <1>1, <1>4, MemoryStaysSound
<1>6. CallSound(c)'
  <2>1. LedgerSound(call[c].ledger)'
    BY <1>2, <1>3, <1>4, <1>5 DEF LedgerSound, Begin
  <2>2. call'[c].now <= clock'
    BY <1>2, <1>3, <1>4
  <2>3. op = "reconcile" =>
          \A s \in call'[c].todo : IsSpent(call'[c].ledger.slots[s])
    BY <1>3 DEF ToRead
  <2>4. op = "reserve" => ReserveSound(call[c])'
    <3> SUFFICES ASSUME op = "reserve",
                        NEW s \in Usable(mem), NEW x \in SignedOn(s),
                        x.value = mem.slots[s].value
                 PROVE  clock - x.at >= SendWindow
      BY <1>3, <1>4 DEF ReserveSound, Usable, SignedOn
    <3> QED
      BY <1>2 DEF Usable, LedgerSound, SlotSound, Offers
  <2> QED
    BY <1>3, <2>1, <2>2, <2>3, <2>4 DEF CallSound
<1>7. reservations <= reservations'
  BY <1>4, BoundAssumption DEF SafetyInv, TypeInv, TypeOK
<1> QED
  BY <1>1, <1>4, <1>5, <1>6, <1>7, Assemble DEF OneCallAtATime

\* A write lands without a payment to sign.
LEMMA SoundWriteLands ==
  ASSUME SafetyInv, TypeInv', OneCallAtATime, CommitOnResolve = TRUE,
         NEW c \in Callers, WriteLands(c), call[c].signing = NULL
  PROVE  SoundInv'
<1>1. MovesOn
  BY StandsStill DEF WriteLands
<1>2. /\ call[c].ledger = mem /\ mem \in Ledgers /\ LedgerSound(mem)
  BY DEF WriteLands, SafetyInv, SoundInv, TypeInv, CallShape, CallSound
<1>3. /\ disk' = mem /\ mem' = mem /\ clock' = clock /\ landed' = landed
      /\ returns' = returns /\ reservations' = reservations
  BY <1>2 DEF WriteLands
<1>4. LedgerSound(mem)'
  BY <1>1, <1>2, <1>3, NullAssumption, MemoryStaysSound
<1>5. LedgerSound(disk)'
  BY <1>3, <1>4 DEF LedgerSound
<1>6. CASE call[c].op # "create"
  BY <1>1, <1>3, <1>5, <1>6, SoundToIdle DEF WriteLands
<1>7. CASE call[c].op = "create"
  <2>1. clock \in Times
    BY DEF SafetyInv, TypeInv, TypeOK
  <2>2. /\ call'[c].op = "refresh" /\ call'[c].phase = "reading"
        /\ call'[c].ledger = mem /\ call'[c].now = 0
    BY <1>2, <1>7, <2>1, ReadingType
       DEF WriteLands, SafetyInv, TypeInv, TypeOK
  <2>3. LedgerSound(call[c].ledger)'
    BY <1>3, <1>4, <2>2 DEF LedgerSound
  <2>4. 0 <= clock'
    BY <1>3, <2>1, BoundAssumption DEF Times
  <2>5. CallSound(c)'
    BY <2>2, <2>3, <2>4 DEF CallSound
  <2>6. reservations <= reservations'
    BY <1>3, BoundAssumption DEF SafetyInv, TypeInv, TypeOK
  <2> QED
    BY <1>1, <1>3, <1>4, <1>5, <2>5, <2>6, Assemble DEF OneCallAtATime
<1> QED
  BY <1>6, <1>7
\* The one step that signs: the payment is outstanding from now on, and the
\* ledger in memory and in the store records it.
LEMMA SoundSigns ==
  ASSUME SafetyInv, TypeInv', OneCallAtATime, CommitOnResolve = TRUE,
         NEW c \in Callers, WriteLands(c), call[c].signing # NULL,
         call[c].op # "create"
  PROVE  SoundInv'
<1> DEFINE y == call[c].signing
           ledger == call[c].ledger
<1>1. /\ ledger = mem /\ mem \in Ledgers /\ LedgerSound(ledger)
      /\ SigningSound(call[c])
  BY DEF WriteLands, SafetyInv, SoundInv, TypeInv, CallShape, CallSound
<1>2. y \in Signings
  BY CalledType DEF SafetyInv, Calls
<1>3. /\ y.slot \in Slots /\ y.value \in Nat /\ y.at \in Nat /\ y.n \in Nat
  BY <1>2, BoundAssumption DEF Signings, Values, Times
<1>4. /\ disk' = mem /\ mem' = mem /\ clock' = clock /\ landed' = landed
      /\ returns' = returns /\ reservations' = reservations
      /\ nonce' = nonce /\ live' = live /\ signed' = signed \cup {y}
      /\ call' = [call EXCEPT ![c] = Idle]
  BY <1>1 DEF WriteLands
<1>5. /\ y.value <= nonce[y.slot] /\ y.at <= clock /\ y.n <= reservations
      /\ \A x \in signed :
           /\ x.n < y.n
           /\ (x.slot = y.slot /\ x.value = y.value)
                => y.at - x.at >= SendWindow
      /\ \A x \in SignedOn(y.slot) : x.value <= y.value
      /\ ledger.slots[y.slot].state = "spent"
      /\ ledger.slots[y.slot].spentAgainst.value = y.value
      /\ ledger.slots[y.slot].spentAgainst.at = y.at
  BY <1>1 DEF SigningSound
<1>6. \A x \in signed : /\ x.slot \in Slots /\ x.value \in Nat
                        /\ x.at \in Nat /\ x.n \in Nat
  BY BoundAssumption DEF SafetyInv, TypeInv, TypeOK, Signings, Values, Times
<1>7. History'
  BY <1>4, <1>5 DEF History, SafetyInv, SoundInv
<1>8. NoDoubleSign'
  <2> SUFFICES ASSUME NEW x \in signed', NEW z \in signed',
                      x.n < z.n, x.slot = z.slot, x.value = z.value
               PROVE  z.at - x.at >= SendWindow
    BY <1>4 DEF NoDoubleSign
  <2>1. CASE x \in signed /\ z \in signed
    BY <2>1 DEF NoDoubleSign, SafetyInv, SoundInv
  <2>2. CASE x \in signed /\ z = y
    BY <2>2, <1>5
  <2>3. CASE x = y
    <3>1. z.n \in Nat /\ y.n \in Nat /\ (z \in signed => z.n < y.n)
      BY <1>3, <1>4, <1>5, <1>6
    <3>2. z = y \/ z \in signed
      BY <1>4
    <3> QED
      BY <2>3, <3>1, <3>2
  <2>4. (x \in signed \/ x = y) /\ (z \in signed \/ z = y)
    BY <1>4
  <2> QED
    BY <2>1, <2>2, <2>3, <2>4
<1>9. ASSUME NEW s \in Slots
      PROVE  SlotSound(s, mem.slots[s])'
  <2>1. SlotSound(s, mem.slots[s])
    BY <1>1 DEF LedgerSound
  <2>2. CASE s # y.slot
    <3>1. SignedOn(s)' = SignedOn(s)
      BY <1>4, <2>2 DEF SignedOn
    <3> QED
      BY <2>1, <3>1, <1>4 DEF SlotSound, Offers, Recorded, IsSpent
  <2>3. CASE s = y.slot
    <3>1. SignedOn(s)' = SignedOn(s) \cup {y}
      BY <1>4, <2>3 DEF SignedOn
    <3>2. mem.slots[s].state = "spent"
      BY <1>1, <1>5, <2>3
    <3>3. \A x \in SignedOn(s) :
            x.value = y.value => x.at <= y.at
      BY <1>3, <1>5, <1>6, <2>3, WindowAssumption DEF SignedOn
    <3>4. Offers(s, mem.slots[s])'
      BY <3>2, <1>4 DEF Offers
    <3>5. Recorded(s, mem.slots[s])'
      <4>1. /\ mem.slots[s].spentAgainst.value = y.value
            /\ mem.slots[s].spentAgainst.at = y.at
            /\ y.value <= nonce[s] /\ y.at <= clock
            /\ \A x \in SignedOn(s) : x.value <= y.value
        BY <1>1, <1>5, <2>3
      <4>2. mem' = mem /\ nonce' = nonce /\ clock' = clock
        BY <1>4
      <4> HIDE DEF y
      <4> QED
        BY <4>1, <4>2, <3>1, <3>3, <1>3 DEF Recorded
    <3> QED
      BY <3>4, <3>5 DEF SlotSound
  <2> QED
    BY <2>2, <2>3
<1>a. LedgerSound(mem)'
  BY <1>9 DEF LedgerSound
<1>b. LedgerSound(disk)'
  BY <1>4, <1>a DEF LedgerSound
<1>c. CallSound(c)'
  <2>1. call'[c] = Idle
    BY <1>4 DEF SafetyInv, TypeInv, TypeOK
  <2> QED
    BY <2>1, BoundAssumption DEF CallSound, Idle, TypeInv, TypeOK, Times
<1> QED
  BY <1>7, <1>8, <1>a, <1>b, <1>c DEF SoundInv, OneCallAtATime

\* reserveSlot takes a slot whose outstanding payments are all old enough.
LEMMA SoundReserve ==
  ASSUME SafetyInv, TypeInv', OneCallAtATime, NEW c \in Callers,
         NEW m \in Merchants, NEW a \in Amounts, ReserveSlot(c, m, a)
  PROVE  SoundInv'
<1> DEFINE k == call[c]
           n == reservations + 1
           log == Counted(k.ledger.spendLog, k.now)
                    \cup {[n |-> n, at |-> k.now, amount |-> a]}
<1>1. PICK s \in Slots :
        /\ Preferred(k.ledger, s)
        /\ LET value == k.ledger.slots[s].value
               spent == [k.ledger.slots[s] EXCEPT
                           !.state = "spent",
                           !.spentAgainst = [value |-> value, merchant |-> m,
                                             at |-> k.now]]
           IN  Persist(c, [WithSlot(k.ledger, s, spent) EXCEPT
                             !.spendLog = log],
                       [n |-> n, slot |-> s, value |-> value, merchant |-> m,
                        at |-> k.now, amount |-> a])
  BY DEF ReserveSlot
<1> DEFINE value == k.ledger.slots[s].value
           spent == [k.ledger.slots[s] EXCEPT
                       !.state = "spent",
                       !.spentAgainst = [value |-> value, merchant |-> m,
                                         at |-> k.now]]
           ledger == [WithSlot(k.ledger, s, spent) EXCEPT !.spendLog = log]
           y == [n |-> n, slot |-> s, value |-> value, merchant |-> m,
                 at |-> k.now, amount |-> a]
<1>2. k \in Calls /\ k.ledger \in Ledgers /\ LedgerSound(k.ledger)
      /\ k.now <= clock /\ ReserveSound(k)
  BY CalledType
     DEF ReserveSlot, SafetyInv, SoundInv, TypeInv, CallShape, CallSound
<1>3. /\ s \in Usable(k.ledger) /\ k.ledger.slots[s] \in PoolSlots
      /\ value \in Nat /\ k.now \in Nat /\ k.ledger.slots[s].state = "unspent"
      /\ value # NULL
  <2>1. s \in Usable(k.ledger)
    BY <1>1 DEF Preferred, NeverReleased
  <2>2. k.ledger.slots[s] \in PoolSlots /\ k.now \in Nat
    BY <1>2, BoundAssumption DEF Ledgers, Calls, Times
  <2>3. value # NULL /\ k.ledger.slots[s].state = "unspent"
    BY <2>1 DEF Usable
  <2>4. value \in Nat
    BY <2>2, <2>3, BoundAssumption DEF PoolSlots, Values
  <2> QED
    BY <2>1, <2>2, <2>3, <2>4
<1>4. MovesOn
  BY StandsStill DEF ReserveSlot
<1>0. Persist(c, ledger, y)
  BY <1>1
<1>5. /\ mem' = ledger /\ call'[c].phase = "writing"
      /\ call'[c].ledger = ledger /\ call'[c].signing = y
      /\ call'[c].now = 0 /\ call'[c].op = "reserve"
  <2> HIDE DEF ledger, y
  <2> QED
    BY <1>0 DEF Persist, Idle, ReserveSlot, SafetyInv, TypeInv, TypeOK
<1>6. /\ clock' = clock /\ signed' = signed /\ nonce' = nonce /\ live' = live
      /\ landed' = landed /\ returns' = returns
      /\ reservations' = reservations + 1 /\ disk' = disk
  BY DEF ReserveSlot
<1>7. \A x \in SignedOn(s) :
        /\ x.value \in Nat /\ x.at \in Nat /\ x.value <= value
        /\ x.value = value => k.now - x.at >= SendWindow
  <2>1. Offers(s, k.ledger.slots[s])
    BY <1>2 DEF LedgerSound, SlotSound
  <2>2. \A x \in SignedOn(s) : x.value \in Nat /\ x.at \in Nat
    BY BoundAssumption
       DEF SignedOn, SafetyInv, TypeInv, TypeOK, Signings, Values, Times
  <2> QED
    BY <2>1, <2>2, <1>2, <1>3 DEF Offers, ReserveSound
<1>8. value <= nonce[s]
  BY <1>2, <1>3 DEF LedgerSound, SlotSound, Offers
<1>9. /\ \A t \in Slots : ledger.slots[t] =
           IF t = s THEN spent ELSE k.ledger.slots[t]
      /\ spent.state = "spent" /\ spent.spentAgainst.value = value
      /\ spent.spentAgainst.at = k.now
  BY <1>2, <1>3 DEF WithSlot, Ledgers, PoolSlots
<1> HIDE DEF spent, log, value
<1>a. LedgerSound(ledger)
  <2> SUFFICES ASSUME NEW t \in Slots PROVE SlotSound(t, ledger.slots[t])
    BY DEF LedgerSound
  <2>1. CASE t # s
    BY <2>1, <1>2, <1>9 DEF LedgerSound
  <2>2. CASE t = s
    <3>1. Offers(s, spent)
      BY <1>9 DEF Offers
    <3>2. \A x \in SignedOn(s) : x.value = value => x.at <= k.now
      BY <1>3, <1>7, WindowAssumption
    <3>3. Recorded(s, spent)
      BY <3>2, <1>2, <1>7, <1>8, <1>9 DEF Recorded
    <3> QED
      BY <2>2, <3>1, <3>3, <1>9 DEF SlotSound
  <2> QED
    BY <2>1, <2>2
<1>b. ledger \in Ledgers
  BY <1>5 DEF TypeInv, CallShape
<1>d. SigningSound(call[c])'
  <2> DEFINE led == ledger
  <2>1. y.n = n /\ y.slot = s /\ y.value = value /\ y.at = k.now
    OBVIOUS
  <2>2. \A x \in signed : x.n < n
    BY BoundAssumption
       DEF SafetyInv, SoundInv, History, TypeInv, TypeOK, Signings
  <2>3. \A x \in signed : (x.slot = s /\ x.value = value)
                            => k.now - x.at >= SendWindow
    BY <1>7 DEF SignedOn
  <2>4. SignedOn(s)' = SignedOn(s)
    BY <1>6 DEF SignedOn
  <2>5. n <= reservations'
    BY <1>6, BoundAssumption DEF SafetyInv, TypeInv, TypeOK
  <2>6. /\ led.slots[s].state = "spent"
        /\ led.slots[s].spentAgainst.value = value
        /\ led.slots[s].spentAgainst.at = k.now
    BY <1>9
  <2> HIDE DEF led, y
  <2> QED
    BY <2>1, <2>2, <2>3, <2>4, <2>5, <2>6, <1>2, <1>5, <1>6, <1>7, <1>8
       DEF SigningSound, led
<1>e. reservations <= reservations'
  BY <1>6, BoundAssumption DEF SafetyInv, TypeInv, TypeOK
<1>f. y \in Signings \cup {NULL} /\ Persist(c, ledger, y)
  <2> HIDE DEF ledger, y
  <2>1. call'[c] \in Calls
    BY CalledType DEF TypeInv, TypeOK
  <2> QED
    BY <2>1, <1>5, <1>0 DEF Calls
<1> QED
  <2> HIDE DEF ledger, y
  <2> QED
    BY <1>4, <1>6, <1>a, <1>b, <1>d, <1>e, <1>f, PersistStaysSound
\* Slots and ledgers that a chain read changes.
LEMMA NotOfferedSound ==
  ASSUME NEW s \in Slots, NEW slot, slot.state \notin {"unspent", "spent"}
  PROVE  SlotSound(s, slot)
  BY DEF SlotSound, Offers, Recorded, IsSpent

LEMMA WithSlotSound ==
  ASSUME NEW ledger \in Ledgers, NEW s \in Slots, NEW slot \in PoolSlots,
         LedgerSound(ledger), SlotSound(s, slot)
  PROVE  LedgerSound(WithSlot(ledger, s, slot))
<1>1. \A t \in Slots : WithSlot(ledger, s, slot).slots[t] =
                         IF t = s THEN slot ELSE ledger.slots[t]
  BY DEF WithSlot, Ledgers
<1> QED
  BY <1>1 DEF LedgerSound

LEMMA SignedInPast ==
  ASSUME SafetyInv, NEW s \in Slots
  PROVE  /\ nonce[s] \in Nat /\ clock \in Nat
         /\ \A x \in SignedOn(s) : /\ x.value \in Nat /\ x.at \in Nat
                                   /\ x.value <= nonce[s]
  BY BoundAssumption
     DEF SafetyInv, SoundInv, History, TypeInv, TypeOK, Signings, SignedOn,
         Values, Times

\* refresh: the value changes, and a record of spending stays.
LEMMA RefreshedSound ==
  ASSUME SafetyInv, NEW s \in Slots, NEW slot \in PoolSlots, SlotSound(s, slot)
  PROVE  SlotSound(s, [slot EXCEPT !.value = ReadValue(s)])
<1> DEFINE new == [slot EXCEPT !.value = ReadValue(s)]
<1>1. /\ new.state = slot.state /\ new.spentAgainst = slot.spentAgainst
      /\ new.value = ReadValue(s)
  BY DEF PoolSlots
<1> HIDE DEF new
<1>2. Recorded(s, new)
  BY <1>1 DEF SlotSound, Recorded, IsSpent
<1>3. Offers(s, new)
  <2> SUFFICES ASSUME slot.state = "unspent" PROVE Offers(s, new)
    BY <1>1 DEF Offers
  <2>1. CASE s \notin live
    BY <2>1, <1>1 DEF ReadValue, Offers
  <2>2. CASE s \in live /\ slot.value = NULL
    <3>1. \A x \in SignedOn(s) : x.value < nonce[s]
      BY <2>2 DEF SlotSound, Offers
    <3>2. new.value = nonce[s] /\ new.value # NULL
      BY <2>2, <1>1, SignedInPast, NullAssumption DEF ReadValue
    <3> QED
      BY <3>1, <3>2, SignedInPast DEF Offers
  <2>3. CASE s \in live /\ slot.value # NULL
    <3>1. /\ slot.value <= nonce[s]
          /\ \A x \in SignedOn(s) :
               /\ x.value <= slot.value
               /\ x.value = slot.value => clock - x.at >= SendWindow
      BY <2>3 DEF SlotSound, Offers
    <3>2. new.value = nonce[s] /\ new.value # NULL
      BY <2>3, <1>1, SignedInPast, NullAssumption DEF ReadValue
    <3>3. slot.value \in Nat
      BY <2>3, BoundAssumption DEF PoolSlots, Values
    <3> QED
      BY <3>1, <3>2, <3>3, SignedInPast DEF Offers
  <2> QED
    BY <2>1, <2>2, <2>3
<1> QED
  BY <1>2, <1>3 DEF SlotSound, new

\* reconcile: a spent slot is offered again at a value the chain has moved to,
\* or after the send window.
LEMMA ReconciledSound ==
  ASSUME SafetyInv, NEW s \in Slots, NEW slot \in PoolSlots,
         SlotSound(s, slot), IsSpent(slot),
         NEW now \in Times, now <= clock
  PROVE  SlotSound(s, Reconciled(slot, ReadValue(s), now))
<1> DEFINE v == ReadValue(s)
           record == slot.spentAgainst
<1>1. /\ record.value \in Nat /\ record.at \in Nat /\ now \in Nat
      /\ record.value <= nonce[s]
      /\ \A x \in SignedOn(s) :
           /\ x.value <= record.value
           /\ x.value = record.value => x.at <= record.at
  BY BoundAssumption
     DEF SlotSound, Recorded, IsSpent, PoolSlots, Records, Values, Times
<1>2. v # NULL => v = nonce[s]
  BY DEF ReadValue
<1>3. CASE v = NULL
  <2>1. Reconciled(slot, v, now).state = "unknown"
    BY <1>3 DEF Reconciled, Rearmed
  <2> QED
    BY <2>1, NotOfferedSound
<1>4. CASE v # NULL /\ v # record.value
  <2>1. Reconciled(slot, v, now) = Rearmed(v, "unspent", NULL)
    BY <1>4 DEF Reconciled
  <2>2. Recorded(s, Rearmed(v, "unspent", NULL))
    BY DEF Recorded, IsSpent, Rearmed
  <2>3. /\ Rearmed(v, "unspent", NULL).value = nonce[s]
        /\ Rearmed(v, "unspent", NULL).value # NULL
    BY <1>2, <1>4 DEF Rearmed
  <2>4. \A x \in SignedOn(s) : x.value < nonce[s]
    BY <1>1, <1>2, <1>4, SignedInPast
  <2>5. Offers(s, Rearmed(v, "unspent", NULL))
    BY <2>3, <2>4, SignedInPast DEF Offers
  <2> QED
    BY <2>1, <2>2, <2>5 DEF SlotSound
<1>5. CASE v # NULL /\ v = record.value /\ now - record.at >= SendWindow
  <2>1. Reconciled(slot, v, now) = Rearmed(v, "unspent", now)
    BY <1>5 DEF Reconciled
  <2>2. Recorded(s, Rearmed(v, "unspent", now))
    BY DEF Recorded, IsSpent, Rearmed
  <2>3. \A x \in SignedOn(s) : x.value = v => clock - x.at >= SendWindow
    BY <1>1, <1>5, SignedInPast, WindowAssumption
  <2>4. /\ Rearmed(v, "unspent", now).value = nonce[s]
        /\ Rearmed(v, "unspent", now).value # NULL
    BY <1>2, <1>5 DEF Rearmed
  <2>5. Offers(s, Rearmed(v, "unspent", now))
    BY <2>3, <2>4, <1>2, <1>5, SignedInPast DEF Offers
  <2> QED
    BY <2>1, <2>2, <2>5 DEF SlotSound
<1>6. CASE v # NULL /\ v = record.value /\ ~(now - record.at >= SendWindow)
  BY <1>6 DEF Reconciled
<1> QED
  BY <1>3, <1>4, <1>5, <1>6
\* One chain read of any call.
LEMMA AfterReadSound ==
  ASSUME SafetyInv, NEW c \in Callers, call[c].phase = "reading",
         NEW s \in call[c].todo
  PROVE  /\ LedgerSound(AfterRead(call[c], s).ledger)
         /\ call[c].op \notin {"refresh", "reconcile", "recover"}
              => AfterRead(call[c], s).ledger = call[c].ledger
         /\ \A t \in Slots \ {s} :
              AfterRead(call[c], s).ledger.slots[t] = call[c].ledger.slots[t]
<1> DEFINE k == call[c]
           slot == k.ledger.slots[s]
           rest == [k EXCEPT !.todo = k.todo \ {s}]
           with(new) == [rest EXCEPT !.ledger = WithSlot(k.ledger, s, new)]
           found == [rest EXCEPT !.found = k.found \cup {s}]
<1>1. /\ k \in Calls /\ k.ledger \in Ledgers /\ s \in Slots
      /\ slot \in PoolSlots /\ k.now \in Times
  BY CalledType DEF SafetyInv, TypeInv, TypeOK, CallShape, Calls, Ledgers
<1>2. LedgerSound(k.ledger) /\ SlotSound(s, slot) /\ k.now <= clock
      /\ (k.op = "reconcile" => IsSpent(slot))
  BY <1>1 DEF SafetyInv, SoundInv, CallSound, LedgerSound
<1>3. ASSUME NEW new \in PoolSlots, SlotSound(s, new)
      PROVE  /\ LedgerSound(with(new).ledger)
             /\ \A t \in Slots \ {s} :
                  with(new).ledger.slots[t] = k.ledger.slots[t]
  <2>1. with(new).ledger = WithSlot(k.ledger, s, new)
    BY <1>1 DEF Calls
  <2>2. LedgerSound(WithSlot(k.ledger, s, new))
    BY <1>1, <1>2, <1>3, WithSlotSound
  <2>3. \A t \in Slots \ {s} :
          WithSlot(k.ledger, s, new).slots[t] = k.ledger.slots[t]
    BY <1>1 DEF WithSlot, Ledgers
  <2> HIDE DEF with
  <2> QED
    BY <2>1, <2>2, <2>3
<1>4. ReadValue(s) \in Values \cup {NULL}
  BY <1>1, ReadValueType DEF SafetyInv, TypeInv
<1>5. /\ [slot EXCEPT !.value = ReadValue(s)] \in PoolSlots
      /\ SlotSound(s, [slot EXCEPT !.value = ReadValue(s)])
  BY <1>1, <1>2, <1>4, RefreshedSound DEF PoolSlots
<1>6. k.op = "reconcile" =>
        /\ Reconciled(slot, ReadValue(s), k.now) \in PoolSlots
        /\ SlotSound(s, Reconciled(slot, ReadValue(s), k.now))
  BY <1>1, <1>2, <1>4, ReconciledType, ReconciledSound
<1>7. s \in live =>
        /\ Rearmed(nonce[s], "unknown", NULL) \in PoolSlots
        /\ SlotSound(s, Rearmed(nonce[s], "unknown", NULL))
  <2>1. Rearmed(nonce[s], "unknown", NULL).state = "unknown"
    BY DEF Rearmed
  <2>2. nonce[s] \in Values
    BY <1>1 DEF SafetyInv, TypeInv, TypeOK
  <2> QED
    BY <1>1, <2>1, <2>2, RearmedType, NotOfferedSound
<1>8. rest.ledger = k.ledger /\ found.ledger = k.ledger
  BY <1>1 DEF Calls
<1> HIDE DEF with, rest, slot, found
<1>9. AfterRead(k, s) =
        CASE k.op = "refresh"   -> with([slot EXCEPT !.value = ReadValue(s)])
          [] k.op = "reconcile" -> with(Reconciled(slot, ReadValue(s), k.now))
          [] k.op = "recover" /\ s \in live ->
               with(Rearmed(nonce[s], "unknown", NULL))
          [] k.op = "close" /\ s \in live -> found
          [] OTHER -> rest
  BY DEF AfterRead, with, rest, slot, found
<1>a. CASE k.op = "refresh"
  BY <1>a, <1>3, <1>5, <1>9
<1>b. CASE k.op = "reconcile"
  BY <1>b, <1>3, <1>6, <1>9
<1>c. CASE k.op = "recover" /\ s \in live
  BY <1>c, <1>3, <1>7, <1>9
<1>d. CASE k.op = "close" /\ s \in live
  BY <1>d, <1>2, <1>8, <1>9
<1>e. CASE \/ k.op \notin {"refresh", "reconcile", "recover", "close"}
           \/ k.op \notin {"refresh", "reconcile"} /\ s \notin live
  BY <1>e, <1>2, <1>8, <1>9
<1> QED
  BY <1>a, <1>b, <1>c, <1>d, <1>e

LEMMA SoundReadSlot ==
  ASSUME SafetyInv, TypeInv', OneCallAtATime, NEW c \in Callers, ReadSlot(c)
  PROVE  SoundInv'
<1>1. PICK s \in call[c].todo :
        call' = [call EXCEPT ![c] = AfterRead(call[c], s)]
  BY DEF ReadSlot
<1> DEFINE k == call[c]
           r == AfterRead(call[c], s)
<1>2. /\ k.phase = "reading" /\ mem' = mem /\ disk' = disk /\ clock' = clock
      /\ nonce' = nonce /\ live' = live /\ signed' = signed
      /\ landed' = landed /\ returns' = returns
      /\ reservations' = reservations
  BY DEF ReadSlot
<1>3. MovesOn
  BY <1>2, StandsStill
<1>4. /\ r.phase = "reading" /\ r.op = k.op /\ r.now = k.now
      /\ r.todo = k.todo \ {s} /\ r.ledger \in Ledgers
  BY <1>2, AfterReadType DEF SafetyInv
<1>5. /\ LedgerSound(r.ledger)
      /\ k.op = "reserve" => r.ledger = k.ledger
      /\ \A t \in Slots \ {s} : r.ledger.slots[t] = k.ledger.slots[t]
  BY <1>2, AfterReadSound
<1>6. call'[c] = r
  BY <1>1 DEF SafetyInv, TypeInv, TypeOK
<1>7. CallSound(c) /\ k.todo \subseteq Slots
  BY CalledType DEF SafetyInv, SoundInv, Calls
<1> HIDE DEF r
<1>8. LedgerSound(call[c].ledger)'
  <2>1. ASSUME NEW led \in Ledgers, LedgerSound(led)
        PROVE  LedgerSound(led)'
    BY <1>3, <2>1, LedgerStaysSound DEF SafetyInv, SoundInv
  <2>2. PICK led \in Ledgers : led = r.ledger
    BY <1>4
  <2>3. LedgerSound(led)
    BY <2>2, <1>5
  <2>4. LedgerSound(led)'
    BY <2>1, <2>3
  <2> QED
    BY <2>2, <2>4, <1>6 DEF LedgerSound
<1>9. k.op = "reserve" => ReserveSound(call[c])'
  <2> SUFFICES ASSUME k.op = "reserve" PROVE ReserveSound(call[c])'
    OBVIOUS
  <2>1. ReserveSound(k) /\ r.ledger = k.ledger
    BY <1>2, <1>5, <1>7 DEF CallSound
  <2> QED
    BY <2>1, <1>2, <1>4, <1>6 DEF ReserveSound, Usable, SignedOn
<1>a. k.op = "reconcile" =>
        \A t \in call'[c].todo : IsSpent(call'[c].ledger.slots[t])
  BY <1>2, <1>4, <1>5, <1>6, <1>7 DEF CallSound
<1>b. CallSound(c)'
  BY <1>2, <1>4, <1>6, <1>7, <1>8, <1>9, <1>a DEF CallSound
<1>c. /\ mem' # NULL => LedgerSound(mem)'
      /\ disk' # NULL => LedgerSound(disk)'
  BY <1>2, <1>3, MemoryStaysSound
<1>d. reservations <= reservations'
  BY <1>2, BoundAssumption DEF SafetyInv, TypeInv, TypeOK
<1> QED
  BY <1>2, <1>3, <1>b, <1>c, <1>d, Assemble DEF OneCallAtATime

LEMMA SoundReturn ==
  ASSUME SafetyInv, TypeInv', OneCallAtATime, NEW c \in Callers,
         ApplyNonceReturn(c)
  PROVE  SoundInv'
<1>1. PICK r \in returns :
        /\ Trusted(r, call[c].ledger.slots[r.slot])
        /\ Persist(c, WithSlot(call[c].ledger, r.slot,
                               Rearmed(r.value, "unspent", NULL)), NULL)
  BY DEF ApplyNonceReturn
<1> DEFINE slot == call[c].ledger.slots[r.slot]
           new == Rearmed(r.value, "unspent", NULL)
<1>2. call[c].ledger \in Ledgers /\ LedgerSound(call[c].ledger)
  BY DEF ApplyNonceReturn, SafetyInv, SoundInv, TypeInv, CallShape, CallSound
<1>3. /\ r.slot \in Slots /\ r.value \in Values /\ r.value \in Nat
      /\ r.against \in Nat /\ r.against < r.value /\ r.value <= nonce[r.slot]
  BY BoundAssumption
     DEF SafetyInv, SoundInv, History, TypeInv, TypeOK, Returns, Values
<1>4. IsSpent(slot) /\ slot.spentAgainst.value = r.against
  BY <1>1 DEF Trusted
<1>5. \A x \in SignedOn(r.slot) : x.value \in Nat /\ x.value < r.value
  BY <1>2, <1>3, <1>4, SignedInPast DEF LedgerSound, SlotSound, Recorded
<1>6. SlotSound(r.slot, new)
  <2>1. Recorded(r.slot, new)
    BY DEF Recorded, IsSpent, Rearmed
  <2>2. new.value = r.value /\ new.value # NULL
    BY <1>3, NullAssumption DEF Rearmed
  <2>3. Offers(r.slot, new)
    BY <2>2, <1>3, <1>5 DEF Offers
  <2> QED
    BY <2>1, <2>3 DEF SlotSound
<1>7. new \in PoolSlots
  BY <1>3, RearmedType
<1> HIDE DEF new
<1>8. /\ WithSlot(call[c].ledger, r.slot, new) \in Ledgers
      /\ LedgerSound(WithSlot(call[c].ledger, r.slot, new))
  BY <1>2, <1>3, <1>6, <1>7, WithSlotType, WithSlotSound
<1>9. MovesOn
  BY StandsStill DEF ApplyNonceReturn
<1>a. Persist(c, WithSlot(call[c].ledger, r.slot, new), NULL)
  BY <1>1 DEF new
<1> QED
  BY <1>8, <1>9, <1>a, PersistUnsigned DEF ApplyNonceReturn
LEMMA SoundScanFinishes ==
  ASSUME SafetyInv, TypeInv', OneCallAtATime, NEW c \in Callers,
         ScanFinishes(c) \/ RecoverFinishes(c)
  PROVE  SoundInv'
<1> DEFINE k == call[c]
           logged == [k.ledger EXCEPT !.spendLog = PriorSpendLog]
<1>1. k.ledger \in Ledgers /\ LedgerSound(k.ledger)
  BY DEF ScanFinishes, RecoverFinishes, SafetyInv, SoundInv, TypeInv,
         CallShape, CallSound
<1>2. MovesOn
  BY StandsStill DEF ScanFinishes, RecoverFinishes
<1>3. logged \in Ledgers /\ logged.slots = k.ledger.slots
  BY <1>1, PriorSpendLogType DEF Ledgers, SafetyInv, TypeInv
<1>4. LedgerSound(logged)
  BY <1>1, <1>3 DEF LedgerSound
<1> HIDE DEF logged
<1>5. CASE ScanFinishes(c)
  BY <1>1, <1>2, <1>5, PersistUnsigned DEF ScanFinishes
<1>6. CASE RecoverFinishes(c)
  BY <1>2, <1>3, <1>4, <1>6, PersistUnsigned DEF RecoverFinishes, logged
<1> QED
  BY <1>5, <1>6

LEMMA SoundCloseFinishes ==
  ASSUME SafetyInv, TypeInv', OneCallAtATime, NEW c \in Callers,
         CloseFinishes(c)
  PROVE  SoundInv'
<1> DEFINE k == call[c]
           slots == [s \in Slots |-> IF s \in Listed(k.ledger)
                                     THEN Rearmed(NULL, "unknown", NULL)
                                     ELSE k.ledger.slots[s]]
           closed == [k.ledger EXCEPT !.slots = slots]
<1>1. k.ledger \in Ledgers
  BY DEF CloseFinishes, SafetyInv, TypeInv, CallShape
<1>2. MovesOn
  BY StandsStill DEF CloseFinishes
<1>3. Rearmed(NULL, "unknown", NULL) \in PoolSlots
      /\ Rearmed(NULL, "unknown", NULL).state = "unknown"
  BY RearmedType DEF Rearmed
<1>4. slots \in [Slots -> PoolSlots]
  BY <1>1, <1>3 DEF Ledgers
<1>5. \A s \in Slots : slots[s].state \in {"unknown", "unlisted"}
  BY <1>3 DEF Listed
<1> HIDE DEF slots
<1>6. closed \in Ledgers /\ closed.slots = slots
  BY <1>1, <1>4 DEF Ledgers
<1>7. LedgerSound(closed)
  BY <1>5, <1>6, NotOfferedSound DEF LedgerSound
<1>8. Persist(c, closed, NULL)
  BY DEF CloseFinishes, slots
<1> HIDE DEF closed
<1> QED
  BY <1>2, <1>6, <1>7, <1>8, PersistUnsigned DEF CloseFinishes

\* New accounts hold values that nothing was ever signed against.
LEMMA SoundCreateFinishes ==
  ASSUME SafetyInv, TypeInv', OneCallAtATime, NEW c \in Callers,
         CreateFinishes(c)
  PROVE  SoundInv'
<1> DEFINE new == Rearmed(NULL, "unspent", NULL)
           ledger == [slots |-> [s \in Slots |-> new],
                      spendLog |-> PriorSpendLog]
<1>1. \A x \in signed : x.value < nonce[x.slot]
  BY DEF CreateFinishes, SafetyInv, SoundInv, CallSound
<1>2. MovesOn
  BY StandsStill DEF CreateFinishes
<1>3. /\ new \in PoolSlots /\ new.state = "unspent" /\ new.value = NULL
      /\ new.spentAgainst = NULL
  BY RearmedType DEF Rearmed
<1>4. Persist(c, ledger, NULL)
  BY DEF CreateFinishes
<1> HIDE DEF new
<1>5. ledger \in Ledgers /\ \A s \in Slots : ledger.slots[s] = new
  BY <1>3, PriorSpendLogType DEF Ledgers, SafetyInv, TypeInv
<1>6. LedgerSound(ledger)
  <2> SUFFICES ASSUME NEW s \in Slots PROVE SlotSound(s, new)
    BY <1>5 DEF LedgerSound
  <2> QED
    BY <1>1, <1>3 DEF SlotSound, Offers, Recorded, IsSpent, SignedOn
<1> HIDE DEF ledger
<1> QED
  BY <1>2, <1>4, <1>5, <1>6, PersistUnsigned DEF CreateFinishes

LEMMA SoundRecoverBegins ==
  ASSUME SafetyInv, TypeInv', OneCallAtATime, NEW c \in Callers,
         RecoverBegins(c)
  PROVE  SoundInv'
<1>1. MovesOn
  BY StandsStill DEF RecoverBegins
<1>2. /\ mem' # NULL => LedgerSound(mem)'
      /\ disk' # NULL => LedgerSound(disk)'
  BY <1>1, MemoryStaysSound DEF RecoverBegins
<1>3. /\ call'[c].op = "recover" /\ call'[c].phase = "reading"
      /\ call'[c].now = 0
      /\ \A s \in Slots : call'[c].ledger.slots[s] = BlankSlot
  BY DEF RecoverBegins, Idle, SafetyInv, TypeInv, TypeOK
<1>4. LedgerSound(call[c].ledger)'
  BY <1>3 DEF LedgerSound, SlotSound, Offers, Recorded, IsSpent, BlankSlot
<1>5. CallSound(c)'
  BY <1>3, <1>4, BoundAssumption DEF CallSound, TypeInv, TypeOK, Times
<1>6. reservations <= reservations'
  BY BoundAssumption DEF RecoverBegins, SafetyInv, TypeInv, TypeOK
<1> QED
  BY <1>1, <1>2, <1>5, <1>6, Assemble DEF RecoverBegins, OneCallAtATime

\* A closed account only takes a value away; a new one holds a new value.
LEMMA SoundSends ==
  ASSUME SafetyInv, TypeInv', OneCallAtATime, NEW c \in Callers,
         CloseSends(c) \/ CreateSends(c)
  PROVE  SoundInv'
<1>1. /\ mem' = mem /\ disk' = disk /\ clock' = clock /\ signed' = signed
      /\ landed' = landed /\ returns' = returns
      /\ reservations' = reservations
  BY DEF CloseSends, CreateSends
<1>2. \A s \in Slots : nonce[s] \in Nat
  BY BoundAssumption DEF SafetyInv, TypeInv, TypeOK, Values
<1>3. \A x \in signed : /\ x.slot \in Slots /\ x.value \in Nat
                        /\ x.value <= nonce[x.slot]
  BY BoundAssumption
     DEF SafetyInv, SoundInv, History, TypeInv, TypeOK, Signings, Values
<1>4. CreateSends(c) => \A x \in signed : x.value < nonce'[x.slot]
  BY <1>2, <1>3 DEF CreateSends
<1>5. MovesOn
  <2>1. CASE CloseSends(c)
    BY <2>1, StandsStill DEF CloseSends
  <2>2. CASE CreateSends(c)
    BY <2>2, <1>1, <1>2, <1>4, BoundAssumption
       DEF CreateSends, MovesOn, SignedOn, SafetyInv, TypeInv, TypeOK, Times
  <2> QED
    BY <2>1, <2>2
<1>6. CallSound(c)'
  <2>1. CASE CloseSends(c)
    <3>1. /\ call'[c].phase = "sent" /\ call'[c].op = "close"
          /\ call'[c].now = call[c].now /\ call[c].now <= clock
      BY <2>1, CalledType
         DEF CloseSends, SafetyInv, SoundInv, CallSound, TypeInv, TypeOK, Calls
    <3> QED
      BY <3>1, <1>1 DEF CallSound
  <2>2. CASE CreateSends(c)
    <3>1. /\ call'[c].phase = "sent" /\ call'[c].op = "create"
          /\ call'[c].now = 0
      BY <2>2 DEF CreateSends, Idle, SafetyInv, TypeInv, TypeOK
    <3>2. 0 <= clock'
      BY BoundAssumption DEF TypeInv, TypeOK, Times
    <3> QED
      BY <2>2, <3>1, <3>2, <1>1, <1>4 DEF CallSound
  <2> QED
    BY <2>1, <2>2
<1>7. /\ mem' # NULL => LedgerSound(mem)'
      /\ disk' # NULL => LedgerSound(disk)'
  BY <1>1, <1>5, MemoryStaysSound
<1>8. reservations <= reservations'
  BY <1>1, BoundAssumption DEF SafetyInv, TypeInv, TypeOK
<1> QED
  BY <1>1, <1>5, <1>6, <1>7, <1>8, Assemble DEF OneCallAtATime

LEMMA SoundLoad ==
  ASSUME SafetyInv, TypeInv', OneCallAtATime, Load
  PROVE  SoundInv'
<1>1. MovesOn
  BY StandsStill DEF Load
<1>2. /\ mem' # NULL => LedgerSound(mem)'
      /\ disk' # NULL => LedgerSound(disk)'
  BY <1>1, MemoryStaysSound DEF Load
<1>3. reservations <= reservations'
  BY BoundAssumption DEF Load, SafetyInv, TypeInv, TypeOK
<1>4. ASSUME NEW c \in Callers PROVE CallSound(c)'
  <2>1. call[c].phase # "writing"
    BY NullAssumption DEF Load, SafetyInv, TypeInv, CallShape
  <2> QED
    BY <2>1, <1>1, <1>3, CallStaysSound DEF Load
<1> QED
  BY <1>1, <1>2, <1>3, <1>4, Assemble DEF Load

LEMMA SoundEnvironment ==
  ASSUME SafetyInv, TypeInv', OneCallAtATime, Environment
  PROVE  SoundInv'
<1>1. CASE Tick
  <2>1. MovesOn
    BY <1>1, BoundAssumption
       DEF Tick, MovesOn, SafetyInv, TypeInv, TypeOK, Times, Values
  <2>2. /\ mem' # NULL => LedgerSound(mem)'
        /\ disk' # NULL => LedgerSound(disk)'
    BY <1>1, <2>1, MemoryStaysSound DEF Tick
  <2>3. reservations <= reservations'
    BY <1>1, BoundAssumption DEF Tick, SafetyInv, TypeInv, TypeOK
  <2>4. \A c \in Callers : CallSound(c)'
    BY <1>1, <2>1, <2>3, CallStaysSound DEF Tick
  <2> QED
    BY <1>1, <2>1, <2>2, <2>3, <2>4, Assemble DEF Tick
<1>2. ASSUME NEW x \in signed, PaymentLands(x)
      PROVE  SoundInv'
  <2>1. \A s \in Slots : /\ nonce[s] \in Nat /\ nonce'[s] \in Nat
                         /\ nonce[s] <= nonce'[s]
    BY <1>2, BoundAssumption
       DEF PaymentLands, SafetyInv, TypeInv, TypeOK, Values
  <2>2. x.slot \in Slots /\ x.value < nonce'[x.slot]
    BY <1>2, BoundAssumption
       DEF PaymentLands, SafetyInv, TypeInv, TypeOK, Signings, Values
  <2>3. /\ mem' = mem /\ disk' = disk /\ clock' = clock /\ signed' = signed
        /\ returns' = returns /\ reservations' = reservations
        /\ call' = call /\ live' = live /\ landed' = landed \cup {x}
    BY <1>2 DEF PaymentLands
  <2>4. MovesOn
    BY <2>1, <2>3, BoundAssumption
       DEF MovesOn, SafetyInv, TypeInv, TypeOK, Times
  <2>5. /\ mem' # NULL => LedgerSound(mem)'
        /\ disk' # NULL => LedgerSound(disk)'
    BY <2>3, <2>4, MemoryStaysSound
  <2>6. \A c \in Callers : CallSound(c)'
    <3>1. reservations <= reservations'
      BY <2>3, BoundAssumption DEF SafetyInv, TypeInv, TypeOK
    <3> QED
      BY <2>3, <2>4, <3>1, CallStaysSound
  <2>7. History'
    <3>1. \A z \in signed : z.slot \in Slots /\ z.value \in Nat
      BY BoundAssumption DEF SafetyInv, TypeInv, TypeOK, Signings, Values
    <3>2. \A r \in returns : r.slot \in Slots /\ r.value \in Nat
      BY BoundAssumption DEF SafetyInv, TypeInv, TypeOK, Returns, Values
    <3>3. landed \subseteq signed
      BY DEF SafetyInv, TypeInv, TypeOK
    <3> QED
      BY <2>1, <2>2, <2>3, <3>1, <3>2, <3>3 DEF SafetyInv, SoundInv, History
  <2>8. NoDoubleSign'
    BY <2>3 DEF NoDoubleSign, SafetyInv, SoundInv
  <2> QED
    BY <2>5, <2>6, <2>7, <2>8 DEF SoundInv
<1>3. ASSUME NEW x \in signed, MerchantReturns(x)
      PROVE  SoundInv'
  <2> DEFINE r == [slot |-> x.slot, value |-> nonce[x.slot],
                   against |-> x.value, merchant |-> x.merchant]
  <2>1. /\ mem' = mem /\ disk' = disk /\ clock' = clock /\ signed' = signed
        /\ landed' = landed /\ reservations' = reservations /\ call' = call
        /\ nonce' = nonce /\ live' = live /\ returns' = returns \cup {r}
    BY <1>3 DEF MerchantReturns
  <2>2. MovesOn
    BY <2>1, StandsStill
  <2>3. /\ mem' # NULL => LedgerSound(mem)'
        /\ disk' # NULL => LedgerSound(disk)'
    BY <2>1, <2>2, MemoryStaysSound
  <2>4. \A c \in Callers : CallSound(c)'
    <3>1. reservations <= reservations'
      BY <2>1, BoundAssumption DEF SafetyInv, TypeInv, TypeOK
    <3> QED
      BY <2>1, <2>2, <3>1, CallStaysSound
  <2>5. r.against < r.value /\ r.value <= nonce[r.slot]
    <3>1. x.value < nonce[x.slot] /\ x.slot \in Slots
      BY <1>3 DEF MerchantReturns, SafetyInv, SoundInv, History, TypeInv,
                  TypeOK, Signings
    <3>2. nonce[x.slot] \in Nat
      BY <3>1, BoundAssumption DEF SafetyInv, TypeInv, TypeOK, Values
    <3> QED
      BY <3>1, <3>2
  <2>6. History'
    BY <2>1, <2>5 DEF SafetyInv, SoundInv, History
  <2>7. NoDoubleSign'
    BY <2>1 DEF NoDoubleSign, SafetyInv, SoundInv
  <2> QED
    BY <2>3, <2>4, <2>6, <2>7 DEF SoundInv
<1>4. CASE Crash \/ StorageLost
  <2>1. MovesOn
    BY <1>4, StandsStill DEF Crash, StorageLost
  <2>2. mem' = NULL /\ (disk' = disk \/ disk' = NULL)
    BY <1>4 DEF Crash, StorageLost
  <2>3. disk' # NULL => LedgerSound(disk)'
    BY <2>1, <2>2, MemoryStaysSound
  <2>4. \A c \in Callers : CallSound(c)'
    BY <1>4, BoundAssumption
       DEF Crash, StorageLost, CallSound, Idle, TypeInv, TypeOK, Times
  <2>5. reservations <= reservations'
    BY <1>4, BoundAssumption
       DEF Crash, StorageLost, SafetyInv, TypeInv, TypeOK
  <2> QED
    BY <1>4, <2>1, <2>2, <2>3, <2>4, <2>5, Assemble DEF Crash, StorageLost
<1> QED
  BY <1>1, <1>2, <1>3, <1>4 DEF Environment

LEMMA SafetyInit == Init => SafetyInv
<1> SUFFICES ASSUME Init PROVE SafetyInv
  OBVIOUS
<1>1. \A c \in Callers : CallSound(c)
  BY BoundAssumption DEF Init, Idle, CallSound
<1>2. History /\ NoDoubleSign /\ mem = NULL /\ disk = NULL
  BY DEF Init, History, NoDoubleSign
<1> QED
  BY <1>1, <1>2, TypeInit DEF SafetyInv, SoundInv

LEMMA SafetyStep ==
  ASSUME OneCallAtATime, CommitOnResolve = TRUE, SafetyInv, [Next]_vars
  PROVE  SafetyInv'
<1>1. TypeInv'
  BY TypeStep DEF SafetyInv
<1>2. CASE Load
  BY <1>1, <1>2, SoundLoad DEF SafetyInv
<1>3. CASE Environment
  BY <1>1, <1>3, SoundEnvironment DEF SafetyInv
<1>4. ASSUME NEW c \in Callers, CallStep(c)
      PROVE  SoundInv'
  <2>1. ASSUME \/ ReserveRefused(c) \/ ReturnRefused(c)
               \/ RecoverFindsNothing(c) \/ WriteFails(c) \/ RpcFails(c)
        PROVE  SoundInv'
    <3>1. /\ call' = [call EXCEPT ![c] = Idle] /\ mem' = mem /\ disk' = disk
          /\ clock' = clock /\ signed' = signed /\ nonce' = nonce
          /\ live' = live /\ landed' = landed /\ returns' = returns
          /\ reservations' = reservations
      BY <2>1 DEF ReserveRefused, ReturnRefused, RecoverFindsNothing,
                  WriteFails, RpcFails
    <3>2. MovesOn
      BY <3>1, StandsStill
    <3>3. disk' # NULL => LedgerSound(disk)'
      BY <3>1, <3>2, MemoryStaysSound, <1>1
    <3> QED
      BY <3>1, <3>2, <3>3, <1>1, SoundToIdle
  <2>2. ASSUME WriteLands(c)
        PROVE  SoundInv'
    <3>1. CASE call[c].signing = NULL
      BY <3>1, <2>2, <1>1, SoundWriteLands
    <3>2. CASE call[c].signing # NULL
      <4>1. call[c].op # "create"
        BY <3>2, <2>2 DEF WriteLands, SafetyInv, SoundInv, CallSound,
                          SigningSound
      <4> QED
        BY <3>2, <4>1, <2>2, <1>1, SoundSigns
    <3> QED
      BY <3>1, <3>2
  <2> QED
    BY <1>1, <1>4, <2>1, <2>2, SoundBegin, SoundReserve, SoundReturn,
       SoundReadSlot, SoundScanFinishes, SoundRecoverBegins, SoundSends,
       SoundCloseFinishes, SoundCreateFinishes
       DEF CallStep, Progress
<1>5. CASE UNCHANGED vars
  <2>1. MovesOn
    BY <1>5, StandsStill DEF vars
  <2>2. /\ mem' # NULL => LedgerSound(mem)'
        /\ disk' # NULL => LedgerSound(disk)'
    BY <1>1, <1>5, <2>1, MemoryStaysSound DEF vars
  <2>3. reservations <= reservations'
    BY <1>5, BoundAssumption DEF vars, SafetyInv, TypeInv, TypeOK
  <2>4. \A c \in Callers : CallSound(c)'
    BY <1>1, <1>5, <2>1, <2>3, CallStaysSound DEF vars
  <2> QED
    BY <1>1, <1>5, <2>1, <2>2, <2>3, <2>4, Assemble DEF vars, SafetyInv
<1> QED
  BY <1>1, <1>2, <1>3, <1>4, <1>5 DEF Next, SafetyInv

\* Whatever it reads, scans, crashes over, loses, closes, recovers or creates
\* again, the payer never signs two payments against one nonce value less than
\* a send window apart: for any pool, any number of payments and merchants and
\* all faults, if calls of the pool do not overlap and resolved writes survive.
THEOREM NeverDoubleSigns ==
  ASSUME OneCallAtATime, CommitOnResolve = TRUE
  PROVE  Spec => []NoDoubleSign
<1>1. SafetyInv => NoDoubleSign
  BY DEF SafetyInv, SoundInv
<1>2. SafetyInv /\ [Next]_vars => SafetyInv'
  BY SafetyStep
<1> QED
  BY <1>1, <1>2, SafetyInit, PTL DEF Spec

\* Under the same conditions neither the ledger in memory nor the stored one
\* ever offers a value with a payment against it younger than the window, so a
\* crash at any step of a call costs a slot and never a second signature.
THEOREM NeverOffersOutstanding ==
  ASSUME OneCallAtATime, CommitOnResolve = TRUE
  PROVE  Spec => []OutstandingNeverOffered
<1>1. SafetyInv => OutstandingNeverOffered
  <2> SUFFICES ASSUME SafetyInv,
                      NEW ledger \in {mem, disk} \ {NULL}, NEW x \in signed,
                      x.slot \in Usable(ledger),
                      ledger.slots[x.slot].value = x.value
               PROVE  ~(clock - x.at < SendWindow)
    BY DEF OutstandingNeverOffered
  <2>1. LedgerSound(ledger)
    BY DEF SafetyInv, SoundInv
  <2>2. x \in Signings /\ clock \in Nat
    BY BoundAssumption DEF SafetyInv, TypeInv, TypeOK, Times
  <2>3. x.slot \in Slots /\ x.at \in Nat
    BY <2>2, BoundAssumption DEF Signings, Times
  <2>4. clock - x.at >= SendWindow
    BY <2>1, <2>3
       DEF LedgerSound, SlotSound, Offers, Usable, SignedOn
  <2> QED
    BY <2>2, <2>3, <2>4, WindowAssumption
<1>2. SafetyInv /\ [Next]_vars => SafetyInv'
  BY SafetyStep
<1> QED
  BY <1>1, <1>2, SafetyInit, PTL DEF Spec
------------------------------------------------------------------------------
(***************************************************************************)
(* What a call's copy of the ledger has to do with the ledger in memory,   *)
(* and with the accounts on chain.  CopyInv, with SafetyInv, is what makes *)
(* it safe to persist a copy that was taken before so many awaits.         *)
(***************************************************************************)

\* `new` may take the place of `old`: a spent slot is armed again for cause.
Earned(s, old, new) ==
  (IsSpent(old) /\ new.state = "unspent") =>
    \/ nonce[s] > old.spentAgainst.value
    \/ clock - old.spentAgainst.at >= SendWindow /\ new.releasedAt # NULL

\* The copies of the calls that work on the ledger in memory.
CopyTracks(k) ==
  /\ (k.op \in {"reserve", "return"} /\ k.phase = "reading") =>
       mem # NULL /\ k.ledger = mem
  /\ (k.op \in {"refresh", "reconcile", "close"} /\ k.phase \in {"reading", "sent"}) =>
       /\ mem # NULL /\ k.ledger.spendLog = mem.spendLog
       /\ Listed(k.ledger) = Listed(mem)
       /\ \A s \in Slots :
            IF k.op = "reconcile"
            THEN /\ s \in k.todo => k.ledger.slots[s] = mem.slots[s]
                 /\ Earned(s, mem.slots[s], k.ledger.slots[s])
            ELSE k.ledger.slots[s].state = mem.slots[s].state

\* The calls that look for the accounts on chain find them all.
FindsAll(k) ==
  /\ (k.op = "recover" /\ k.phase = "reading") =>
       /\ Held = NULL /\ k.ledger \in Ledgers /\ k.ledger.spendLog = {}
       /\ Listed(k.ledger) \subseteq live
       /\ live \subseteq Listed(k.ledger) \cup k.todo
  /\ (k.op = "close" /\ k.phase = "reading") => live \subseteq k.found \cup k.todo
  /\ (k.op = "create" /\ k.phase = "sent") => CreateOffered

ListsAll(ledger) == Listed(ledger) = Slots /\ IsFiniteSet(ledger.spendLog)

CopyInv ==
  /\ live \in {{}, Slots}
  /\ mem # NULL => ListsAll(mem)
  /\ disk # NULL => ListsAll(disk)
  /\ \A c \in Callers : CopyTracks(call[c]) /\ FindsAll(call[c])

(***************************************************************************)
(* What is signed and what the spend logs count.  SpendInv needs that the  *)
(* stored ledger is never lost.                                            *)
(***************************************************************************)
Entry(x) == [n |-> x.n, at |-> x.at, amount |-> x.amount]

\* Every payment signed in the window that ends at `time` is in the log.
Covers(log, time) == \A x \in signed : x.at > time - SpendWindow => Entry(x) \in log

WithinLimit(log) == SumOfAmounts(log) <= SpendLimit

GoodLog(log) == Covers(log, clock) /\ WithinLimit(Counted(log, clock))

\* A reservation counts what was signed before it, and itself.
CallCounts(k) ==
  /\ (k.op = "reserve" /\ k.phase = "reading") =>
       Covers(k.ledger.spendLog, k.now) /\ \A x \in signed : x.at <= k.now
  /\ (k.phase = "writing" /\ k.signing # NULL) =>
       /\ Covers(k.ledger.spendLog, k.signing.at) /\ WithinLimit(k.ledger.spendLog)
       /\ Entry(k.signing) \in k.ledger.spendLog
       /\ \A x \in signed : x.at <= k.signing.at

SpendInv ==
  /\ IsFiniteSet(signed) /\ \A x, y \in signed : x.n = y.n => x = y
  /\ disk = NULL => signed = {}
  /\ mem # NULL => GoodLog(mem.spendLog)
  /\ disk # NULL => GoodLog(disk.spendLog)
  /\ \A c \in Callers : CallCounts(call[c])
------------------------------------------------------------------------------
(* What a call persists *)

\* A ledger that may take the place of the one in memory.
MayReplace(new) ==
  /\ ListsAll(new)
  /\ mem # NULL => /\ \A s \in Slots : Earned(s, mem.slots[s], new.slots[s])
                   /\ Counted(mem.spendLog, clock) \subseteq new.spendLog

LEMMA SameIsEarned ==
  ASSUME NEW s, NEW slot
  PROVE  Earned(s, slot, slot)
BY DEF Earned, IsSpent

LEMMA CountedLess ==
  ASSUME NEW log, NEW time
  PROVE  /\ Counted(log, time) \subseteq log
         /\ IsFiniteSet(log) => IsFiniteSet(Counted(log, time))
<1>1. Counted(log, time) \subseteq log
  BY DEF Counted
<1> QED BY <1>1, FS_Subset

\* reserveSlot marks one usable slot spent and logs the payment.
LEMMA Reserves ==
  ASSUME SafetyInv, NEW c \in Callers, NEW m \in Merchants, NEW a \in Amounts,
         ReserveSlot(c, m, a)
  PROVE  \E s \in Slots, ledger \in Ledgers, y \in Signings :
           /\ Persist(c, ledger, y)
           /\ ledger.slots[s].state = "spent"
           /\ \A t \in Slots : t # s => ledger.slots[t] = call[c].ledger.slots[t]
           /\ ledger.spendLog =
                Counted(call[c].ledger.spendLog, call[c].now) \cup {Entry(y)}
           /\ y.n = reservations + 1 /\ y.at = call[c].now /\ y.amount = a
<1> DEFINE k == call[c]
           n == reservations + 1
           log == Counted(k.ledger.spendLog, k.now)
                    \cup {[n |-> n, at |-> k.now, amount |-> a]}
<1>1. PICK s \in Slots :
        /\ Preferred(k.ledger, s)
        /\ LET value == k.ledger.slots[s].value
               spent == [k.ledger.slots[s] EXCEPT
                           !.state = "spent",
                           !.spentAgainst = [value |-> value, merchant |-> m,
                                             at |-> k.now]]
           IN  Persist(c, [WithSlot(k.ledger, s, spent) EXCEPT !.spendLog = log],
                       [n |-> n, slot |-> s, value |-> value, merchant |-> m,
                        at |-> k.now, amount |-> a])
  BY DEF ReserveSlot
<1> DEFINE value == k.ledger.slots[s].value
           spent == [k.ledger.slots[s] EXCEPT
                       !.state = "spent",
                       !.spentAgainst = [value |-> value, merchant |-> m,
                                         at |-> k.now]]
           ledger == [WithSlot(k.ledger, s, spent) EXCEPT !.spendLog = log]
           y == [n |-> n, slot |-> s, value |-> value, merchant |-> m,
                 at |-> k.now, amount |-> a]
<1>2. k \in Calls /\ k.ledger \in Ledgers /\ k.now \in Times
  BY CalledType DEF ReserveSlot, SafetyInv, TypeInv, CallShape, Calls
<1>3. n \in 1 .. MaxReservations /\ a \in Nat
  BY BoundAssumption, AmountAssumption DEF ReserveSlot, SafetyInv, TypeInv, TypeOK
<1>4. k.ledger.slots[s] \in PoolSlots /\ value \in Values
  <2>1. s \in Usable(k.ledger)
    BY <1>1 DEF Preferred, NeverReleased
  <2> QED BY <1>2, <2>1 DEF Usable, Ledgers, PoolSlots
<1>5. spent \in PoolSlots /\ spent.state = "spent"
  BY <1>2, <1>4 DEF PoolSlots, Records
<1>6. log \in SUBSET SpendEntries
  BY <1>2, <1>3 DEF SpendEntries, Counted, Ledgers
<1> HIDE DEF spent, log
<1>7. /\ ledger \in Ledgers /\ ledger.spendLog = log /\ ledger.slots[s] = spent
      /\ \A t \in Slots : t # s => ledger.slots[t] = k.ledger.slots[t]
  BY <1>2, <1>5, <1>6 DEF Ledgers, WithSlot
<1>8. y \in Signings
  BY <1>2, <1>3, <1>4 DEF Signings
<1>9. Persist(c, ledger, y)
  BY <1>1 DEF spent, log
<1>10. log = Counted(k.ledger.spendLog, k.now) \cup {Entry(y)}
       /\ y.n = reservations + 1 /\ y.at = k.now /\ y.amount = a
  BY DEF log, Entry
<1> HIDE DEF ledger, y
<1> QED BY <1>5, <1>7, <1>8, <1>9, <1>10

\* The allowance is counted from the device's clock, which only runs forward.
LEMMA CountedLater ==
  ASSUME NEW log \in SUBSET SpendEntries, NEW now \in Times, NEW later \in Times,
         now <= later
  PROVE  Counted(log, later) \subseteq Counted(log, now)
<1>1. \A e \in log : e.at \in Nat
  BY BoundAssumption DEF SpendEntries, Times
<1>2. now \in Nat /\ later \in Nat /\ SpendWindow \in Nat
  BY BoundAssumption, WindowAssumption DEF Times
<1> QED BY <1>1, <1>2 DEF Counted

LEMMA ReserveReplaces ==
  ASSUME SafetyInv, CopyInv, NEW c \in Callers, NEW m \in Merchants, NEW a \in Amounts,
         ReserveSlot(c, m, a)
  PROVE  \E ledger \in Ledgers, y \in Signings \cup {NULL} :
           Persist(c, ledger, y) /\ MayReplace(ledger)
<1>1. PICK s \in Slots, ledger \in Ledgers, y \in Signings :
           /\ Persist(c, ledger, y)
           /\ ledger.slots[s].state = "spent"
           /\ \A t \in Slots : t # s => ledger.slots[t] = call[c].ledger.slots[t]
           /\ ledger.spendLog =
                Counted(call[c].ledger.spendLog, call[c].now) \cup {Entry(y)}
  BY Reserves
<1>2. call[c].ledger = mem /\ mem # NULL /\ mem \in Ledgers /\ ListsAll(mem)
  BY DEF ReserveSlot, CopyInv, CopyTracks, SafetyInv, TypeInv, TypeOK
<1>3. ListsAll(ledger)
  <2>1. Listed(ledger) = Slots
    BY <1>1, <1>2 DEF Listed, ListsAll
  <2>2. IsFiniteSet(ledger.spendLog)
    BY <1>1, <1>2, CountedLess, FS_AddElement DEF ListsAll
  <2> QED BY <2>1, <2>2 DEF ListsAll
<1>4. ASSUME NEW t \in Slots PROVE Earned(t, mem.slots[t], ledger.slots[t])
  <2>1. CASE t = s
    BY <1>1, <2>1 DEF Earned
  <2>2. CASE t # s
    BY <1>1, <1>2, <2>2, SameIsEarned
  <2> QED BY <2>1, <2>2
<1>5. Counted(mem.spendLog, clock) \subseteq ledger.spendLog
  <2>1. /\ call[c].now \in Times /\ clock \in Times /\ call[c].now <= clock
        /\ mem.spendLog \in SUBSET SpendEntries
    BY <1>2, CalledType
       DEF SafetyInv, SoundInv, CallSound, TypeInv, TypeOK, Calls, Ledgers
  <2>2. Counted(mem.spendLog, clock) \subseteq Counted(mem.spendLog, call[c].now)
    BY <2>1, CountedLater
  <2> QED BY <1>1, <1>2, <2>2
<1> QED BY <1>1, <1>3, <1>4, <1>5 DEF MayReplace

LEMMA ReturnReplaces ==
  ASSUME SafetyInv, CopyInv, NEW c \in Callers, ApplyNonceReturn(c)
  PROVE  \E ledger \in Ledgers, y \in Signings \cup {NULL} :
           Persist(c, ledger, y) /\ MayReplace(ledger)
<1>1. PICK r \in returns :
        /\ Trusted(r, call[c].ledger.slots[r.slot])
        /\ Persist(c, WithSlot(call[c].ledger, r.slot,
                               Rearmed(r.value, "unspent", NULL)), NULL)
  BY DEF ApplyNonceReturn
<1> DEFINE new == Rearmed(r.value, "unspent", NULL)
           ledger == WithSlot(mem, r.slot, new)
<1>2. call[c].ledger = mem /\ mem # NULL /\ mem \in Ledgers /\ ListsAll(mem)
  BY DEF ApplyNonceReturn, CopyInv, CopyTracks, SafetyInv, TypeInv, TypeOK
<1>3. /\ r.slot \in Slots /\ r.value \in Values /\ r.against \in Nat /\ r.value \in Nat
      /\ r.against < r.value /\ r.value <= nonce[r.slot] /\ nonce[r.slot] \in Nat
  BY BoundAssumption
     DEF SafetyInv, SoundInv, History, TypeInv, TypeOK, Returns, Values
<1>4. new \in PoolSlots /\ new.state = "unspent"
  BY <1>3, RearmedType DEF Rearmed
<1> HIDE DEF new
<1>5. /\ ledger \in Ledgers /\ ledger.spendLog = mem.spendLog
      /\ ledger.slots[r.slot] = new
      /\ \A t \in Slots : t # r.slot => ledger.slots[t] = mem.slots[t]
  BY <1>2, <1>3, <1>4, WithSlotType DEF WithSlot, Ledgers
<1>6. Persist(c, ledger, NULL)
  BY <1>1, <1>2 DEF new
<1> HIDE DEF ledger
<1>7. ListsAll(ledger)
  BY <1>2, <1>4, <1>5 DEF ListsAll, Listed
<1>8. ASSUME NEW t \in Slots PROVE Earned(t, mem.slots[t], ledger.slots[t])
  <2>1. CASE t = r.slot
    <3>1. nonce[t] > mem.slots[t].spentAgainst.value
      BY <1>1, <1>2, <1>3, <2>1 DEF Trusted
    <3> QED BY <3>1 DEF Earned
  <2>2. CASE t # r.slot
    BY <1>5, <2>2, SameIsEarned
  <2> QED BY <2>1, <2>2
<1>9. Counted(mem.spendLog, clock) \subseteq ledger.spendLog
  BY <1>5, CountedLess
<1> QED BY <1>5, <1>6, <1>7, <1>8, <1>9 DEF MayReplace

LEMMA ScanReplaces ==
  ASSUME SafetyInv, CopyInv, NEW c \in Callers, ScanFinishes(c)
  PROVE  \E ledger \in Ledgers, y \in Signings \cup {NULL} :
           Persist(c, ledger, y) /\ MayReplace(ledger)
<1>1. /\ Persist(c, call[c].ledger, NULL) /\ call[c].ledger \in Ledgers
      /\ call[c].op \in {"refresh", "reconcile"}
  BY DEF ScanFinishes, SafetyInv, TypeInv, CallShape
<1>2. /\ mem # NULL /\ ListsAll(mem) /\ call[c].ledger.spendLog = mem.spendLog
      /\ Listed(call[c].ledger) = Listed(mem)
      /\ \A s \in Slots :
            IF call[c].op = "reconcile"
            THEN Earned(s, mem.slots[s], call[c].ledger.slots[s])
            ELSE call[c].ledger.slots[s].state = mem.slots[s].state
  BY DEF ScanFinishes, CopyInv, CopyTracks
<1>3. \A s \in Slots : Earned(s, mem.slots[s], call[c].ledger.slots[s])
  BY <1>2 DEF Earned, IsSpent
<1>4. MayReplace(call[c].ledger)
  BY <1>2, <1>3, CountedLess DEF MayReplace, ListsAll
<1> QED BY <1>1, <1>4

LEMMA HeldType ==
  ASSUME SafetyInv, CopyInv
  PROVE  /\ Held # NULL => Held \in Ledgers /\ ListsAll(Held)
         /\ IsFiniteSet(PriorSpendLog) /\ PriorSpendLog \in SUBSET SpendEntries
         /\ mem # NULL => PriorSpendLog = mem.spendLog
<1>1. Held # NULL => Held \in Ledgers /\ ListsAll(Held)
  BY DEF Held, SafetyInv, TypeInv, TypeOK, CopyInv
<1>2. IsFiniteSet(PriorSpendLog)
  BY <1>1, FS_EmptySet DEF PriorSpendLog, ListsAll
<1>3. mem # NULL => PriorSpendLog = mem.spendLog
  BY DEF PriorSpendLog, Held
<1> QED BY <1>1, <1>2, <1>3, PriorSpendLogType DEF SafetyInv, TypeInv

\* recover, close and create: every slot is listed, none of them is re-armed.
LEMMA NewLedgerReplaces ==
  ASSUME SafetyInv, CopyInv, NEW c \in Callers,
         RecoverFinishes(c) \/ CloseFinishes(c) \/ CreateFinishes(c)
  PROVE  \E ledger \in Ledgers, y \in Signings \cup {NULL} :
           Persist(c, ledger, y) /\ MayReplace(ledger)
<1>0. CopyTracks(call[c]) /\ FindsAll(call[c]) /\ live \in {{}, Slots}
  BY DEF CopyInv
<1>1. CASE RecoverFinishes(c)
  <2> DEFINE ledger == [call[c].ledger EXCEPT !.spendLog = PriorSpendLog]
  <2>1. Persist(c, ledger, NULL) /\ Listed(call[c].ledger) # {}
    BY <1>1 DEF RecoverFinishes
  <2>2. /\ call[c].ledger \in Ledgers /\ Held = NULL
        /\ Listed(call[c].ledger) = live
    BY <1>0, <1>1 DEF RecoverFinishes, FindsAll
  <2>3. /\ ledger \in Ledgers /\ ledger.slots = call[c].ledger.slots
        /\ ledger.spendLog = PriorSpendLog
    BY <2>2, HeldType DEF Ledgers
  <2> HIDE DEF ledger
  <2>4. ListsAll(ledger)
    BY <1>0, <2>1, <2>2, <2>3, HeldType DEF ListsAll, Listed
  <2>5. mem = NULL
    BY <2>2 DEF Held
  <2> QED BY <2>1, <2>3, <2>4, <2>5 DEF MayReplace
<1>2. CASE CloseFinishes(c)
  <2> DEFINE slots == [s \in Slots |-> IF s \in Listed(call[c].ledger)
                                       THEN Rearmed(NULL, "unknown", NULL)
                                       ELSE call[c].ledger.slots[s]]
             ledger == [call[c].ledger EXCEPT !.slots = slots]
  <2>1. Persist(c, ledger, NULL)
    BY <1>2 DEF CloseFinishes
  <2>2. /\ call[c].ledger \in Ledgers /\ mem # NULL /\ ListsAll(mem)
        /\ call[c].ledger.spendLog = mem.spendLog /\ Listed(call[c].ledger) = Listed(mem)
    BY <1>0, <1>2 DEF CloseFinishes, CopyTracks, CopyInv, SafetyInv, TypeInv, CallShape
  <2>3. /\ slots \in [Slots -> PoolSlots]
        /\ \A s \in Slots : slots[s].state = "unknown"
    BY <2>2, RearmedType DEF Rearmed, ListsAll
  <2> HIDE DEF slots
  <2>4. ledger \in Ledgers /\ ledger.slots = slots /\ ledger.spendLog = mem.spendLog
    BY <2>2, <2>3 DEF Ledgers
  <2> HIDE DEF ledger
  <2>5. ListsAll(ledger)
    BY <2>2, <2>3, <2>4 DEF ListsAll, Listed
  <2>6. \A s \in Slots : Earned(s, mem.slots[s], ledger.slots[s])
    BY <2>3, <2>4 DEF Earned
  <2> QED BY <2>1, <2>4, <2>5, <2>6, CountedLess DEF MayReplace
<1>3. CASE CreateFinishes(c)
  <2> DEFINE new == Rearmed(NULL, "unspent", NULL)
             ledger == [slots |-> [s \in Slots |-> new], spendLog |-> PriorSpendLog]
  <2>1. Persist(c, ledger, NULL)
    BY <1>3 DEF CreateFinishes
  <2>2. new \in PoolSlots /\ new.state = "unspent"
    BY RearmedType DEF Rearmed
  <2> HIDE DEF new
  <2>3. /\ ledger \in Ledgers /\ ledger.spendLog = PriorSpendLog
        /\ \A s \in Slots : ledger.slots[s] = new
    BY <2>2, HeldType DEF Ledgers
  <2> HIDE DEF ledger
  <2>4. ListsAll(ledger)
    BY <2>2, <2>3, HeldType DEF ListsAll, Listed
  <2>5. CreateOffered
    BY <1>0, <1>3 DEF CreateFinishes, FindsAll
  <2>6. ASSUME mem # NULL, NEW s \in Slots
        PROVE  Earned(s, mem.slots[s], ledger.slots[s])
    <3>1. mem.slots[s].state = "unknown"
      BY <2>5, <2>6 DEF CreateOffered, Held, CopyInv, ListsAll
    <3> QED BY <3>1 DEF Earned, IsSpent
  <2>7. mem # NULL => Counted(mem.spendLog, clock) \subseteq ledger.spendLog
    BY <2>3, HeldType, CountedLess
  <2> QED BY <2>1, <2>3, <2>4, <2>6, <2>7 DEF MayReplace
<1> QED BY <1>1, <1>2, <1>3

Persists(c) ==
  \/ \E m \in Merchants, a \in Amounts : ReserveSlot(c, m, a)
  \/ ApplyNonceReturn(c) \/ ScanFinishes(c)
  \/ RecoverFinishes(c) \/ CloseFinishes(c) \/ CreateFinishes(c)

\* Whatever a call persists may take the place of the ledger in memory.
LEMMA PersistsReplaces ==
  ASSUME SafetyInv, CopyInv, NEW c \in Callers, Persists(c)
  PROVE  /\ \E ledger \in Ledgers, y \in Signings \cup {NULL} :
              Persist(c, ledger, y) /\ MayReplace(ledger)
         /\ UNCHANGED <<nonce, live, clock, disk, signed, landed, returns>>
<1>1. UNCHANGED <<nonce, live, clock, disk, signed, landed, returns>>
  BY DEF Persists, ReserveSlot, ApplyNonceReturn, ScanFinishes, RecoverFinishes,
         CloseFinishes, CreateFinishes
<1> QED BY <1>1, ReserveReplaces, ReturnReplaces, ScanReplaces, NewLedgerReplaces
           DEF Persists
------------------------------------------------------------------------------
(* CopyInv *)

LEMMA CopyAssemble ==
  ASSUME OneCallAtATime, live' \in {{}, Slots},
         mem' # NULL => ListsAll(mem)', disk' # NULL => ListsAll(disk)',
         NEW c \in Callers, CopyTracks(call[c])', FindsAll(call[c])'
  PROVE  CopyInv'
BY DEF OneCallAtATime, CopyInv

LEMMA CopyIdle ==
  ASSUME OneCallAtATime, SafetyInv, CopyInv, NEW c \in Callers,
         call' = [call EXCEPT ![c] = Idle], mem' = mem, live' = live,
         disk' = disk \/ disk' = mem
  PROVE  CopyInv'
<1>1. call'[c] = Idle
  BY DEF SafetyInv, TypeInv, TypeOK
<1>2. CopyTracks(call[c])' /\ FindsAll(call[c])'
  BY <1>1 DEF CopyTracks, FindsAll, Idle
<1>3. (mem' # NULL => ListsAll(mem)') /\ (disk' # NULL => ListsAll(disk)')
  BY DEF CopyInv, ListsAll, Listed
<1> QED BY <1>2, <1>3, CopyAssemble DEF CopyInv

LEMMA CopyPersist ==
  ASSUME OneCallAtATime, SafetyInv, CopyInv, NEW c \in Callers, Persists(c)
  PROVE  CopyInv'
<1>1. PICK ledger \in Ledgers, y \in Signings \cup {NULL} :
             Persist(c, ledger, y) /\ MayReplace(ledger)
  BY PersistsReplaces
<1>2. call'[c].phase = "writing" /\ mem' = ledger
  BY <1>1, PersistType DEF SafetyInv, Persist
<1>3. CopyTracks(call[c])' /\ FindsAll(call[c])'
  BY <1>2 DEF CopyTracks, FindsAll
<1>4. ListsAll(mem)' /\ (disk' # NULL => ListsAll(disk)') /\ live' = live
  BY <1>1, <1>2, PersistsReplaces DEF CopyInv, MayReplace, ListsAll, Listed
<1> QED BY <1>3, <1>4, CopyAssemble DEF CopyInv

\* A call that begins to read a copy of the ledger in memory.
LEMMA CopyReads ==
  ASSUME OneCallAtATime, SafetyInv, CopyInv, NEW c \in Callers,
         NEW op \in {"reserve", "return", "refresh", "reconcile", "close"},
         mem \in Ledgers, mem # NULL,
         call' = [call EXCEPT ![c] = Reading(op, mem)], mem' = mem, live' = live,
         disk' = disk \/ disk' = mem
  PROVE  CopyInv'
<1>1. /\ call'[c].op = op /\ call'[c].phase = "reading" /\ call'[c].ledger = mem
      /\ call'[c].todo = ToRead(op, mem) /\ call'[c].found = {}
  <2>1. clock \in Times
    BY DEF SafetyInv, TypeInv, TypeOK
  <2>2. Reading(op, mem).found = {}
    BY DEF Reading, Idle
  <2> QED BY <2>1, <2>2, ReadingType DEF SafetyInv, TypeInv, TypeOK
<1>2. ListsAll(mem)
  BY DEF CopyInv
<1>3. CopyTracks(call[c])'
  BY <1>1, SameIsEarned DEF CopyTracks, Earned, IsSpent, Listed
<1>4. FindsAll(call[c])'
  BY <1>1, <1>2 DEF FindsAll, ToRead, ListsAll, CopyInv
<1>5. (mem' # NULL => ListsAll(mem)') /\ (disk' # NULL => ListsAll(disk)')
  BY DEF CopyInv, ListsAll, Listed
<1> QED BY <1>3, <1>4, <1>5, CopyAssemble DEF CopyInv

LEMMA CopyWriteLands ==
  ASSUME OneCallAtATime, CommitOnResolve = TRUE, SafetyInv, CopyInv,
         NEW c \in Callers, WriteLands(c)
  PROVE  CopyInv'
<1>1. call[c].ledger = mem /\ mem \in Ledgers /\ mem # NULL
  BY NullAssumption
     DEF WriteLands, SafetyInv, SoundInv, TypeInv, CallShape, CallSound
<1>2. disk' = mem /\ mem' = mem /\ live' = live
  BY <1>1 DEF WriteLands
<1>3. CASE call[c].op = "create"
  BY <1>1, <1>2, <1>3, CopyReads DEF WriteLands
<1>4. CASE call[c].op # "create"
  BY <1>1, <1>2, <1>4, CopyIdle DEF WriteLands
<1> QED BY <1>3, <1>4

LEMMA CopyOthers ==
  ASSUME OneCallAtATime, SafetyInv, CopyInv, NEW c \in Callers,
         RecoverBegins(c) \/ CreateSends(c) \/ CloseSends(c)
  PROVE  CopyInv'
<1>0. call \in [Callers -> Calls] /\ call[c] \in Calls
  BY DEF SafetyInv, TypeInv, TypeOK
<1>1. mem' = mem /\ disk' = disk
  BY DEF RecoverBegins, CreateSends, CloseSends
<1>2. (mem' # NULL => ListsAll(mem)') /\ (disk' # NULL => ListsAll(disk)')
  BY <1>1 DEF CopyInv, ListsAll, Listed
<1>3. CASE RecoverBegins(c)
  <2> DEFINE blank == [slots |-> [s \in Slots |-> BlankSlot], spendLog |-> {}]
  <2>1. /\ call'[c].op = "recover" /\ call'[c].phase = "reading"
        /\ call'[c].ledger = blank /\ call'[c].todo = Slots
        /\ Held = NULL /\ live' = live /\ live \subseteq Slots
    BY <1>0, <1>3 DEF RecoverBegins, Idle, SafetyInv, TypeInv, TypeOK
  <2>2. blank \in Ledgers /\ Listed(blank) = {} /\ blank.spendLog = {}
    BY DEF Ledgers, BlankSlot, PoolSlots, Listed
  <2> HIDE DEF blank
  <2>3. CopyTracks(call[c])'
    BY <2>1 DEF CopyTracks
  <2>4. FindsAll(call[c])'
    BY <1>1, <2>1, <2>2 DEF FindsAll, Held, Listed
  <2> QED BY <1>2, <2>1, <2>3, <2>4, CopyAssemble DEF CopyInv
<1>4. CASE CreateSends(c)
  <2>1. /\ call'[c].op = "create" /\ call'[c].phase = "sent" /\ live' = Slots
        /\ CreateOffered
    BY <1>0, <1>4 DEF CreateSends, Idle
  <2>2. CopyTracks(call[c])' /\ FindsAll(call[c])'
    BY <1>1, <2>1 DEF CopyTracks, FindsAll, CreateOffered, Held, Listed
  <2> QED BY <1>2, <2>1, <2>2, CopyAssemble
<1>5. CASE CloseSends(c)
  <2>1. /\ call'[c].op = "close" /\ call'[c].phase = "sent"
        /\ call'[c].ledger = call[c].ledger
    BY <1>0, <1>5 DEF CloseSends, Calls
  <2>2. live' = {}
    BY <1>5 DEF CloseSends, CopyInv, FindsAll
  <2>3. CopyTracks(call[c])
    BY DEF CopyInv
  <2>4. CopyTracks(call[c])'
    BY <1>1, <1>5, <2>1, <2>3 DEF CopyTracks, CloseSends, Listed
  <2>5. FindsAll(call[c])'
    BY <2>1 DEF FindsAll
  <2> QED BY <1>2, <2>2, <2>4, <2>5, CopyAssemble
<1> QED BY <1>3, <1>4, <1>5

LEMMA CopyReadSlot ==
  ASSUME OneCallAtATime, SafetyInv, CopyInv, NEW c \in Callers, ReadSlot(c)
  PROVE  CopyInv'
<1>1. PICK s \in call[c].todo : call' = [call EXCEPT ![c] = AfterRead(call[c], s)]
  BY DEF ReadSlot
<1>2. /\ mem' = mem /\ disk' = disk /\ live' = live /\ nonce' = nonce /\ clock' = clock
  BY DEF ReadSlot
<1>0. PICK k, n : k = call[c] /\ n = AfterRead(call[c], s)
  OBVIOUS
<1>3. /\ k \in Calls /\ k.phase = "reading" /\ k.ledger \in Ledgers
      /\ s \in Slots /\ s \in k.todo
  BY <1>0, <1>1, CalledType DEF ReadSlot, SafetyInv, TypeInv, CallShape, Calls
<1>4. /\ n \in Calls /\ n.ledger \in Ledgers /\ n.phase = "reading" /\ n.op = k.op
      /\ n.todo = k.todo \ {s} /\ call'[c] = n
  <2>1. call[c].phase = "reading" /\ s \in call[c].todo
    BY DEF ReadSlot
  <2> QED BY <1>0, <1>1, <2>1, AfterReadType DEF SafetyInv, TypeInv, TypeOK
<1>5. CopyTracks(k) /\ FindsAll(k) /\ CallSound(c)
  BY <1>0 DEF CopyInv, SafetyInv, SoundInv
<1>6. (mem' # NULL => ListsAll(mem)') /\ (disk' # NULL => ListsAll(disk)')
  BY <1>2 DEF CopyInv, ListsAll, Listed
<1>7. SUFFICES CopyTracks(n)' /\ FindsAll(n)'
  BY <1>2, <1>4, <1>6, CopyAssemble DEF CopyInv
<1>8. CASE k.op = "refresh"
  <2> DEFINE new == [k.ledger.slots[s] EXCEPT !.value = ReadValue(s)]
  <2>1. n.ledger = WithSlot(k.ledger, s, new)
    BY <1>0, <1>3, <1>8 DEF AfterRead, Calls
  <2>2. new.state = k.ledger.slots[s].state
    BY <1>3 DEF Ledgers, PoolSlots
  <2> HIDE DEF new
  <2>3. /\ n.ledger.spendLog = k.ledger.spendLog
        /\ \A t \in Slots : n.ledger.slots[t].state = k.ledger.slots[t].state
    BY <1>3, <2>1, <2>2 DEF WithSlot, Ledgers
  <2>4. CopyTracks(n)
    BY <1>3, <1>4, <1>5, <1>8, <2>3 DEF CopyTracks, Listed
  <2>5. CopyTracks(n)'
    BY <1>2, <1>4, <1>8, <2>4 DEF CopyTracks, Listed
  <2> QED BY <1>4, <1>8, <2>5 DEF FindsAll
<1>9. CASE k.op = "reconcile"
  <2> DEFINE old == k.ledger.slots[s]
             value == ReadValue(s)
  <2>0. PICK new : new = Reconciled(old, value, k.now)
    OBVIOUS
  <2>1. n.ledger = WithSlot(k.ledger, s, new)
    BY <1>0, <1>3, <1>9, <2>0 DEF AfterRead, Calls
  <2>2. /\ mem # NULL /\ k.ledger.spendLog = mem.spendLog
        /\ Listed(k.ledger) = Listed(mem) /\ old = mem.slots[s] /\ IsSpent(old)
        /\ SlotSound(s, old) /\ k.now <= clock
    BY <1>0, <1>3, <1>5, <1>9 DEF CopyTracks, CallSound, LedgerSound
  <2>3. /\ old.spentAgainst.value \in Nat /\ old.spentAgainst.at \in Nat
        /\ old.spentAgainst.value <= nonce[s]
        /\ k.now \in Nat /\ clock \in Nat /\ k.now # NULL /\ nonce[s] \in Nat
        /\ SendWindow \in Nat
    <3>1. old \in PoolSlots
      BY <1>3 DEF Ledgers
    <3>2. old.spentAgainst \in Records
      BY <2>2, <3>1 DEF PoolSlots, IsSpent
    <3> QED BY <1>3, <2>2, <3>2, BoundAssumption, WindowAssumption, NullAssumption
            DEF SlotSound, Recorded, Records, Calls, SafetyInv, TypeInv, TypeOK,
                Values, Times
  <2>4. Earned(s, old, new) /\ new.state # "unlisted"
    <3>1. CASE value = NULL
      <4>1. new.state = "unknown"
        BY <2>0, <3>1 DEF Reconciled, Rearmed
      <4> QED BY <4>1 DEF Earned
    <3>2. CASE value # NULL /\ value # old.spentAgainst.value
      <4>1. new.state = "unspent"
        BY <2>0, <3>2 DEF Reconciled, Rearmed
      <4>2. value = nonce[s]
        BY <3>2 DEF ReadValue
      <4>3. nonce[s] > old.spentAgainst.value
        BY <2>3, <3>2, <4>2
      <4> QED BY <4>1, <4>3 DEF Earned
    <3>3. CASE value # NULL /\ value = old.spentAgainst.value
               /\ k.now - old.spentAgainst.at >= SendWindow
      <4>1. new.state = "unspent" /\ new.releasedAt = k.now
        BY <2>0, <3>3 DEF Reconciled, Rearmed
      <4>2. clock - old.spentAgainst.at >= SendWindow
        BY <2>2, <2>3, <3>3
      <4> QED BY <2>3, <4>1, <4>2 DEF Earned
    <3>4. CASE value # NULL /\ value = old.spentAgainst.value
               /\ ~(k.now - old.spentAgainst.at >= SendWindow)
      <4>1. new = old
        BY <2>0, <3>4 DEF Reconciled
      <4> QED BY <2>2, <4>1, SameIsEarned DEF IsSpent
    <3> QED BY <3>1, <3>2, <3>3, <3>4
  <2>5. /\ n.ledger.spendLog = k.ledger.spendLog /\ n.ledger.slots[s] = new
        /\ \A t \in Slots : t # s => n.ledger.slots[t] = k.ledger.slots[t]
    BY <1>3, <2>1 DEF WithSlot, Ledgers
  <2>6. s \in Listed(k.ledger)
    BY <1>3, <2>2 DEF Listed, IsSpent
  <2>7. Listed(n.ledger) = Listed(k.ledger)
    BY <2>4, <2>5, <2>6 DEF Listed
  <2>8. CopyTracks(n)
    BY <1>4, <1>5, <1>9, <1>3, <2>2, <2>4, <2>5, <2>7 DEF CopyTracks
  <2>9. CopyTracks(n)'
    BY <1>2, <1>4, <1>9, <2>8 DEF CopyTracks, Listed, Earned, IsSpent
  <2> QED BY <1>4, <1>9, <2>9 DEF FindsAll
<1>10. CASE k.op = "recover"
  <2>1. /\ Held = NULL /\ k.ledger.spendLog = {}
        /\ Listed(k.ledger) \subseteq live /\ live \subseteq Listed(k.ledger) \cup k.todo
    BY <1>3, <1>5, <1>10 DEF FindsAll
  <2>2. /\ n.ledger.spendLog = {} /\ Listed(n.ledger) \subseteq live
        /\ live \subseteq Listed(n.ledger) \cup n.todo
    <3>1. CASE s \in live
      <4> DEFINE new == Rearmed(nonce[s], "unknown", NULL)
      <4>1. n.ledger = WithSlot(k.ledger, s, new)
        BY <1>0, <1>3, <1>10, <3>1 DEF AfterRead, Calls
      <4>2. new.state = "unknown"
        BY DEF Rearmed
      <4> HIDE DEF new
      <4>3. /\ n.ledger.spendLog = {} /\ n.ledger.slots[s] = new
            /\ \A t \in Slots : t # s => n.ledger.slots[t] = k.ledger.slots[t]
        BY <1>3, <2>1, <4>1 DEF WithSlot, Ledgers
      <4>4. Listed(n.ledger) = Listed(k.ledger) \cup {s}
        BY <1>3, <4>2, <4>3 DEF Listed
      <4> QED BY <1>4, <2>1, <3>1, <4>3, <4>4
    <3>2. CASE s \notin live
      <4>1. n.ledger = k.ledger
        BY <1>0, <1>3, <1>10, <3>2 DEF AfterRead, Calls
      <4> QED BY <1>4, <2>1, <3>2, <4>1
    <3> QED BY <3>1, <3>2
  <2>3. FindsAll(n)'
    BY <1>2, <1>4, <1>10, <2>1, <2>2 DEF FindsAll, Held, Listed
  <2> QED BY <1>4, <1>10, <2>3 DEF CopyTracks
<1>11. CASE k.op = "close"
  <2>1. n.ledger = k.ledger /\ n.found = IF s \in live THEN k.found \cup {s} ELSE k.found
    BY <1>0, <1>3, <1>11 DEF AfterRead, Calls
  <2>2. live \subseteq k.found \cup k.todo
    BY <1>3, <1>5, <1>11 DEF FindsAll
  <2>3. FindsAll(n)'
    BY <1>2, <1>4, <1>11, <2>1, <2>2 DEF FindsAll
  <2>4. CopyTracks(n)'
    BY <1>2, <1>3, <1>4, <1>5, <1>11, <2>1 DEF CopyTracks, Listed
  <2> QED BY <2>3, <2>4
<1>12. CASE k.op \notin {"refresh", "reconcile", "recover", "close"}
  <2>1. n.ledger = k.ledger
    BY <1>0, <1>3, <1>12 DEF AfterRead, Calls
  <2>2. CopyTracks(n)'
    BY <1>2, <1>3, <1>4, <1>5, <1>12, <2>1 DEF CopyTracks
  <2>3. FindsAll(n)'
    BY <1>4, <1>12 DEF FindsAll
  <2> QED BY <2>2, <2>3
<1> QED BY <1>8, <1>9, <1>10, <1>11, <1>12

\* The chain, the merchants and the clock only add to what re-arms a slot.
LEMMA CopySurroundings ==
  ASSUME OneCallAtATime, SafetyInv, TypeInv', CopyInv,
         call' = call, mem' = mem, disk' = disk, live' = live,
         clock <= clock', \A s \in Slots : nonce[s] <= nonce'[s]
  PROVE  CopyInv'
<1>1. (mem' # NULL => ListsAll(mem)') /\ (disk' # NULL => ListsAll(disk)')
  BY DEF CopyInv, ListsAll, Listed
<1>2. ASSUME NEW c \in Callers
      PROVE  CopyTracks(call[c])' /\ FindsAll(call[c])'
  <2>0. PICK k : k = call[c]
    OBVIOUS
  <2>1. CopyTracks(k) /\ FindsAll(k) /\ call'[c] = k
    BY <2>0 DEF CopyInv
  <2>2. ASSUME mem \in Ledgers, NEW s \in Slots, NEW new, Earned(s, mem.slots[s], new)
        PROVE  Earned(s, mem.slots[s], new)'
    <3>0. PICK old : old = mem.slots[s]
      OBVIOUS
    <3>1. SUFFICES ASSUME IsSpent(old), new.state = "unspent"
                   PROVE  \/ nonce'[s] > old.spentAgainst.value
                          \/ clock' - old.spentAgainst.at >= SendWindow
                             /\ new.releasedAt # NULL
      BY <3>0 DEF Earned, IsSpent
    <3>2. \/ nonce[s] > old.spentAgainst.value
          \/ clock - old.spentAgainst.at >= SendWindow /\ new.releasedAt # NULL
      BY <2>2, <3>0, <3>1 DEF Earned
    <3>3. old.spentAgainst \in Records
      BY <2>2, <3>0, <3>1 DEF Ledgers, PoolSlots, IsSpent
    <3>4. /\ old.spentAgainst.value \in Nat /\ old.spentAgainst.at \in Nat
          /\ clock \in Nat /\ clock' \in Nat /\ SendWindow \in Nat
          /\ nonce[s] \in Nat /\ nonce'[s] \in Nat /\ nonce[s] <= nonce'[s]
      BY <3>3, BoundAssumption, WindowAssumption
         DEF Records, Values, Times, SafetyInv, TypeInv, TypeOK
    <3> QED BY <3>2, <3>4
  <2>3. mem # NULL => mem \in Ledgers
    BY DEF SafetyInv, TypeInv, TypeOK
  <2>4. CopyTracks(k)'
    <3>1. (k.op \in {"reserve", "return"} /\ k.phase = "reading") =>
             mem' # NULL /\ k.ledger = mem'
      BY <2>1 DEF CopyTracks
    <3>2. ASSUME k.op \in {"refresh", "reconcile", "close"},
                 k.phase \in {"reading", "sent"}
          PROVE  /\ mem' # NULL /\ k.ledger.spendLog = mem'.spendLog
                 /\ Listed(k.ledger)' = Listed(mem)'
                 /\ \A s \in Slots :
                      IF k.op = "reconcile"
                      THEN /\ s \in k.todo => k.ledger.slots[s] = mem'.slots[s]
                           /\ Earned(s, mem.slots[s], k.ledger.slots[s])'
                      ELSE k.ledger.slots[s].state = mem'.slots[s].state
      <4>1. /\ mem # NULL /\ k.ledger.spendLog = mem.spendLog
            /\ Listed(k.ledger) = Listed(mem)
            /\ \A s \in Slots :
                 IF k.op = "reconcile"
                 THEN /\ s \in k.todo => k.ledger.slots[s] = mem.slots[s]
                      /\ Earned(s, mem.slots[s], k.ledger.slots[s])
                 ELSE k.ledger.slots[s].state = mem.slots[s].state
        BY <2>1, <3>2 DEF CopyTracks
      <4>2. Listed(k.ledger)' = Listed(mem)'
        BY <4>1 DEF Listed
      <4> QED BY <2>2, <2>3, <4>1, <4>2
    <3> QED BY <3>1, <3>2 DEF CopyTracks
  <2>5. FindsAll(k)'
    BY <2>1 DEF FindsAll, Held, Listed, CreateOffered
  <2> QED BY <2>1, <2>4, <2>5 DEF CopyTracks, FindsAll
<1> QED BY <1>1, <1>2 DEF CopyInv

LEMMA CopyLoad ==
  ASSUME OneCallAtATime, SafetyInv, CopyInv, Load
  PROVE  CopyInv'
<1>1. /\ mem = NULL /\ disk # NULL /\ mem' = disk /\ disk' = disk
      /\ call' = call /\ live' = live
  BY DEF Load
<1>2. ASSUME NEW c \in Callers
      PROVE  CopyTracks(call[c])' /\ FindsAll(call[c])'
  <2>0. PICK k : k = call[c]
    OBVIOUS
  <2>1. CopyTracks(k) /\ FindsAll(k) /\ call'[c] = k
    BY <1>1, <2>0 DEF CopyInv
  <2>2. Held' = Held /\ Held # NULL
    BY <1>1 DEF Held
  <2>3. CopyTracks(k)'
    BY <1>1, <2>1 DEF CopyTracks
  <2>4. FindsAll(k)'
    BY <1>1, <2>1, <2>2 DEF FindsAll, CreateOffered, Listed
  <2> QED BY <2>1, <2>3, <2>4 DEF CopyTracks, FindsAll
<1>3. (mem' # NULL => ListsAll(mem)') /\ (disk' # NULL => ListsAll(disk)')
  BY <1>1 DEF CopyInv, ListsAll, Listed
<1> QED BY <1>1, <1>2, <1>3 DEF CopyInv

LEMMA CopyEnvironment ==
  ASSUME OneCallAtATime, SafetyInv, TypeInv', CopyInv, Environment
  PROVE  CopyInv'
<1>0. /\ \A s \in Slots : nonce[s] \in Nat
      /\ clock \in Nat
  BY BoundAssumption DEF SafetyInv, TypeInv, TypeOK, Values, Times
<1>1. CASE Tick
  <2>1. /\ call' = call /\ mem' = mem /\ disk' = disk /\ live' = live
        /\ clock <= clock' /\ \A s \in Slots : nonce[s] <= nonce'[s]
    BY <1>0, <1>1 DEF Tick
  <2> QED BY <2>1, CopySurroundings
<1>2. ASSUME NEW x \in signed, PaymentLands(x) \/ MerchantReturns(x)
      PROVE  CopyInv'
  <2>1. nonce \in [Slots -> Values]
    BY DEF SafetyInv, TypeInv, TypeOK
  <2>2. /\ call' = call /\ mem' = mem /\ disk' = disk /\ live' = live
        /\ clock <= clock' /\ \A s \in Slots : nonce[s] <= nonce'[s]
    BY <1>0, <1>2, <2>1 DEF PaymentLands, MerchantReturns
  <2> QED BY <2>2, CopySurroundings
<1>3. CASE Crash \/ StorageLost
  <2>1. \A c \in Callers : CopyTracks(call[c])' /\ FindsAll(call[c])'
    BY <1>3 DEF Crash, StorageLost, CopyTracks, FindsAll, Idle
  <2>2. mem' = NULL /\ live' = live /\ (disk' = disk \/ disk' = NULL)
    BY <1>3 DEF Crash, StorageLost
  <2>3. disk' # NULL => ListsAll(disk)'
    BY <2>2 DEF CopyInv, ListsAll, Listed
  <2> QED BY <2>1, <2>2, <2>3 DEF CopyInv
<1> QED BY <1>1, <1>2, <1>3 DEF Environment

\* A call that throws, and one that is refused, leaves everything but itself.
Throws(c) ==
  \/ ReserveRefused(c) \/ ReturnRefused(c) \/ RecoverFindsNothing(c)
  \/ WriteFails(c) \/ RpcFails(c)

LEMMA ThrowsFrame ==
  ASSUME NEW c \in Callers, Throws(c)
  PROVE  /\ call' = [call EXCEPT ![c] = Idle]
         /\ UNCHANGED <<nonce, live, clock, disk, mem, signed, landed, returns,
                        reservations>>
BY DEF Throws, ReserveRefused, ReturnRefused, RecoverFindsNothing, WriteFails, RpcFails

LEMMA CallStepCases ==
  ASSUME NEW c \in Callers, CallStep(c)
  PROVE  \/ \E op \in {"reserve", "return", "refresh", "reconcile", "close"} : Begin(c, op)
         \/ Throws(c) \/ Persists(c) \/ WriteLands(c) \/ ReadSlot(c)
         \/ RecoverBegins(c) \/ CreateSends(c) \/ CloseSends(c)
BY DEF CallStep, Progress, Throws, Persists

LEMMA CopyStep ==
  ASSUME OneCallAtATime, CommitOnResolve = TRUE, SafetyInv, CopyInv, [Next]_vars
  PROVE  CopyInv'
<1>1. TypeInv'
  BY TypeStep DEF SafetyInv
<1>2. CASE Load
  BY <1>2, CopyLoad
<1>3. CASE Environment
  BY <1>1, <1>3, CopyEnvironment
<1>4. ASSUME NEW c \in Callers, CallStep(c)
      PROVE  CopyInv'
  <2>1. ASSUME NEW op \in {"reserve", "return", "refresh", "reconcile", "close"},
               Begin(c, op)
        PROVE  CopyInv'
    <3>1. mem \in Ledgers /\ mem # NULL
      BY <2>1 DEF Begin, SafetyInv, TypeInv, TypeOK
    <3> QED BY <2>1, <3>1, CopyReads DEF Begin
  <2>2. CASE Throws(c)
    BY <2>2, ThrowsFrame, CopyIdle
  <2> QED BY <1>4, <2>1, <2>2, CallStepCases, CopyPersist, CopyWriteLands, CopyReadSlot,
             CopyOthers
<1>5. CASE UNCHANGED vars
  <2>1. \A s \in Slots : nonce[s] \in Nat
    BY BoundAssumption DEF SafetyInv, TypeInv, TypeOK, Values
  <2>2. clock \in Nat
    BY BoundAssumption DEF SafetyInv, TypeInv, TypeOK, Times
  <2>3. /\ call' = call /\ mem' = mem /\ disk' = disk /\ live' = live
        /\ clock <= clock' /\ \A s \in Slots : nonce[s] <= nonce'[s]
    BY <1>5, <2>1, <2>2 DEF vars
  <2> QED BY <1>1, <2>3, CopySurroundings
<1> QED BY <1>2, <1>3, <1>4, <1>5 DEF Next

LEMMA CopyInit == Init => CopyInv
BY DEF Init, CopyInv, CopyTracks, FindsAll, Idle

LEMMA CopyHolds ==
  ASSUME OneCallAtATime, CommitOnResolve = TRUE
  PROVE  Spec => [](SafetyInv /\ CopyInv)
<1>1. SafetyInv /\ CopyInv /\ [Next]_vars => (SafetyInv /\ CopyInv)'
  BY SafetyStep, CopyStep
<1> QED BY <1>1, SafetyInit, CopyInit, PTL DEF Spec

\* A ledger never hides a funded account from close: in every state between two
\* calls the accounts on chain are listed in the ledger the device would load,
\* over crashes, lost ledgers and failed calls (pool.ts, close and recover).
THEOREM DepositsStayListed ==
  ASSUME OneCallAtATime, CommitOnResolve = TRUE
  PROVE  Spec => []NoDepositForgotten
<1>1. SafetyInv /\ CopyInv => NoDepositForgotten
  BY DEF CopyInv, ListsAll, NoDepositForgotten, Held, SafetyInv, TypeInv, TypeOK
<1> QED BY <1>1, CopyHolds, PTL
------------------------------------------------------------------------------
(* What a step does to the ledger in memory *)

\* A step of a page that keeps running leaves the ledger in memory alone, or
\* persists one that may take its place.
LEMMA MemoryStep ==
  ASSUME SafetyInv, CopyInv, [Next]_vars, mem # NULL, mem' # NULL
  PROVE  mem' = mem \/ (MayReplace(mem') /\ UNCHANGED <<clock, nonce, live>>)
<1>1. CASE Load \/ Environment
  BY <1>1 DEF Load, Environment, Tick, PaymentLands, MerchantReturns, Crash, StorageLost
<1>2. ASSUME NEW c \in Callers, CallStep(c)
      PROVE  mem' = mem \/ (MayReplace(mem') /\ UNCHANGED <<clock, nonce, live>>)
  <2>1. CASE Persists(c)
    <3>1. PICK ledger \in Ledgers, y \in Signings \cup {NULL} :
                 Persist(c, ledger, y) /\ MayReplace(ledger)
      BY <2>1, PersistsReplaces
    <3>2. mem' = ledger
      BY <3>1 DEF Persist
    <3> QED BY <2>1, <3>1, <3>2, PersistsReplaces
  <2>2. CASE Throws(c)
    BY <2>2, ThrowsFrame
  <2> QED BY <1>2, <2>1, <2>2, CallStepCases
          DEF Begin, WriteLands, ReadSlot, RecoverBegins, CreateSends, CloseSends
<1>3. CASE UNCHANGED vars
  BY <1>3 DEF vars
<1> QED BY <1>1, <1>2, <1>3 DEF Next

\* The spend logs are finite, so their totals are numbers and grow with them.
LEMMA SumMonotone ==
  ASSUME NEW small, NEW large \in SUBSET SpendEntries, IsFiniteSet(large),
         small \subseteq large
  PROVE  /\ SumOfAmounts(small) \in Nat /\ SumOfAmounts(large) \in Nat
         /\ SumOfAmounts(small) <= SumOfAmounts(large)
<1> DEFINE less == [e \in small |-> e.amount]
           more == [e \in large |-> e.amount]
<1>1. \A e \in large : e.amount \in Nat
  BY AmountAssumption DEF SpendEntries
<1>2. less \in [small -> Nat] /\ more \in [large -> Nat]
  BY <1>1
<1>3. \A e \in small : less[e] <= more[e]
  BY <1>1
<1>4. IsFiniteSet(small)
  BY FS_Subset
<1> HIDE DEF less, more
<1>5. Total(less) \in Nat /\ Total(more) \in Nat /\ Total(less) <= Total(more)
  BY <1>2, <1>3, <1>4, TotalType, TotalMonotone
<1> QED BY <1>5 DEF SumOfAmounts, less, more

LEMMA RemainingShrinks ==
  ASSUME NEW old \in SUBSET SpendEntries, NEW new \in SUBSET SpendEntries,
         IsFiniteSet(new), NEW time \in Times, Counted(old, time) \subseteq new
  PROVE  Remaining(new, time) <= Remaining(old, time)
<1>1. Counted(old, time) \subseteq Counted(new, time)
  BY DEF Counted
<1>2. Counted(new, time) \in SUBSET SpendEntries /\ IsFiniteSet(Counted(new, time))
  BY CountedLess
<1>3. PICK less, more : /\ less = SumOfAmounts(Counted(old, time))
                        /\ more = SumOfAmounts(Counted(new, time))
  OBVIOUS
<1>4. less \in Nat /\ more \in Nat /\ less <= more /\ SpendLimit \in Nat
  BY <1>1, <1>2, <1>3, SumMonotone, AmountAssumption
<1>5. /\ Remaining(new, time) = IF more >= SpendLimit THEN 0 ELSE SpendLimit - more
      /\ Remaining(old, time) = IF less >= SpendLimit THEN 0 ELSE SpendLimit - less
  BY <1>3 DEF Remaining
<1> QED BY <1>4, <1>5

\* A spent slot becomes usable again only because every payment against its
\* recorded value is dead on chain, or because the send window is over and the
\* slot is marked as released (applyNonceReturn, reconcile, create): persisting
\* a copy that was taken before several awaits re-arms no other slot.
THEOREM RearmingIsEarned ==
  ASSUME OneCallAtATime, CommitOnResolve = TRUE
  PROVE  Spec => RearmIsEarned
<1>1. SafetyInv /\ CopyInv /\ [Next]_vars =>
        ((mem # NULL /\ mem' # NULL) =>
          \A s \in Slots :
            LET old == mem.slots[s]
                new == mem'.slots[s]
            IN  (IsSpent(old) /\ new.state = "unspent") =>
                  \/ s \notin live \/ nonce[s] # old.spentAgainst.value
                  \/ /\ clock - old.spentAgainst.at >= SendWindow
                     /\ new.releasedAt # NULL)
  <2> SUFFICES ASSUME SafetyInv, CopyInv, [Next]_vars, mem # NULL, mem' # NULL,
                      NEW s \in Slots,
                      IsSpent(mem.slots[s]), mem'.slots[s].state = "unspent"
               PROVE  \/ nonce[s] # mem.slots[s].spentAgainst.value
                      \/ /\ clock - mem.slots[s].spentAgainst.at >= SendWindow
                         /\ mem'.slots[s].releasedAt # NULL
    OBVIOUS
  <2>1. mem' # mem
    BY DEF IsSpent
  <2>2. Earned(s, mem.slots[s], mem'.slots[s])
    BY <2>1, MemoryStep DEF MayReplace
  <2>3. nonce[s] > mem.slots[s].spentAgainst.value =>
          nonce[s] # mem.slots[s].spentAgainst.value
    <3>1. mem.slots[s].spentAgainst.value \in Nat /\ nonce[s] \in Nat
      BY BoundAssumption
         DEF SafetyInv, TypeInv, TypeOK, Ledgers, PoolSlots, IsSpent, Records, Values
    <3> QED BY <3>1
  <2> QED BY <2>2, <2>3 DEF Earned
<1> QED BY <1>1, CopyHolds, PTL DEF Spec, RearmIsEarned

\* Nothing gives allowance back except time: no step of a running device, of the
\* chain or of a merchant raises what may still be signed (T12).
THEOREM OnlyTimeGivesBack ==
  ASSUME OneCallAtATime, CommitOnResolve = TRUE
  PROVE  Spec => OnlyTimeRefills
<1>1. SafetyInv /\ CopyInv /\ (SafetyInv /\ CopyInv)' /\ [Next]_vars =>
        ((clock' = clock /\ mem # NULL /\ mem' # NULL)
           => Remaining(mem'.spendLog, clock) <= Remaining(mem.spendLog, clock))
  <2> SUFFICES ASSUME SafetyInv, CopyInv, SafetyInv', CopyInv', [Next]_vars,
                      mem # NULL, mem' # NULL
               PROVE  Remaining(mem'.spendLog, clock) <= Remaining(mem.spendLog, clock)
    OBVIOUS
  <2>1. /\ mem.spendLog \in SUBSET SpendEntries /\ mem'.spendLog \in SUBSET SpendEntries
        /\ IsFiniteSet(mem'.spendLog) /\ clock \in Times
    BY DEF SafetyInv, TypeInv, TypeOK, Ledgers, CopyInv, ListsAll
  <2>2. Counted(mem.spendLog, clock) \subseteq mem'.spendLog
    BY MemoryStep, CountedLess DEF MayReplace
  <2> QED BY <2>1, <2>2, RemainingShrinks
<1> QED BY <1>1, CopyHolds, PTL DEF Spec, OnlyTimeRefills
------------------------------------------------------------------------------
(* SpendInv *)

LEMMA EntryType ==
  ASSUME NEW x \in Signings
  PROVE  /\ Entry(x) \in SpendEntries /\ Entry(x).n = x.n
         /\ Entry(x).at = x.at /\ Entry(x).amount = x.amount
         /\ x.at \in Nat /\ x.amount \in Nat /\ x.n \in Nat /\ x.at \in Times
<1>1. x.n \in 1 .. MaxReservations /\ x.at \in Times /\ x.amount \in Amounts
  BY DEF Signings
<1>2. x.at \in Nat /\ x.n \in Nat
  BY <1>1, BoundAssumption DEF Times
<1>3. x.amount \in Nat
  BY <1>1, AmountAssumption
<1> QED BY <1>1, <1>2, <1>3 DEF Entry, SpendEntries

\* Payments whose entries are in a log add up to no more than the log.
LEMMA SignedWithinLog ==
  ASSUME NEW S \in SUBSET Signings, IsFiniteSet(S),
         \A x, y \in S : x.n = y.n => x = y,
         NEW log \in SUBSET SpendEntries, IsFiniteSet(log),
         \A x \in S : Entry(x) \in log
  PROVE  SumOfAmounts(S) <= SumOfAmounts(log)
<1> DEFINE small == [x \in S |-> x.amount]
           large == [e \in log |-> e.amount]
           to == [x \in S |-> Entry(x)]
<1>1. /\ \A x \in S : x.amount \in Nat /\ Entry(x).n = x.n /\ Entry(x).amount = x.amount
      /\ \A e \in log : e.amount \in Nat
  BY EntryType, AmountAssumption DEF SpendEntries
<1>2. small \in [S -> Nat] /\ large \in [log -> Nat] /\ to \in [S -> log]
  BY <1>1
<1>3. \A x \in S : small[x] <= large[to[x]]
  BY <1>1
<1>4. ASSUME NEW x \in S, NEW y \in S, to[x] = to[y] PROVE x = y
  <2>1. Entry(x).n = x.n /\ Entry(y).n = y.n
    BY <1>1
  <2> QED BY <1>4, <2>1
<1> HIDE DEF small, large, to
<1>5. Total(small) <= Total(large)
  BY <1>2, <1>3, <1>4, TotalInjection
<1> QED BY <1>5 DEF SumOfAmounts, small, large

\* Time only takes payments out of the window.
LEMMA GoodLater ==
  ASSUME SafetyInv, TypeInv', signed' = signed, clock <= clock',
         NEW log \in SUBSET SpendEntries, IsFiniteSet(log), GoodLog(log)
  PROVE  GoodLog(log)'
<1>1. clock \in Times /\ clock' \in Times /\ signed \subseteq Signings
  BY DEF SafetyInv, TypeInv, TypeOK
<1>2. clock \in Nat /\ clock' \in Nat /\ SpendWindow \in Nat
  BY <1>1, BoundAssumption, WindowAssumption DEF Times
<1>3. Covers(log, clock)'
  <2> SUFFICES ASSUME NEW x \in signed, x.at > clock' - SpendWindow
               PROVE  Entry(x) \in log
    BY DEF Covers, Entry
  <2>1. x.at \in Nat
    BY <1>1, EntryType
  <2> QED BY <1>2, <2>1 DEF GoodLog, Covers
<1>4. WithinLimit(Counted(log, clock'))
  <2>1. Counted(log, clock') \subseteq Counted(log, clock)
    BY <1>1, CountedLater
  <2>2. /\ Counted(log, clock) \in SUBSET SpendEntries
        /\ IsFiniteSet(Counted(log, clock))
    BY CountedLess
  <2>3. PICK less, more : /\ less = SumOfAmounts(Counted(log, clock'))
                          /\ more = SumOfAmounts(Counted(log, clock))
    OBVIOUS
  <2>4. less \in Nat /\ more \in Nat /\ less <= more /\ SpendLimit \in Nat
    BY <2>1, <2>2, <2>3, SumMonotone, AmountAssumption
  <2>5. more <= SpendLimit
    BY <2>3 DEF GoodLog, WithinLimit
  <2> QED BY <2>3, <2>4, <2>5 DEF WithinLimit
<1> QED BY <1>3, <1>4 DEF GoodLog, WithinLimit, Counted, SumOfAmounts

\* The log an empty ledger starts with is as good as the one it succeeds.
LEMMA PriorIsGood ==
  ASSUME SafetyInv, CopyInv, SpendInv
  PROVE  GoodLog(PriorSpendLog)
<1>1. CASE Held # NULL
  BY <1>1 DEF Held, PriorSpendLog, SpendInv
<1>2. CASE Held = NULL
  <2>1. PriorSpendLog = {} /\ signed = {}
    BY <1>2 DEF Held, PriorSpendLog, SpendInv
  <2>2. Counted({}, clock) = {}
    BY DEF Counted
  <2>3. SumOfAmounts({}) = 0
    BY TotalOfNone DEF SumOfAmounts
  <2> QED BY <2>1, <2>2, <2>3, AmountAssumption DEF GoodLog, Covers, WithinLimit
<1> QED BY <1>1, <1>2

\* Every call but reserveSlot persists the spend log it found.
LEMMA PersistsLog ==
  ASSUME SafetyInv, CopyInv, NEW c \in Callers, Persists(c), call[c].op # "reserve"
  PROVE  \E ledger \in Ledgers : Persist(c, ledger, NULL)
                                 /\ ledger.spendLog = PriorSpendLog
<1>1. CASE ApplyNonceReturn(c)
  <2>1. PICK r \in returns :
          Persist(c, WithSlot(call[c].ledger, r.slot,
                              Rearmed(r.value, "unspent", NULL)), NULL)
    BY <1>1 DEF ApplyNonceReturn
  <2>2. call[c].ledger = mem /\ mem # NULL /\ mem \in Ledgers
    BY <1>1 DEF ApplyNonceReturn, CopyInv, CopyTracks, SafetyInv, TypeInv, TypeOK
  <2>3. r.slot \in Slots /\ r.value \in Values
    BY DEF SafetyInv, TypeInv, TypeOK, Returns
  <2>4. PICK new \in PoolSlots : new = Rearmed(r.value, "unspent", NULL)
    BY <2>3, RearmedType
  <2>5. /\ WithSlot(mem, r.slot, new) \in Ledgers
        /\ WithSlot(mem, r.slot, new).spendLog = mem.spendLog
    BY <2>2, <2>3, WithSlotType DEF WithSlot, Ledgers
  <2> QED BY <2>1, <2>2, <2>4, <2>5, HeldType
<1>2. CASE ScanFinishes(c)
  <2>1. /\ Persist(c, call[c].ledger, NULL) /\ call[c].ledger \in Ledgers
        /\ mem # NULL /\ call[c].ledger.spendLog = mem.spendLog
    BY <1>2 DEF ScanFinishes, SafetyInv, TypeInv, CallShape, CopyInv, CopyTracks
  <2> QED BY <2>1, HeldType
<1>3. CASE RecoverFinishes(c)
  <2>1. /\ Persist(c, [call[c].ledger EXCEPT !.spendLog = PriorSpendLog], NULL)
        /\ call[c].ledger \in Ledgers
    BY <1>3 DEF RecoverFinishes, CopyInv, FindsAll
  <2>2. /\ [call[c].ledger EXCEPT !.spendLog = PriorSpendLog] \in Ledgers
        /\ [call[c].ledger EXCEPT !.spendLog = PriorSpendLog].spendLog = PriorSpendLog
    BY <2>1, HeldType DEF Ledgers
  <2> QED BY <2>1, <2>2
<1>4. CASE CloseFinishes(c)
  <2> DEFINE slots == [s \in Slots |-> IF s \in Listed(call[c].ledger)
                                       THEN Rearmed(NULL, "unknown", NULL)
                                       ELSE call[c].ledger.slots[s]]
  <2>1. /\ Persist(c, [call[c].ledger EXCEPT !.slots = slots], NULL)
        /\ call[c].ledger \in Ledgers /\ mem # NULL
        /\ call[c].ledger.spendLog = mem.spendLog
    BY <1>4 DEF CloseFinishes, SafetyInv, TypeInv, CallShape, CopyInv, CopyTracks
  <2>2. slots \in [Slots -> PoolSlots]
    BY <2>1, RearmedType DEF Ledgers
  <2> HIDE DEF slots
  <2>3. /\ [call[c].ledger EXCEPT !.slots = slots] \in Ledgers
        /\ [call[c].ledger EXCEPT !.slots = slots].spendLog = mem.spendLog
    BY <2>1, <2>2 DEF Ledgers
  <2> QED BY <2>1, <2>3, HeldType
<1>5. CASE CreateFinishes(c)
  <2> DEFINE slots == [s \in Slots |-> Rearmed(NULL, "unspent", NULL)]
             ledger == [slots |-> slots, spendLog |-> PriorSpendLog]
  <2>1. Persist(c, ledger, NULL)
    BY <1>5 DEF CreateFinishes
  <2>2. slots \in [Slots -> PoolSlots]
    BY RearmedType
  <2> HIDE DEF slots
  <2>3. ledger \in Ledgers /\ ledger.spendLog = PriorSpendLog
    BY <2>2, HeldType DEF Ledgers
  <2> QED BY <2>1, <2>3
<1>6. ~ \E m \in Merchants, a \in Amounts : ReserveSlot(c, m, a)
  BY DEF ReserveSlot
<1> QED BY <1>1, <1>2, <1>3, <1>4, <1>5, <1>6 DEF Persists

\* A step that signs nothing, and leaves memory holding one of the two ledgers.
LEMMA SpendFrame ==
  ASSUME SafetyInv, TypeInv', CopyInv, SpendInv,
         signed' = signed, clock <= clock',
         mem' \in {mem, disk, NULL}, disk' \in {disk, mem}, disk' = NULL => disk = NULL,
         \A c \in Callers : CallCounts(call[c])'
  PROVE  SpendInv'
<1>1. ASSUME NEW ledger \in {mem, disk}, ledger # NULL
      PROVE  GoodLog(ledger.spendLog)'
  <2>1. PICK log : log = ledger.spendLog
    OBVIOUS
  <2>2. log \in SUBSET SpendEntries /\ IsFiniteSet(log) /\ GoodLog(log)
    BY <1>1, <2>1 DEF SafetyInv, TypeInv, TypeOK, Ledgers, CopyInv, ListsAll, SpendInv
  <2>3. GoodLog(log)'
    BY <2>2, GoodLater
  <2> QED BY <2>1, <2>3 DEF GoodLog, Covers, WithinLimit, Counted, SumOfAmounts
<1>2. PICK m, d : m = mem' /\ d = disk'
  OBVIOUS
<1>3. m # NULL => GoodLog(m.spendLog)'
  BY <1>1, <1>2
<1>4. d # NULL => GoodLog(d.spendLog)'
  BY <1>1, <1>2
<1>5. (mem # NULL => GoodLog(mem.spendLog))' /\ (disk # NULL => GoodLog(disk.spendLog))'
  BY <1>2, <1>3, <1>4 DEF GoodLog, Covers, WithinLimit, Counted, SumOfAmounts
<1> QED BY <1>5 DEF SpendInv

LEMMA CountsStay ==
  ASSUME SpendInv, signed' = signed, NEW c \in Callers, call'[c] = call[c]
  PROVE  CallCounts(call[c])'
BY DEF SpendInv, CallCounts, Covers, WithinLimit, Entry, SumOfAmounts

\* A reservation persists a log that counts it: everything signed in the window
\* that ends with it, and itself, within the limit.
LEMMA ReserveCounts ==
  ASSUME SafetyInv, CopyInv, SpendInv,
         NEW c \in Callers, NEW m \in Merchants, NEW a \in Amounts,
         ReserveSlot(c, m, a)
  PROVE  \E ledger \in Ledgers, y \in Signings :
           /\ Persist(c, ledger, y)
           /\ Covers(ledger.spendLog, y.at) /\ WithinLimit(ledger.spendLog)
           /\ Entry(y) \in ledger.spendLog
           /\ \A x \in signed : x.at <= y.at
           /\ GoodLog(ledger.spendLog)
<1> DEFINE k == call[c]
           counted == Counted(k.ledger.spendLog, k.now)
<1>1. PICK s \in Slots, ledger \in Ledgers, y \in Signings :
           /\ Persist(c, ledger, y)
           /\ ledger.spendLog = counted \cup {Entry(y)}
           /\ y.at = k.now /\ y.amount = a
  BY Reserves
<1>2. PICK log : log = ledger.spendLog
  OBVIOUS
<1>3. /\ k.ledger = mem /\ mem \in Ledgers /\ IsFiniteSet(mem.spendLog)
      /\ Covers(mem.spendLog, k.now) /\ \A x \in signed : x.at <= k.now
      /\ k.now \in Times /\ k.now <= clock /\ clock \in Times
      /\ signed \subseteq Signings
  BY CalledType DEF ReserveSlot, SafetyInv, TypeInv, TypeOK, SoundInv, CallSound,
                    CopyInv, CopyTracks, ListsAll, SpendInv, CallCounts, Calls
<1>4. k.now \in Nat /\ clock \in Nat /\ SpendWindow \in Nat
  BY <1>3, BoundAssumption, WindowAssumption DEF Times
<1>5. /\ counted \in SUBSET SpendEntries /\ IsFiniteSet(counted)
      /\ log \in SUBSET SpendEntries /\ IsFiniteSet(log)
  <2>1. mem.spendLog \in SUBSET SpendEntries
    BY <1>3 DEF Ledgers
  <2>2. counted \in SUBSET SpendEntries /\ IsFiniteSet(counted)
    BY <1>3, <2>1, CountedLess
  <2>3. log \in SUBSET SpendEntries
    BY <1>2 DEF Ledgers
  <2> QED BY <1>1, <1>2, <2>2, <2>3, FS_AddElement
<1>6. Covers(log, k.now)
  <2> SUFFICES ASSUME NEW x \in signed, x.at > k.now - SpendWindow
               PROVE  Entry(x) \in log
    BY DEF Covers
  <2>1. Entry(x) \in mem.spendLog /\ Entry(x).at = x.at
    BY <1>3, EntryType DEF Covers
  <2> QED BY <1>1, <1>2, <1>3, <2>1 DEF Counted
<1>7. PICK spent, total : spent = SumOfAmounts(counted) /\ total = SumOfAmounts(log)
  OBVIOUS
<1>8. spent \in Nat /\ total \in Nat /\ a \in Nat /\ SpendLimit \in Nat
  BY <1>5, <1>7, SumMonotone, AmountAssumption
<1>9. spent + a <= SpendLimit
  <2>1. a > 0 /\ a <= Remaining(k.ledger.spendLog, k.now)
    BY DEF ReserveSlot
  <2>2. Remaining(k.ledger.spendLog, k.now) =
          IF spent >= SpendLimit THEN 0 ELSE SpendLimit - spent
    BY <1>7 DEF Remaining
  <2> QED BY <1>8, <2>1, <2>2
<1>10. total <= spent + a
  <2>1. CASE Entry(y) \in counted
    <3>1. log = counted
      BY <1>1, <1>2, <2>1
    <3> QED BY <1>7, <1>8, <3>1
  <2>2. CASE Entry(y) \notin counted
    <3> DEFINE old == [e \in counted |-> e.amount]
               new == [e \in log |-> e.amount]
    <3>1. \A e \in SpendEntries : e.amount \in Nat
      BY AmountAssumption DEF SpendEntries
    <3>2. old \in [counted -> Nat] /\ new \in [log -> Nat]
      BY <1>5, <3>1
    <3>3. log = counted \cup {Entry(y)} /\ Entry(y) \in log /\ Entry(y).amount = a
      BY <1>1, <1>2, EntryType
    <3>4. (\A e \in counted : new[e] = old[e]) /\ new[Entry(y)] = a
      BY <3>3
    <3> HIDE DEF old, new, counted
    <3>5. Total(new) = Total(old) + new[Entry(y)]
      BY <1>5, <2>2, <3>2, <3>3, <3>4, TotalWithOneMore
    <3>6. total = Total(new) /\ spent = Total(old)
      BY <1>7 DEF SumOfAmounts, old, new
    <3> QED BY <1>8, <3>4, <3>5, <3>6
  <2> QED BY <2>1, <2>2
<1>11. WithinLimit(log)
  BY <1>7, <1>8, <1>9, <1>10 DEF WithinLimit
<1>12. Covers(log, clock)
  <2> SUFFICES ASSUME NEW x \in signed, x.at > clock - SpendWindow
               PROVE  Entry(x) \in log
    BY DEF Covers
  <2>1. x.at \in Nat
    BY <1>3, EntryType
  <2> QED BY <1>3, <1>4, <1>6, <2>1 DEF Covers
<1>13. WithinLimit(Counted(log, clock))
  <2>1. Counted(log, clock) \subseteq log
    BY CountedLess
  <2>2. PICK less : less = SumOfAmounts(Counted(log, clock))
    OBVIOUS
  <2>3. less \in Nat /\ less <= total
    BY <1>5, <1>7, <2>1, <2>2, SumMonotone
  <2> QED BY <1>7, <1>8, <1>11, <2>2, <2>3 DEF WithinLimit
<1>14. GoodLog(log)
  BY <1>12, <1>13 DEF GoodLog
<1> QED BY <1>1, <1>2, <1>3, <1>6, <1>11, <1>14

LEMMA SpendPersist ==
  ASSUME OneCallAtATime, SafetyInv, TypeInv', CopyInv, SpendInv,
         NEW c \in Callers, Persists(c)
  PROVE  SpendInv'
<1>0. UNCHANGED <<clock, disk, signed>>
  BY PersistsReplaces
<1>1. \E ledger \in Ledgers, y \in Signings \cup {NULL} :
        /\ Persist(c, ledger, y)
        /\ GoodLog(ledger.spendLog)
        /\ y # NULL => /\ Covers(ledger.spendLog, y.at) /\ WithinLimit(ledger.spendLog)
                       /\ Entry(y) \in ledger.spendLog
                       /\ \A x \in signed : x.at <= y.at
  <2>1. CASE call[c].op # "reserve"
    BY <2>1, PersistsLog, PriorIsGood
  <2>2. CASE call[c].op = "reserve"
    <3>1. \E m \in Merchants, a \in Amounts : ReserveSlot(c, m, a)
      BY <2>2 DEF Persists, ApplyNonceReturn, ScanFinishes, RecoverFinishes,
                  CloseFinishes, CreateFinishes
    <3> QED BY <3>1, ReserveCounts
  <2> QED BY <2>1, <2>2
<1>2. PICK ledger \in Ledgers, y \in Signings \cup {NULL} :
        /\ Persist(c, ledger, y)
        /\ GoodLog(ledger.spendLog)
        /\ y # NULL => /\ Covers(ledger.spendLog, y.at) /\ WithinLimit(ledger.spendLog)
                       /\ Entry(y) \in ledger.spendLog
                       /\ \A x \in signed : x.at <= y.at
  BY <1>1
<1>3. /\ mem' = ledger /\ call'[c].phase = "writing" /\ call'[c].ledger = ledger
      /\ call'[c].signing = y
  <2>1. Persist(c, ledger, y) /\ TypeInv
    BY <1>2 DEF SafetyInv
  <2>2. mem' = ledger
    BY <2>1 DEF Persist
  <2> QED BY <2>1, <2>2, PersistType
<1>4. CallCounts(call[c])'
  BY <1>0, <1>2, <1>3 DEF CallCounts, Covers, WithinLimit, Entry, SumOfAmounts
<1>5. (mem # NULL => GoodLog(mem.spendLog))' /\ (disk # NULL => GoodLog(disk.spendLog))'
  BY <1>0, <1>2, <1>3
     DEF SpendInv, GoodLog, Covers, WithinLimit, Entry, Counted, SumOfAmounts
<1>6. \A d \in Callers : CallCounts(call[d])'
  BY <1>4 DEF OneCallAtATime
<1> QED BY <1>0, <1>5, <1>6 DEF SpendInv

\* The write that signs: the log in memory, which it stores, counts the payment.
LEMMA SpendWriteLands ==
  ASSUME OneCallAtATime, CommitOnResolve = TRUE, SafetyInv, TypeInv', CopyInv, SpendInv,
         NEW c \in Callers, WriteLands(c)
  PROVE  SpendInv'
<1>0. PICK k : k = call[c]
  OBVIOUS
<1>1. /\ k.ledger = mem /\ mem \in Ledgers /\ mem # NULL /\ k.phase = "writing"
      /\ SigningSound(k) /\ CallCounts(k) /\ k \in Calls
  BY <1>0, NullAssumption, CalledType
     DEF WriteLands, SafetyInv, SoundInv, TypeInv, CallShape, CallSound, SpendInv
<1>2. /\ disk' = mem /\ mem' = mem /\ clock' = clock
      /\ signed' = IF k.signing = NULL THEN signed ELSE signed \cup {k.signing}
  BY <1>0, <1>1 DEF WriteLands
<1>3. CallCounts(call[c])'
  <2>1. clock \in Times /\ call \in [Callers -> Calls]
    BY DEF SafetyInv, TypeInv, TypeOK
  <2>2. call'[c].op # "reserve" /\ call'[c].phase # "writing"
    <3>1. CASE k.op = "create"
      <4>1. call'[c] = Reading("refresh", mem)
        BY <1>0, <2>1, <3>1 DEF WriteLands
      <4> QED BY <1>1, <2>1, <4>1, ReadingType
    <3>2. CASE k.op # "create"
      <4>1. call'[c] = Idle
        BY <1>0, <2>1, <3>2 DEF WriteLands
      <4> QED BY <4>1 DEF Idle
    <3> QED BY <3>1, <3>2
  <2> QED BY <2>2 DEF CallCounts
<1>4. \A d \in Callers : CallCounts(call[d])'
  BY <1>3 DEF OneCallAtATime
<1>5. CASE k.signing = NULL
  <2>1. signed' = signed /\ clock <= clock'
    BY <1>2, <1>5, BoundAssumption DEF SafetyInv, TypeInv, TypeOK, Times
  <2> QED BY <1>1, <1>2, <1>4, <2>1, SpendFrame
<1>6. CASE k.signing # NULL
  <2>1. PICK y \in Signings : y = k.signing /\ signed' = signed \cup {y}
    BY <1>1, <1>2, <1>6 DEF Calls
  <2>2. IsFiniteSet(signed') /\ \A x, z \in signed' : x.n = z.n => x = z
    <3>1. IsFiniteSet(signed')
      BY <2>1, FS_AddElement DEF SpendInv
    <3>2. \A x \in signed : x.n < y.n /\ x.n \in Nat /\ y.n \in Nat
      BY <1>1, <2>1, <1>6, EntryType DEF SigningSound, SafetyInv, TypeInv, TypeOK
    <3>3. \A x \in signed : x.n # y.n
      BY <3>2
    <3> QED BY <2>1, <3>1, <3>3 DEF SpendInv
  <2>3. GoodLog(mem.spendLog) /\ Entry(y) \in mem.spendLog
    BY <1>1, <1>6, <2>1 DEF SpendInv, CallCounts
  <2>4. Covers(mem.spendLog, clock)'
    BY <1>2, <2>1, <2>3 DEF GoodLog, Covers, Entry
  <2>5. GoodLog(mem.spendLog)'
    BY <1>2, <2>3, <2>4 DEF GoodLog, WithinLimit, Counted, SumOfAmounts
  <2>6. GoodLog(disk.spendLog)'
    BY <1>2, <2>5 DEF GoodLog, Covers, Entry, WithinLimit, Counted, SumOfAmounts
  <2> QED BY <1>1, <1>2, <1>4, <2>2, <2>5, <2>6 DEF SpendInv
<1> QED BY <1>5, <1>6

LEMMA SpendReads ==
  ASSUME OneCallAtATime, SafetyInv, TypeInv', CopyInv, SpendInv,
         NEW c \in Callers,
         \/ \E op \in {"reserve", "return", "refresh", "reconcile", "close"} : Begin(c, op)
         \/ Throws(c) \/ ReadSlot(c)
         \/ RecoverBegins(c) \/ CreateSends(c) \/ CloseSends(c)
  PROVE  SpendInv'
<1>0. /\ signed' = signed /\ clock' = clock /\ mem' = mem /\ disk' = disk
      /\ clock \in Times /\ call \in [Callers -> Calls] /\ call[c] \in Calls
      /\ clock <= clock'
  <2>1. /\ signed' = signed /\ clock' = clock /\ mem' = mem /\ disk' = disk
    BY ThrowsFrame DEF Begin, ReadSlot, RecoverBegins, CreateSends, CloseSends
  <2> QED BY <2>1, BoundAssumption DEF SafetyInv, TypeInv, TypeOK, Times
<1>1. ASSUME CallCounts(call[c])' PROVE SpendInv'
  BY <1>0, <1>1, SpendFrame DEF OneCallAtATime
<1>2. ASSUME NEW op \in {"reserve", "return", "refresh", "reconcile", "close"},
             Begin(c, op)
      PROVE  CallCounts(call[c])'
  <2>1. /\ call'[c].op = op /\ call'[c].phase = "reading" /\ call'[c].ledger = mem
        /\ call'[c].now = IF op \in {"reserve", "reconcile"} THEN clock ELSE 0
        /\ mem # NULL
    BY <1>0, <1>2, ReadingType DEF Begin, SafetyInv, TypeInv, TypeOK
  <2>2. Covers(mem.spendLog, clock) /\ \A x \in signed : x.at <= clock
    BY <2>1 DEF SpendInv, GoodLog, SafetyInv, SoundInv, History
  <2> QED BY <1>0, <2>1, <2>2 DEF CallCounts, Covers, Entry
<1>3. CASE Throws(c)
  <2>1. call'[c] = Idle
    BY <1>0, <1>3, ThrowsFrame
  <2> QED BY <1>1, <2>1 DEF CallCounts, Idle
<1>4. CASE ReadSlot(c)
  <2>1. PICK s \in call[c].todo : call' = [call EXCEPT ![c] = AfterRead(call[c], s)]
    BY <1>4 DEF ReadSlot
  <2>2. PICK k, n : k = call[c] /\ n = AfterRead(call[c], s)
    OBVIOUS
  <2>3. call[c].phase = "reading" /\ call'[c] = n
    BY <1>0, <1>4, <2>1, <2>2 DEF ReadSlot
  <2>4. n.phase = "reading" /\ n.op = k.op /\ n.now = k.now
    BY <2>1, <2>2, <2>3, AfterReadType DEF SafetyInv
  <2>5. k.op = "reserve" => n.ledger = k.ledger
    BY <2>1, <2>2, <2>3, AfterReadSound
  <2>6. CallCounts(k)
    BY <2>2 DEF SpendInv
  <2>7. CallCounts(n)'
    BY <1>0, <2>2, <2>3, <2>4, <2>5, <2>6 DEF CallCounts, Covers, Entry
  <2> QED BY <1>1, <2>3, <2>7 DEF CallCounts, Covers, Entry
<1>5. CASE RecoverBegins(c) \/ CreateSends(c) \/ CloseSends(c)
  <2>1. CASE CloseSends(c)
    BY <1>0, <1>1, <2>1 DEF CloseSends, CallCounts, Calls
  <2>2. CASE RecoverBegins(c) \/ CreateSends(c)
    BY <1>0, <1>1, <2>2 DEF RecoverBegins, CreateSends, Idle, CallCounts
  <2> QED BY <1>5, <2>1, <2>2
<1> QED BY <1>1, <1>2, <1>3, <1>4, <1>5

LEMMA SpendSurroundings ==
  ASSUME SafetyInv, TypeInv', CopyInv, SpendInv, "storageLoss" \notin Faults,
         Load \/ Environment \/ UNCHANGED vars
  PROVE  SpendInv'
<1>1. clock \in Nat
  BY BoundAssumption DEF SafetyInv, TypeInv, TypeOK, Times
<1>2. /\ signed' = signed /\ clock <= clock' /\ mem' \in {mem, disk, NULL}
      /\ disk' = disk
      /\ (call' = call \/ call' = [c \in Callers |-> Idle])
  BY <1>1 DEF Load, Environment, Tick, PaymentLands, MerchantReturns, Crash,
              StorageLost, vars
<1>3. \A c \in Callers : CallCounts(call[c])'
  <2>1. CASE call' = call
    BY <1>2, <2>1, CountsStay
  <2>2. CASE call' = [c \in Callers |-> Idle]
    BY <2>2 DEF CallCounts, Idle
  <2> QED BY <1>2, <2>1, <2>2
<1> QED BY <1>2, <1>3, SpendFrame

LEMMA SpendStep ==
  ASSUME OneCallAtATime, CommitOnResolve = TRUE, "storageLoss" \notin Faults,
         SafetyInv, CopyInv, SpendInv, [Next]_vars
  PROVE  SpendInv'
<1>1. TypeInv'
  BY TypeStep DEF SafetyInv
<1>2. CASE Load \/ Environment \/ UNCHANGED vars
  BY <1>1, <1>2, SpendSurroundings
<1>3. ASSUME NEW c \in Callers, CallStep(c)
      PROVE  SpendInv'
  BY <1>1, <1>3, CallStepCases, SpendReads, SpendPersist, SpendWriteLands
<1> QED BY <1>2, <1>3 DEF Next

LEMMA SpendInit == Init => SpendInv
BY FS_EmptySet DEF Init, SpendInv, CallCounts, Idle

LEMMA SpendHolds ==
  ASSUME OneCallAtATime, CommitOnResolve = TRUE, "storageLoss" \notin Faults
  PROVE  Spec => [](SafetyInv /\ CopyInv /\ SpendInv)
<1>1. SafetyInv /\ CopyInv /\ SpendInv /\ [Next]_vars =>
        (SafetyInv /\ CopyInv /\ SpendInv)'
  BY SafetyStep, CopyStep, SpendStep
<1> QED BY <1>1, SafetyInit, CopyInit, SpendInit, PTL DEF Spec

\* The payments signed in any spend window never add up to more than the spend
\* limit, whatever is read, closed, created, recovered or crashed over, as long
\* as the stored ledger is not lost (T12: reserveSlot, remaining, recover).
THEOREM SpendStaysBounded ==
  ASSUME OneCallAtATime, CommitOnResolve = TRUE, "storageLoss" \notin Faults
  PROVE  Spec => []SpendBounded
<1>1. SafetyInv /\ CopyInv /\ SpendInv => SpendBounded
  <2> SUFFICES ASSUME SafetyInv, CopyInv, SpendInv PROVE SpendBounded
    OBVIOUS
  <2> DEFINE recent == {x \in signed : x.at > clock - SpendWindow}
  <2>1. CASE Held = NULL
    <3>1. recent = {}
      BY <2>1 DEF Held, SpendInv
    <3>2. SumOfAmounts({}) = 0
      BY TotalOfNone DEF SumOfAmounts
    <3> QED BY <3>1, <3>2, AmountAssumption DEF SpendBounded
  <2>2. CASE Held # NULL
    <3>1. PICK log : log = Counted(Held.spendLog, clock)
      OBVIOUS
    <3>2. /\ GoodLog(Held.spendLog) /\ Held.spendLog \in SUBSET SpendEntries
          /\ IsFiniteSet(Held.spendLog)
      BY <2>2, HeldType DEF Held, SpendInv, Ledgers, ListsAll
    <3>3. log \in SUBSET SpendEntries /\ IsFiniteSet(log)
      BY <3>1, <3>2, CountedLess
    <3>4. /\ recent \in SUBSET Signings /\ IsFiniteSet(recent)
          /\ \A x, y \in recent : x.n = y.n => x = y
      <4>1. recent \subseteq signed /\ signed \subseteq Signings
        BY DEF SafetyInv, TypeInv, TypeOK
      <4> QED BY <4>1, FS_Subset DEF SpendInv
    <3>5. \A x \in recent : Entry(x) \in log
      BY <3>1, <3>2 DEF GoodLog, Covers, Counted, Entry
    <3>6. PICK less, more : less = SumOfAmounts(recent) /\ more = SumOfAmounts(log)
      OBVIOUS
    <3> HIDE DEF recent
    <3>7. less <= more
      BY <3>3, <3>4, <3>5, <3>6, SignedWithinLog
    <3>8. more <= SpendLimit
      BY <3>1, <3>2, <3>6 DEF GoodLog, WithinLimit
    <3>9. less \in Nat /\ more \in Nat
      <4>1. more \in Nat
        BY <3>3, <3>6, SumMonotone
      <4>2. [x \in recent |-> x.amount] \in [recent -> Nat]
        BY <3>4, EntryType
      <4>3. less \in Nat
        BY <3>4, <3>6, <4>2, TotalType DEF SumOfAmounts
      <4> QED BY <4>1, <4>3
    <3>10. less <= SpendLimit
      BY <3>7, <3>8, <3>9, AmountAssumption
    <3> QED BY <3>6, <3>10 DEF SpendBounded, recent
  <2> QED BY <2>1, <2>2
<1> QED BY <1>1, SpendHolds, PTL
------------------------------------------------------------------------------
(* The pool implements OfflineSigning *)

\* The write that signs is the abstract Sign: the nonce is free and the payment
\* is within the limit, counting everything signed in the window before it.
LEMMA WriteSigns ==
  ASSUME OneCallAtATime, SafetyInv, CopyInv, SpendInv,
         NEW c \in Callers, WriteLands(c), call[c].signing # NULL
  PROVE  Promise!Sign(call[c].signing) /\ call[c].signing \in Signings \ signed
<1>1. PICK y \in Signings : y = call[c].signing
  BY CalledType DEF SafetyInv, Calls
<1>2. /\ SigningSound(call[c]) /\ CallCounts(call[c]) /\ call[c].phase = "writing"
      /\ call[c].ledger \in Ledgers /\ call[c].ledger = mem /\ ListsAll(mem)
  BY NullAssumption DEF WriteLands, SafetyInv, SoundInv, TypeInv, CallShape, CallSound,
                        SpendInv, CopyInv
<1>3. PICK log : log = call[c].ledger.spendLog
  OBVIOUS
<1>4. /\ log \in SUBSET SpendEntries /\ IsFiniteSet(log)
      /\ Covers(log, y.at) /\ WithinLimit(log) /\ Entry(y) \in log
      /\ \A x \in signed : x.at <= y.at
  BY <1>1, <1>2, <1>3 DEF Ledgers, ListsAll, CallCounts
<1>5. /\ \A x \in signed : x.n < y.n
      /\ \A x \in signed : (x.slot = y.slot /\ x.value = y.value)
                             => y.at - x.at >= SendWindow
      /\ y.at <= clock
  BY <1>1, <1>2 DEF SigningSound
<1>6. /\ signed' = signed \cup {y} /\ landed' = landed /\ clock' = clock
  BY <1>1 DEF WriteLands
<1>7. signed \subseteq Signings
  BY DEF SafetyInv, TypeInv, TypeOK
<1>8. y \notin signed
  <2>1. \A x \in signed : x.n # y.n
    BY <1>5, <1>7, EntryType
  <2> QED BY <2>1
<1>9. Promise!SpentWith(y) <= SpendLimit
  <2> DEFINE spent == {x \in signed : x.at > y.at - SpendWindow} \cup {y}
  <2>1. spent \in SUBSET Signings /\ \A x \in spent : Entry(x) \in log
    BY <1>4, <1>7 DEF Covers
  <2>2. IsFiniteSet(spent)
    <3>1. IsFiniteSet({x \in signed : x.at > y.at - SpendWindow})
      BY FS_Subset DEF SpendInv
    <3> QED BY <3>1, FS_AddElement
  <2>3. \A x, z \in spent : x.n = z.n => x = z
    <3>1. \A x \in signed : x.n # y.n
      BY <1>5, <1>7, EntryType
    <3> QED BY <3>1 DEF SpendInv
  <2>4. Promise!SpentWith(y) = SumOfAmounts(spent)
    BY DEF Promise!SpentWith, SumOfAmounts
  <2> HIDE DEF spent
  <2>5. PICK less, more : less = SumOfAmounts(spent) /\ more = SumOfAmounts(log)
    OBVIOUS
  <2>6. less <= more
    BY <1>4, <2>1, <2>2, <2>3, <2>5, SignedWithinLog
  <2>7. less \in Nat /\ more \in Nat
    <3>1. more \in Nat
      BY <1>4, <2>5, SumMonotone
    <3>2. [x \in spent |-> x.amount] \in [spent -> Nat]
      BY <2>1, EntryType
    <3>3. less \in Nat
      BY <2>2, <2>5, <3>2, TotalType DEF SumOfAmounts
    <3> QED BY <3>1, <3>3
  <2>8. more <= SpendLimit
    BY <1>4, <2>5 DEF WithinLimit
  <2> QED BY <2>4, <2>5, <2>6, <2>7, <2>8, AmountAssumption
<1>10. Promise!NonceIsFree(y)
  BY <1>5 DEF Promise!NonceIsFree, Promise!SameNonce
<1>11. \A x \in signed : x.n < y.n /\ x.at <= y.at
  BY <1>4, <1>5
<1> QED BY <1>1, <1>5, <1>6, <1>8, <1>9, <1>10, <1>11 DEF Promise!Sign

\* No payment against a value that has moved on can land: one lands per nonce.
LEMMA LandingIsNew ==
  ASSUME SafetyInv, NEW x \in signed, PaymentLands(x)
  PROVE  Promise!Land(x) /\ x \in signed \ landed
<1>1. \A y \in landed : ~(x.slot = y.slot /\ x.value = y.value)
  <2> SUFFICES ASSUME NEW y \in landed, x.slot = y.slot, x.value = y.value
               PROVE  FALSE
    OBVIOUS
  <2>1. y.value < nonce[y.slot] /\ nonce[x.slot] = x.value /\ x.slot \in Slots
    BY DEF SafetyInv, SoundInv, History, PaymentLands, TypeInv, TypeOK, Signings
  <2>2. nonce[x.slot] \in Nat
    BY <2>1, BoundAssumption DEF SafetyInv, TypeInv, TypeOK, Values
  <2> QED BY <2>1, <2>2
<1> QED BY <1>1 DEF PaymentLands, Promise!Land, Promise!SameNonce

LEMMA PromiseStep ==
  ASSUME OneCallAtATime, SafetyInv, CopyInv, SpendInv, [Next]_vars
  PROVE  [Promise!Next]_<<signed, landed, clock>>
<1>1. ASSUME NEW c \in Callers, CallStep(c)
      PROVE  [Promise!Next]_<<signed, landed, clock>>
  <2>1. CASE WriteLands(c) /\ call[c].signing # NULL
    BY <2>1, WriteSigns DEF Promise!Next
  <2>2. CASE WriteLands(c) /\ call[c].signing = NULL
    BY <2>2 DEF WriteLands
  <2>3. CASE Persists(c)
    <3>1. UNCHANGED <<clock, signed, landed>>
      BY <2>3, PersistsReplaces
    <3> QED BY <3>1
  <2>4. CASE Throws(c)
    BY <2>4, ThrowsFrame
  <2>5. CASE \/ \E op \in {"reserve", "return", "refresh", "reconcile", "close"} :
                  Begin(c, op)
             \/ ReadSlot(c) \/ RecoverBegins(c) \/ CreateSends(c) \/ CloseSends(c)
    BY <2>5 DEF Begin, ReadSlot, RecoverBegins, CreateSends, CloseSends
  <2> QED BY <1>1, <2>1, <2>2, <2>3, <2>4, <2>5, CallStepCases
<1>2. CASE Environment
  <2>1. CASE Tick
    BY <2>1 DEF Tick, Promise!Next, Promise!Tick
  <2>2. ASSUME NEW x \in signed, PaymentLands(x)
        PROVE  [Promise!Next]_<<signed, landed, clock>>
    BY <2>2, LandingIsNew DEF Promise!Next
  <2>3. CASE \/ Crash \/ StorageLost \/ \E x \in signed : MerchantReturns(x)
    BY <2>3 DEF Crash, StorageLost, MerchantReturns
  <2> QED BY <1>2, <2>1, <2>2, <2>3 DEF Environment
<1>3. CASE Load \/ UNCHANGED vars
  BY <1>3 DEF Load, vars
<1> QED BY <1>1, <1>2, <1>3 DEF Next

\* Seen from outside, over every await, crash, refused write and late answer, the
\* pool signs as OfflineSigning promises: one payment after the other, each with
\* a nonce that is free and within the limit that time alone gives back, and one
\* payment lands per nonce value (reserveSlot, reconcile, applyNonceReturn).
THEOREM PoolImplementsPromise ==
  ASSUME OneCallAtATime, CommitOnResolve = TRUE, "storageLoss" \notin Faults
  PROVE  Spec => SignsAsPromised
<1>1. Init => Promise!Init
  BY DEF Init, Promise!Init
<1>2. SafetyInv /\ CopyInv /\ SpendInv /\ [Next]_vars =>
        [Promise!Next]_<<signed, landed, clock>>
  BY PromiseStep
<1> QED BY <1>1, <1>2, SpendHolds, PTL DEF Spec, SignsAsPromised, Promise!Spec
==============================================================================
