----------------------------- MODULE QueueProofs ------------------------------
(***************************************************************************)
(* Proofs about MerchantQueue for any number of payments, callers and      *)
(* amounts, and that RpcClient implements it.                              *)
(***************************************************************************)
EXTENDS RpcClient, TotalsProofs, SequenceTheorems
------------------------------------------------------------------------------
(* The inductive invariant *)

\* Phases in which a call awaits a write, and those with a payment in hand.
Waiting == {"accepting", "marking", "recording"}
InHand == Phases \ {"idle", "offered", "accepting", "next"}

\* What a call holds in each of its phases.
CallShape(k) ==
  /\ k.phase \in InHand => k.todo # <<>>
  /\ k.phase \in {"offered", "accepting"} => k.sale # NULL
  /\ k.phase = "offered" => k.amount # NULL
  /\ k.phase = "recording" => k.result # NULL
  /\ k.sale # NULL => k.tier # NULL

\* A record is a version of the payment that memory knows by its key.
IsVersion(q) ==
  LET known == payments[q.id]
  IN  /\ known # NULL
      /\ known.tier = q.tier /\ known.amount = q.amount
      /\ known.order = q.order /\ known.at = q.at

\* What a record says of how its payment ended is so.
SaysTheTruth(q) ==
  /\ q.state = "settled" => landed[q.id] = "ok"
  /\ q.state = "voided" => q.id \in voidedShown

\* A drain's snapshot holds versions of payments that were still to be sent.
TodoInv(k) ==
  \A i \in DOMAIN k.todo :
    IsVersion(k.todo[i]) /\ k.todo[i].state \in {"queued", "failed"}

\* A call serves its sale from acceptance on: memory knows the payment.  If what
\* the store acknowledges survives, nothing was handed over for it yet, and once
\* the write has landed the store knows it.
Serves(k) == k.sale # NULL /\ k.phase # "offered"

ServingInv(k) ==
  Serves(k) =>
    /\ payments[k.sale] # NULL /\ payments[k.sale].tier = k.tier
    /\ CommitOnResolve => /\ handed[k.sale] = 0
                          /\ k.phase # "accepting" => stored[k.sale] # NULL

\* What a call knows of the chain is so.
ChainInv(k) ==
  /\ k.verdict => k.sale # NULL /\ account[k.sale] # "fabricated"
  /\ k.phase = "readback" => landed[Head(k.todo).id] = "ok"

CallInv(k) ==
  CallShape(k) /\ TodoInv(k) /\ ServingInv(k) /\ ChainInv(k)

\* No two calls serve the same sale.
SalesDiffer ==
  \A c, d \in Callers :
    (c # d /\ Serves(call[c]) /\ Serves(call[d])) => call[c].sale # call[d].sale

\* The caller of a write waits for it, and for no other.
WriterWaits ==
  \A i \in DOMAIN writes :
    LET w == writes[i]
    IN  w.owner # NULL =>
          /\ call[w.owner].phase \in Waiting
          /\ call[w.owner].phase = "accepting" => w.record.id = call[w.owner].sale
          /\ \A j \in DOMAIN writes : writes[j].owner = w.owner => j = i

RecordsInv ==
  /\ \A p \in Present(payments) : SaysTheTruth(payments[p])
  /\ \A p \in Present(stored) : IsVersion(stored[p]) /\ SaysTheTruth(stored[p])
  /\ \A i \in DOMAIN writes :
       IsVersion(writes[i].record) /\ SaysTheTruth(writes[i].record)

\* A payment that has landed has moved its nonce.
LandedInv == \A p \in Auths : landed[p] # "none" => account[p] # "current"

\* A T1 payment in memory was backed when it was accepted.
BackedInv ==
  \A p \in Present(payments) \ Fresh :
    payments[p].tier = "T1" => account[p] # "fabricated"

\* If resolved writes survive, goods go out once, for a payment the store knows.
HandedInv ==
  CommitOnResolve =>
    \A p \in Auths : handed[p] <= 1 /\ (handed[p] > 0 => stored[p] # NULL)

\* Money promised on acceptance that has neither arrived nor been given up.
Owed == {p \in Present(payments) : /\ payments[p].tier # "T0"
                                   /\ landed[p] # "ok"
                                   /\ p \notin voidedShown}

OwedInv == AmountsOf(payments, Owed) <= ExposureCap

IInv ==
  /\ TypeOK
  /\ \A c \in Callers : CallInv(call[c])
  /\ SalesDiffer /\ WriterWaits /\ RecordsInv
  /\ LandedInv /\ BackedInv /\ HandedInv /\ OwedInv
------------------------------------------------------------------------------
(* With one call at a time *)

\* The premise of the results that need it: the merchant's phone is in one hand.
OneCallAtATime == \A c, d \in Callers : c = d

\* The sale of a T0 call is the last of its drain.
LastIsTheSale(k) ==
  (k.sale # NULL /\ k.phase \notin {"offered", "accepting"}) =>
    IF k.todo = <<>> THEN k.last = "settled" => landed[k.sale] = "ok"
                     ELSE k.todo[Len(k.todo)].id = k.sale

\* The sale being accepted is the newest payment, and still queued.
SaleIsNewest(k) ==
  k.phase = "accepting" =>
    /\ payments[k.sale].state = "queued"
    /\ \A p \in Present(payments) : payments[p].order <= payments[k.sale].order

OutcomeIsTrue(k) ==
  /\ (k.phase = "recording" /\ k.result = "settled") => landed[Head(k.todo).id] = "ok"
  /\ (k.phase = "meta" /\ k.last = "settled") => landed[Head(k.todo).id] = "ok"

\* What is still to be sent is not final, but for the head once it is resolved.
TodoNotFinal(k) ==
  \A i \in DOMAIN k.todo :
    /\ Final(payments[k.todo[i].id].state) =>
         i = 1 /\ k.phase \in {"recording", "meta"}
    /\ \A j \in DOMAIN k.todo : k.todo[i].id = k.todo[j].id => i = j

SoloCall(k) ==
  LastIsTheSale(k) /\ SaleIsNewest(k) /\ OutcomeIsTrue(k) /\ TodoNotFinal(k)

SoloInv == \A c \in Callers : SoloCall(call[c])
------------------------------------------------------------------------------
(* A submission's requests *)

RequestInv ==
  /\ request \in [Callers -> Requests]
  /\ \A c \in Callers :
       LET r == request[c]
       IN  /\ r.stage # "none" => call[c].phase \in {"sending", "confirming"}
           /\ (r.stage = "kit sends" /\ ~r.taken) => call[c].phase = "sending"
           /\ r.stage \in {"sends again", "polls"} => "rpcFailure" \in Faults
------------------------------------------------------------------------------
(* Finite sets of numbers *)

\* A finite set that is not empty has a greatest number.
LEMMA GreatestNumber ==
  ASSUME NEW S \in SUBSET Nat, IsFiniteSet(S), S # {}
  PROVE  Max(S) \in S /\ \A n \in S : n <= Max(S)
<1> DEFINE HasGreatest(T) == \E m \in T : \A n \in T : n <= m
           bad == {T \in SUBSET S : T # {} /\ ~HasGreatest(T)}
           R == StrictSubsetOrdering(S)
           P == SUBSET S
<1>1. IsWellFoundedOn(R, P)
  BY FS_StrictSubsetOrderingWellFounded, FS_FiniteSubsetsOfFinite
<1>2. bad \subseteq P
  OBVIOUS
<1>3. ASSUME bad # {} PROVE FALSE
  <2>1. \E T \in bad : \A U \in bad : ~(<<U, T>> \in R)
    <3> HIDE DEF bad, R, P
    <3> QED BY <1>1, <1>2, <1>3, WFMin
  <2>2. PICK T \in bad : \A U \in bad : ~(<<U, T>> \in R)
    BY <2>1
  <2>3. PICK m \in T : TRUE
    OBVIOUS
  <2> DEFINE rest == T \ {m}
  <2>4. <<rest, T>> \in R
    BY <2>3 DEF StrictSubsetOrdering
  <2>5. rest \notin bad
    BY <2>2, <2>4
  <2>6. CASE rest = {}
    BY <2>3, <2>6
  <2>7. CASE rest # {}
    <3>1. PICK b \in rest : \A n \in rest : n <= b
      BY <2>5, <2>7
    <3>2. HasGreatest(T)
      <4>1. CASE m <= b
        BY <3>1, <4>1
      <4>2. CASE ~(m <= b)
        BY <2>3, <3>1, <4>2
      <4> QED BY <4>1, <4>2
    <3> QED BY <3>2
  <2> QED BY <2>6, <2>7
<1>4. HasGreatest(S)
  BY <1>3
<1>5. PICK m \in S : \A n \in S : n <= m
  BY <1>4
<1>6. \A n \in S : m >= n
  BY <1>5
<1> QED BY <1>6 DEF Max

\* A record newer than all the others, whatever is in memory.
LEMMA NextOrderIsNewest ==
  ASSUME TypeOK
  PROVE  /\ NextOrder(payments) \in Nat \ {0}
         /\ \A p \in Present(payments) : payments[p].order < NextOrder(payments)
<1> DEFINE orders == {payments[p].order : p \in Present(payments)}
           f == [p \in Present(payments) |-> payments[p].order]
<1>1. \A p \in Present(payments) : payments[p] \in QueuedPayments
  BY DEF TypeOK, Books, Present
<1>2. orders \subseteq Nat
  BY <1>1 DEF QueuedPayments
<1>3. IsFiniteSet(Present(payments))
  BY AuthsAssumption, FS_Subset DEF Present
<1>4. f \in Surjection(Present(payments), orders)
  BY DEF Surjection
<1>5. IsFiniteSet(orders)
  <2> HIDE DEF orders, f
  <2> QED BY <1>3, <1>4, FS_Surjection
<1> DEFINE known == {0} \cup orders
<1>6. IsFiniteSet(known)
  <2>1. known = orders \cup {0}
    OBVIOUS
  <2> HIDE DEF orders, known
  <2> QED BY <1>5, <2>1, FS_AddElement
<1>7. known \in SUBSET Nat /\ known # {}
  BY <1>2
<1>8. \A p \in Present(payments) : payments[p].order \in known
  OBVIOUS
<1>9. NextOrder(payments) = 1 + Max(known)
  BY DEF NextOrder
<1> HIDE DEF orders, known
<1>10. Max(known) \in known /\ \A n \in known : n <= Max(known)
  BY <1>6, <1>7, GreatestNumber
<1>11. Max(known) \in Nat
  BY <1>7, <1>10
<1>12. NextOrder(payments) \in Nat \ {0}
  BY <1>9, <1>11
<1>13. ASSUME NEW p \in Present(payments)
       PROVE  payments[p].order < NextOrder(payments)
  <2>1. payments[p].order \in Nat /\ payments[p].order <= Max(known)
    BY <1>7, <1>8, <1>10
  <2> QED BY <2>1, <1>9, <1>11
<1> QED BY <1>12, <1>13
------------------------------------------------------------------------------
(* Types *)

LEMMA RecordIsNotNull == \A q \in QueuedPayments : q # NULL
BY NullAssumption

LEMMA IdleType == Idle \in Calls /\ CallShape(Idle)
BY DEF Idle, Calls, Phases, CallShape, InHand

\* What is present is a record under its own key.
LEMMA PresentType ==
  ASSUME TypeOK
  PROVE  /\ \A p \in Present(payments) :
              payments[p] \in QueuedPayments /\ payments[p].id = p
         /\ \A p \in Present(stored) :
              stored[p] \in QueuedPayments /\ stored[p].id = p
         /\ Present(payments) \subseteq Auths /\ Present(stored) \subseteq Auths
BY DEF TypeOK, Books, Present

\* Every write on its way is of a record, and belongs to a caller or to nobody.
LEMMA WritesType ==
  ASSUME TypeOK
  PROVE  /\ DOMAIN writes = 1 .. Len(writes) /\ Len(writes) \in Nat
         /\ \A i \in DOMAIN writes :
              /\ writes[i].owner \in Callers \cup {NULL}
              /\ writes[i].record \in QueuedPayments
<1> DEFINE W == [owner : Callers \cup {NULL}, record : QueuedPayments]
<1>1. writes \in Seq(W)
  BY DEF TypeOK
<1>2. DOMAIN writes = 1 .. Len(writes) /\ Len(writes) \in Nat
      /\ \A i \in DOMAIN writes : writes[i] \in W
  <2> HIDE DEF W
  <2> QED BY <1>1, LenProperties, ElementOfSeq
<1> QED BY <1>2

\* The head of what is to be sent is a record.
LEMMA HeadType ==
  ASSUME TypeOK, NEW c \in Callers, call[c].todo # <<>>
  PROVE  /\ Head(call[c].todo) \in QueuedPayments
         /\ 1 \in DOMAIN call[c].todo /\ Head(call[c].todo) = call[c].todo[1]
         /\ Tail(call[c].todo) \in Seq(QueuedPayments)
BY HeadTailProperties DEF TypeOK, Calls

\* Sorting keeps a set's records, no more and no fewer.
LEMMA OrderedType ==
  ASSUME NEW S, S \subseteq QueuedPayments, IsFiniteSet(S), NEW s \in Ordered(S)
  PROVE  /\ s \in Seq(S) /\ s \in Seq(QueuedPayments)
         /\ DOMAIN s = 1 .. Len(s)
         /\ \A i \in DOMAIN s : s[i] \in S
         /\ \A i, j \in DOMAIN s : i < j => s[i].order < s[j].order
         /\ \A i, j \in DOMAIN s : s[i] = s[j] => i = j
         /\ \A q \in S : \E i \in DOMAIN s : s[i] = q
<1>1. Cardinality(S) \in Nat
  BY FS_CardinalityType
<1>2. s \in [1 .. Cardinality(S) -> S]
      /\ \A i, j \in DOMAIN s : i < j => s[i].order < s[j].order
  BY DEF Ordered
<1>3. s \in Seq(S) /\ Len(s) = Cardinality(S) /\ s \in Seq(QueuedPayments)
  BY <1>1, <1>2
<1>4. \A i, j \in DOMAIN s : s[i] = s[j] => i = j
  <2> SUFFICES ASSUME NEW i \in DOMAIN s, NEW j \in DOMAIN s, s[i] = s[j], i < j
               PROVE  FALSE
    BY <1>1, <1>2
  <2>1. s[i].order < s[j].order /\ s[i].order \in Nat
    BY <1>2 DEF QueuedPayments
  <2> QED BY <2>1
<1>5. s \in Injection(1 .. Cardinality(S), S)
  BY <1>2, <1>4 DEF Injection, IsInjective
<1>6. IsFiniteSet(1 .. Cardinality(S))
      /\ Cardinality(1 .. Cardinality(S)) = Cardinality(S)
  BY <1>1, FS_Interval
<1>7. s \in Surjection(1 .. Cardinality(S), S)
  <2> DEFINE D == 1 .. Cardinality(S)
  <2>1. s \in Injection(D, S) /\ Cardinality(D) = Cardinality(S)
    BY <1>5, <1>6
  <2> HIDE DEF D
  <2>2. s \in Surjection(D, S)
    BY <2>1, FS_Injection
  <2> QED BY <2>2 DEF D
<1>8. \A q \in S : \E i \in DOMAIN s : s[i] = q
  BY <1>2, <1>7 DEF Surjection
<1> QED BY <1>1, <1>2, <1>3, <1>4, <1>8

LEMMA EligibleType ==
  ASSUME TypeOK
  PROVE  Eligible(payments) \subseteq QueuedPayments /\ IsFiniteSet(Eligible(payments))
<1> DEFINE D == {p \in Present(payments) : payments[p].state \in {"queued", "failed"}}
           f == [p \in D |-> payments[p]]
           T == {payments[p] : p \in D}
<1>1. IsFiniteSet(D)
  BY AuthsAssumption, FS_Subset DEF Present
<1>2. f \in Surjection(D, T)
  BY DEF Surjection
<1>3. IsFiniteSet(T)
  <2> HIDE DEF D, f, T
  <2> QED BY <1>1, <1>2, FS_Surjection
<1>4. T \subseteq QueuedPayments
  BY PresentType
<1> QED BY <1>3, <1>4 DEF Eligible

\* A record saved takes its place in memory and at the end of the writes.
LEMMA SaveTouches ==
  ASSUME TypeOK, NEW c \in Callers, NEW r \in QueuedPayments, Save(c, r)
  PROVE  /\ payments'[r.id] = r /\ r.id \in Auths
         /\ \A p \in Auths : p # r.id => payments'[p] = payments[p]
<1>1. r.id \in Auths /\ payments' = [payments EXCEPT ![r.id] = r]
  BY DEF Save, QueuedPayments
<1>2. DOMAIN payments = Auths
  BY DEF TypeOK, Books
<1> QED BY <1>1, <1>2

LEMMA SaveType ==
  ASSUME TypeOK, NEW c \in Callers, NEW r \in QueuedPayments, Save(c, r)
  PROVE  /\ payments' \in Books /\ \A p \in Present(payments)' : payments'[p].id = p
         /\ payments'[r.id] = r /\ r.id \in Auths
         /\ \A p \in Auths : p # r.id => payments'[p] = payments[p]
         /\ Present(payments)' = Present(payments) \cup {r.id}
         /\ writes' \in Seq([owner : Callers \cup {NULL}, record : QueuedPayments])
         /\ Len(writes') = Len(writes) + 1 /\ DOMAIN writes' = 1 .. Len(writes')
         /\ DOMAIN writes = 1 .. Len(writes) /\ Len(writes) \in Nat
         /\ \A i \in DOMAIN writes : writes'[i] = writes[i]
         /\ writes'[Len(writes')] = [owner |-> c, record |-> r]
<1>1. r.id \in Auths /\ r # NULL
  BY RecordIsNotNull DEF QueuedPayments
<1>2. payments \in Books /\ \A p \in Present(payments) : payments[p].id = p
  BY DEF TypeOK
<1>3. payments' = [payments EXCEPT ![r.id] = r]
  BY DEF Save
<1>4. /\ payments' \in Books
      /\ payments'[r.id] = r
      /\ \A p \in Auths : p # r.id => payments'[p] = payments[p]
  BY <1>1, <1>2, <1>3 DEF Books
<1>5. Present(payments)' = Present(payments) \cup {r.id}
  BY <1>1, <1>4 DEF Present
<1>6. \A p \in Present(payments)' : payments'[p].id = p
  BY <1>1, <1>2, <1>4, <1>5 DEF Present
<1> DEFINE W == [owner : Callers \cup {NULL}, record : QueuedPayments]
           w == [owner |-> c, record |-> r]
<1>7. writes \in Seq(W) /\ w \in W /\ writes' = Append(writes, w)
  BY DEF TypeOK, Save
<1>8. /\ writes' \in Seq(W)
      /\ Len(writes') = Len(writes) + 1 /\ DOMAIN writes' = 1 .. Len(writes')
      /\ DOMAIN writes = 1 .. Len(writes) /\ Len(writes) \in Nat
      /\ \A i \in DOMAIN writes : writes'[i] = writes[i]
      /\ writes'[Len(writes')] = w
  <2> HIDE DEF W, w
  <2> QED BY <1>7, AppendProperties, LenProperties
<1> QED BY <1>1, <1>4, <1>5, <1>6, <1>8

\* A step that changes no more than a call and what is not data keeps the types.
LEMMA MoveType ==
  ASSUME TypeOK, NEW c \in Callers, NEW k \in Calls, Moves(c, k)
  PROVE  /\ call' \in [Callers -> Calls]
         /\ call'[c] = k /\ \A d \in Callers : d # c => call'[d] = call[d]
BY DEF TypeOK, Moves

\* An error that leaves the call is told of a payment the call has in hand.
LEMMA ThrowsOutType ==
  ASSUME IInv, NEW c \in Callers, ThrowsOut(c),
         call[c].phase \in InHand \cup {"accepting"}
  PROVE  /\ call' = [call EXCEPT ![c] = Idle] /\ call' \in [Callers -> Calls]
         /\ refused' \subseteq Auths /\ UNCHANGED <<handed, voidedShown>>
<1>1. call[c].sale # NULL \/ call[c].todo # <<>>
  BY DEF IInv, CallInv, CallShape
<1>2. call[c].sale \in Auths \cup {NULL}
  BY DEF IInv, TypeOK, Calls
<1>3. call[c].todo # <<>> => Head(call[c].todo).id \in Auths
  BY HeadType DEF IInv, QueuedPayments
<1>4. refused' \subseteq Auths
  BY <1>1, <1>2, <1>3 DEF IInv, TypeOK, ThrowsOut
<1> QED BY <1>4, IdleType DEF IInv, TypeOK, ThrowsOut, Moves

\* The outcome of a submission: what is saved of it, and the call that waits.
LEMMA ResolvesType ==
  ASSUME IInv, NEW c \in Callers, NEW code \in Codes, Resolves(c, code),
         call[c].todo # <<>>
  PROVE  \E r \in QueuedPayments, k \in Calls :
           /\ Save(c, r) /\ Moves(c, k)
           /\ Head(call[c].todo) \in QueuedPayments /\ r.id = Head(call[c].todo).id
           /\ r.tier = Head(call[c].todo).tier /\ r.amount = Head(call[c].todo).amount
           /\ r.order = Head(call[c].todo).order /\ r.at = Head(call[c].todo).at
           /\ r.state \in {"settled", "failed"}
           /\ r.state = "settled" <=> code = "settled"
           /\ k.phase = "recording" /\ k.result = code
           /\ k.sale = call[c].sale /\ k.tier = call[c].tier
           /\ k.todo = call[c].todo /\ k.verdict = call[c].verdict
           /\ UNCHANGED <<clock, failures, stored, storedFailures, chainVars,
                          historyVars, drains>>
<1> DEFINE q == Head(call[c].todo)
           r == IF code = "settled"
                THEN [q EXCEPT !.state = "settled"]
                ELSE [q EXCEPT !.state = "failed", !.lastError = code]
           k == [call[c] EXCEPT !.phase = "recording", !.result = code,
                                !.error = NULL, !.caught = FALSE]
<1>1. q \in QueuedPayments
  BY HeadType DEF IInv
<1>2. r \in QueuedPayments
  <2>1. code # "settled" => code \in FailCodes
    BY DEF Codes
  <2> QED BY <1>1, <2>1 DEF QueuedPayments, States
<1>3. call[c] \in Calls
  BY DEF IInv, TypeOK
<1>4. k \in Calls
  BY <1>3 DEF Calls, Phases
<1>5. /\ r.id = q.id /\ r.tier = q.tier /\ r.amount = q.amount
      /\ r.order = q.order /\ r.at = q.at
      /\ r.state \in {"settled", "failed"}
      /\ r.state = "settled" <=> code = "settled"
  BY <1>1 DEF QueuedPayments
<1>6. /\ k.phase = "recording" /\ k.result = code
      /\ k.sale = call[c].sale /\ k.tier = call[c].tier
      /\ k.todo = call[c].todo /\ k.verdict = call[c].verdict
  BY <1>3 DEF Calls
<1>7. Save(c, r) /\ Moves(c, k)
      /\ UNCHANGED <<clock, failures, stored, storedFailures, chainVars,
                     historyVars, drains>>
  BY DEF Resolves
<1>8. q = Head(call[c].todo)
  OBVIOUS
<1> HIDE DEF q, r, k
<1> QED BY <1>1, <1>2, <1>4, <1>5, <1>6, <1>7, <1>8

\* A saved record and a call that moves on keep the types.
LEMMA SaveAndMoveType ==
  ASSUME IInv, NEW c \in Callers, NEW r \in QueuedPayments, NEW k \in Calls,
         Save(c, r), Moves(c, k),
         UNCHANGED <<clock, failures, stored, storedFailures, chainVars,
                     historyVars, drains>>
  PROVE  TypeOK'
<1>1. TypeOK
  BY DEF IInv
<1>2. /\ payments' \in Books /\ \A p \in Present(payments)' : payments'[p].id = p
      /\ writes' \in Seq([owner : Callers \cup {NULL}, record : QueuedPayments])
  BY <1>1, SaveType
<1>3. call' \in [Callers -> Calls]
  BY <1>1, MoveType
<1>4. Present(stored)' = Present(stored)
  BY DEF Present
<1> QED BY <1>1, <1>2, <1>3, <1>4 DEF TypeOK, chainVars, historyVars, Present

\* A step that moves a call and leaves the queue, the store and the writes.
LEMMA QuietMoveType ==
  ASSUME IInv, NEW c \in Callers, NEW k \in Calls, Moves(c, k),
         UNCHANGED <<clock, payments, failures, stored, writes, account, landed>>,
         storedFailures' \in Nat, flying' \subseteq Auths, drains' \in 0 .. MaxDrains,
         handed' \in [Auths -> Nat], refused' \subseteq Auths, UNCHANGED voidedShown
  PROVE  TypeOK'
<1>1. TypeOK
  BY DEF IInv
<1>2. call' \in [Callers -> Calls]
  BY <1>1, MoveType
<1>3. Present(stored)' = Present(stored) /\ Present(payments)' = Present(payments)
  BY DEF Present
<1> QED BY <1>1, <1>2, <1>3 DEF TypeOK

LEMMA ThrowsType ==
  ASSUME TypeOK, NEW c \in Callers, NEW error \in FailCodes \cup {NULL}
  PROVE  [call[c] EXCEPT !.phase = "lookup", !.error = error, !.caught = TRUE]
           \in Calls
<1>1. call[c] \in Calls
  BY DEF TypeOK
<1> QED BY <1>1 DEF Calls, Phases

LEMMA ObjectionType ==
  ASSUME NEW p PROVE Objection(p) \in FailCodes
BY DEF Objection, FailCodes

\* What sendPayment may throw, and when.
LEMMA SendThrowsCases ==
  ASSUME NEW c \in Callers, SendRefused(c) \/ SendUnconfirmed(c)
  PROVE  /\ call[c].phase \in {"sending", "confirming"}
         /\ \E error \in FailCodes \cup {NULL} : SendThrows(c, error)
BY ObjectionType
   DEF SendRefused, SendUnconfirmed, ConfirmerThrows, FailCodes

\* Steps of accept and drain that save nothing keep the types.
LEMMA LocalTypes ==
  ASSUME IInv, NEW c \in Callers,
         \/ PrecheckPasses(c) \/ Rejected(c) \/ MetaLands(c)
         \/ MetaWriteFails(c) \/ DrainEnds(c) \/ DrainBegins(c)
         \/ \E p \in Auths, tier \in Tiers, a \in Amounts : Offer(c, p, tier, a)
  PROVE  TypeOK'
<1> DEFINE k == call[c]
<1>0. TypeOK /\ call[c] \in Calls /\ CallShape(call[c])
  BY DEF IInv, TypeOK, CallInv
<1>1. CASE PrecheckPasses(c)
  <2>1. [k EXCEPT !.verdict = TRUE] \in Calls
    BY <1>0 DEF Calls
  <2>2. Moves(c, [k EXCEPT !.verdict = TRUE])
    BY <1>1 DEF PrecheckPasses
  <2> QED BY <1>0, <1>1, <2>1, <2>2, QuietMoveType
          DEF PrecheckPasses, OnlyTheCall, TypeOK, chainVars, historyVars
<1>2. CASE Rejected(c)
  BY <1>0, <1>2, IdleType, QuietMoveType
     DEF Rejected, OnlyTheCall, TypeOK, chainVars, historyVars
<1>3. CASE MetaLands(c)
  <2> DEFINE n == [k EXCEPT !.phase = "next", !.todo = Tail(k.todo)]
  <2>1. k.todo # <<>>
    BY <1>0, <1>3 DEF MetaLands, CallShape, InHand, Phases
  <2>2. Tail(k.todo) \in Seq(QueuedPayments)
    BY <1>0, <2>1, HeadType
  <2>3. n \in Calls
    BY <1>0, <2>2 DEF Calls, Phases
  <2>4. Moves(c, n)
    BY <1>3 DEF MetaLands
  <2> QED BY <1>0, <1>3, <2>3, <2>4, QuietMoveType
          DEF MetaLands, TypeOK, chainVars, historyVars
<1>4. CASE MetaWriteFails(c)
  <2>1. ThrowsOut(c) /\ call[c].phase \in InHand
    BY <1>4 DEF MetaWriteFails, InHand, Phases
  <2>2. Moves(c, Idle) /\ refused' \subseteq Auths /\ UNCHANGED <<handed, voidedShown>>
    BY <2>1, ThrowsOutType DEF ThrowsOut
  <2> QED BY <1>0, <1>4, <2>2, IdleType, QuietMoveType
          DEF MetaWriteFails, TypeOK, chainVars
<1>5. CASE DrainEnds(c)
  <2>1. handed' \in [Auths -> Nat]
    <3>1. call[c].sale # NULL => call[c].sale \in Auths
      BY <1>0 DEF Calls
    <3> QED BY <1>0, <1>5, <3>1 DEF DrainEnds, TypeOK
  <2> QED BY <1>0, <1>5, <2>1, IdleType, QuietMoveType
          DEF DrainEnds, TypeOK, chainVars
<1>6. CASE DrainBegins(c)
  <2>1. PICK todo \in Ordered(Eligible(payments)) :
          Moves(c, [Idle EXCEPT !.phase = "next", !.todo = todo])
    BY <1>6 DEF DrainBegins
  <2>2. todo \in Seq(QueuedPayments)
    BY <1>0, EligibleType, OrderedType
  <2>3. [Idle EXCEPT !.phase = "next", !.todo = todo] \in Calls
    BY <2>2, IdleType DEF Calls, Phases
  <2>4. drains' \in 0 .. MaxDrains
    <3>1. drains \in 0 .. MaxDrains
      BY <1>0 DEF TypeOK
    <3>2. drains < MaxDrains /\ drains' = drains + 1
      BY <1>6 DEF DrainBegins
    <3> QED BY <3>1, <3>2, BoundAssumption
  <2> QED BY <1>0, <1>6, <2>1, <2>3, <2>4, QuietMoveType
          DEF DrainBegins, TypeOK, chainVars, historyVars
<1>7. CASE \E p \in Auths, tier \in Tiers, a \in Amounts : Offer(c, p, tier, a)
  <2>1. PICK p \in Auths, tier \in Tiers, a \in Amounts : Offer(c, p, tier, a)
    BY <1>7
  <2> DEFINE n == [Idle EXCEPT !.phase = "offered", !.sale = p, !.tier = tier,
                               !.amount = a]
  <2>2. n \in Calls
    BY IdleType DEF Calls, Phases
  <2>3. Moves(c, n)
    BY <2>1 DEF Offer
  <2> QED BY <1>0, <2>1, <2>2, <2>3, QuietMoveType
          DEF Offer, OnlyTheCall, TypeOK, chainVars, historyVars
<1> QED BY <1>1, <1>2, <1>3, <1>4, <1>5, <1>6, <1>7

\* The acceptance of a payment, and what it saves.
LEMMA AcceptType ==
  ASSUME IInv, NEW c \in Callers, Accept(c)
  PROVE  \E r \in QueuedPayments, k \in Calls :
           /\ Save(c, r) /\ Moves(c, k)
           /\ r.id = call[c].sale /\ r.tier = call[c].tier
           /\ r.amount = call[c].amount /\ r.order = NextOrder(payments)
           /\ r.state = "queued"
           /\ k.phase = "accepting" /\ k.sale = call[c].sale
           /\ k.tier = call[c].tier /\ k.todo = call[c].todo /\ ~k.verdict
           /\ UNCHANGED <<clock, failures, stored, storedFailures, chainVars,
                          historyVars, drains>>
<1> DEFINE r == [id |-> call[c].sale, order |-> NextOrder(payments),
                 tier |-> call[c].tier, at |-> clock, amount |-> call[c].amount,
                 state |-> "queued", lastError |-> NULL]
           k == [call[c] EXCEPT !.phase = "accepting", !.verdict = FALSE,
                                !.amount = NULL]
<1>1. TypeOK /\ call[c] \in Calls /\ CallShape(call[c])
  BY DEF IInv, TypeOK, CallInv
<1>2. call[c].sale \in Auths /\ call[c].tier \in Tiers /\ call[c].amount \in Amounts
  BY <1>1 DEF Accept, CallShape, Calls
<1>3. r \in QueuedPayments
  BY <1>1, <1>2, NextOrderIsNewest DEF QueuedPayments, States, TypeOK
<1>4. k \in Calls
  BY <1>1 DEF Calls, Phases
<1>5. /\ k.phase = "accepting" /\ k.sale = call[c].sale
      /\ k.tier = call[c].tier /\ k.todo = call[c].todo /\ ~k.verdict
  BY <1>1 DEF Calls
<1>6. /\ r.id = call[c].sale /\ r.tier = call[c].tier
      /\ r.amount = call[c].amount /\ r.order = NextOrder(payments)
      /\ r.state = "queued"
  OBVIOUS
<1>7. Save(c, r) /\ Moves(c, k)
      /\ UNCHANGED <<clock, failures, stored, storedFailures, chainVars,
                     historyVars, drains>>
  BY DEF Accept
<1> HIDE DEF r, k
<1> QED BY <1>3, <1>4, <1>5, <1>6, <1>7

\* The mark a drain leaves before it sends.
LEMMA MarksType ==
  ASSUME IInv, NEW c \in Callers, MarksSubmitting(c)
  PROVE  \E r \in QueuedPayments, k \in Calls :
           /\ Save(c, r) /\ Moves(c, k)
           /\ Head(call[c].todo) \in QueuedPayments /\ r.id = Head(call[c].todo).id
           /\ r.tier = Head(call[c].todo).tier /\ r.amount = Head(call[c].todo).amount
           /\ r.order = Head(call[c].todo).order /\ r.at = Head(call[c].todo).at
           /\ r.state = "submitting"
           /\ k.phase = "marking" /\ k.sale = call[c].sale
           /\ k.tier = call[c].tier /\ k.todo = call[c].todo
           /\ k.verdict = call[c].verdict
           /\ UNCHANGED <<clock, failures, stored, storedFailures, chainVars,
                          historyVars, drains>>
<1> DEFINE q == Head(call[c].todo)
           r == [q EXCEPT !.state = "submitting"]
           k == [call[c] EXCEPT !.phase = "marking"]
<1>1. TypeOK /\ call[c] \in Calls
  BY DEF IInv, TypeOK
<1>2. q \in QueuedPayments
  BY <1>1, HeadType DEF MarksSubmitting
<1>3. /\ r \in QueuedPayments /\ r.id = q.id /\ r.tier = q.tier
      /\ r.amount = q.amount /\ r.order = q.order /\ r.at = q.at
      /\ r.state = "submitting"
  BY <1>2 DEF QueuedPayments, States
<1>4. /\ k \in Calls /\ k.phase = "marking" /\ k.sale = call[c].sale
      /\ k.tier = call[c].tier /\ k.todo = call[c].todo
      /\ k.verdict = call[c].verdict
  BY <1>1 DEF Calls, Phases
<1>5. Save(c, r) /\ Moves(c, k)
      /\ UNCHANGED <<clock, failures, stored, storedFailures, chainVars,
                     historyVars, drains>>
  BY DEF MarksSubmitting
<1>6. q = Head(call[c].todo)
  OBVIOUS
<1> HIDE DEF q, r, k
<1> QED BY <1>2, <1>3, <1>4, <1>5, <1>6

\* The steps of a submission keep the types.
LEMMA NetworkTypes ==
  ASSUME IInv, NEW c \in Callers, NetworkStep(c)
  PROVE  TypeOK'
<1> DEFINE k == call[c]
<1>0. TypeOK /\ call[c] \in Calls /\ CallShape(call[c])
  BY DEF IInv, TypeOK, CallInv
<1>1. CASE Broadcasts(c)
  <2>1. [k EXCEPT !.phase = "confirming"] \in Calls
    BY <1>0 DEF Calls, Phases
  <2>2. k.todo # <<>>
    BY <1>0, <1>1 DEF Broadcasts, CallShape, InHand, Phases
  <2>3. Head(k.todo).id \in Auths
    BY <1>0, <2>2, HeadType DEF QueuedPayments
  <2>4. Moves(c, [k EXCEPT !.phase = "confirming"])
    BY <1>1 DEF Broadcasts
  <2> QED BY <1>0, <1>1, <2>1, <2>3, <2>4, QuietMoveType
          DEF Broadcasts, TypeOK, historyVars
<1>2. CASE SendRefused(c) \/ SendUnconfirmed(c)
  <2>1. PICK error \in FailCodes \cup {NULL} : SendThrows(c, error)
    BY <1>2, SendThrowsCases
  <2> DEFINE n == [call[c] EXCEPT !.phase = "lookup", !.error = error,
                                  !.caught = TRUE]
  <2>2. n \in Calls
    BY <1>0, ThrowsType
  <2>3. Moves(c, n)
    BY <2>1 DEF SendThrows
  <2> QED BY <1>0, <2>1, <2>2, <2>3, QuietMoveType
          DEF SendThrows, OnlyTheCall, TypeOK, chainVars, historyVars
<1>3. CASE SendConfirmed(c)
  <2>1. [k EXCEPT !.phase = "readback"] \in Calls
    BY <1>0 DEF Calls, Phases
  <2>2. Moves(c, [k EXCEPT !.phase = "readback"])
    BY <1>3 DEF SendConfirmed
  <2> QED BY <1>0, <1>3, <2>1, <2>2, QuietMoveType
          DEF SendConfirmed, OnlyTheCall, TypeOK, chainVars, historyVars
<1>4. ASSUME NEW code \in Codes, Resolves(c, code), k.phase \in InHand PROVE TypeOK'
  <2>1. k.todo # <<>>
    BY <1>0, <1>4 DEF CallShape
  <2>2. PICK r \in QueuedPayments, n \in Calls :
          /\ Save(c, r) /\ Moves(c, n)
          /\ UNCHANGED <<clock, failures, stored, storedFailures, chainVars,
                         historyVars, drains>>
    BY <1>4, <2>1, ResolvesType
  <2> QED BY <2>2, SaveAndMoveType
<1>5. Told(k.error) \in Codes /\ FailCodes \subseteq Codes /\ "settled" \in Codes
  BY <1>0 DEF Told, Calls, FailCodes, Codes
<1>6. CASE ReadsBack(c)
  BY <1>4, <1>5, <1>6 DEF ReadsBack, InHand, Phases
<1>7. CASE LooksUp(c)
  <2>1. ASSUME NEW ph \in {"readback", "precheck"},
               Moves(c, [k EXCEPT !.phase = ph]), OnlyTheCall
        PROVE  TypeOK'
    <3>1. [k EXCEPT !.phase = ph] \in Calls
      BY <1>0 DEF Calls, Phases
    <3> QED BY <1>0, <2>1, <3>1, QuietMoveType
            DEF OnlyTheCall, TypeOK, chainVars, historyVars
  <2>2. k.phase \in InHand
    BY <1>7 DEF LooksUp, InHand, Phases
  <2>3. \/ /\ \/ Moves(c, [k EXCEPT !.phase = "readback"])
              \/ Moves(c, [k EXCEPT !.phase = "precheck"])
           /\ OnlyTheCall
        \/ Resolves(c, "SUBMIT_EXECUTION_FAILED") \/ Resolves(c, Told(k.error))
    BY <1>7 DEF LooksUp
  <2> QED BY <1>4, <1>5, <2>1, <2>2, <2>3 DEF FailCodes
<1>8. CASE Classifies(c)
  <2>1. k.phase \in InHand
    BY <1>8 DEF Classifies, InHand, Phases
  <2>2. \/ Resolves(c, Told(k.error)) \/ Resolves(c, "SUBMIT_NONCE_STALE")
        \/ Resolves(c, "SUBMIT_NONCE_ABSENT")
    BY <1>8 DEF Classifies
  <2> QED BY <1>4, <1>5, <2>1, <2>2 DEF FailCodes
<1>9. CASE ReadFails(c)
  <2>1. k.phase \in InHand
    BY <1>9 DEF ReadFails, AwaitsRead, InHand, Phases
  <2>2. CASE k.caught
    <3>1. ThrowsOut(c)
      BY <1>9, <2>2 DEF ReadFails
    <3>2. Moves(c, Idle) /\ refused' \subseteq Auths
          /\ UNCHANGED <<handed, voidedShown>>
      BY <2>1, <3>1, ThrowsOutType DEF ThrowsOut
    <3> QED BY <1>0, <1>9, <3>2, IdleType, QuietMoveType
            DEF ReadFails, TypeOK, chainVars
  <2>3. CASE ~k.caught
    <3> DEFINE n == [k EXCEPT !.phase = "lookup", !.caught = TRUE,
                              !.error = "SUBMIT_RPC_UNAVAILABLE"]
    <3>1. n \in Calls
      BY <1>0 DEF Calls, Phases, FailCodes
    <3>2. Moves(c, n)
      BY <1>9, <2>3 DEF ReadFails
    <3> QED BY <1>0, <1>9, <2>3, <3>1, <3>2, QuietMoveType
            DEF ReadFails, TypeOK, chainVars, historyVars
  <2> QED BY <2>2, <2>3
<1> QED BY <1>1, <1>2, <1>3, <1>6, <1>7, <1>8, <1>9 DEF NetworkStep, ReadAnswered

\* The first write on its way, and its caller, which waits.
LEMMA FirstWrite ==
  ASSUME IInv, writes # <<>>
  PROVE  /\ writes \in Seq([owner : Callers \cup {NULL}, record : QueuedPayments])
         /\ 1 \in DOMAIN writes /\ Head(writes) = writes[1]
         /\ Head(writes) \in [owner : Callers \cup {NULL}, record : QueuedPayments]
         /\ Head(writes).record \in QueuedPayments
         /\ Head(writes).record.id \in Auths
         /\ Tail(writes) \in Seq([owner : Callers \cup {NULL}, record : QueuedPayments])
         /\ DOMAIN Tail(writes) = 1 .. Len(Tail(writes))
         /\ \A i \in DOMAIN Tail(writes) :
              i + 1 \in DOMAIN writes /\ Tail(writes)[i] = writes[i + 1]
         /\ Head(writes).owner # NULL =>
              /\ Head(writes).owner \in Callers
              /\ call[Head(writes).owner].phase \in Waiting
              /\ \A i \in DOMAIN Tail(writes) :
                   Tail(writes)[i].owner # Head(writes).owner
<1> DEFINE W == [owner : Callers \cup {NULL}, record : QueuedPayments]
<1>1. writes \in Seq(W) /\ WriterWaits
  BY DEF IInv, TypeOK
<1>2. /\ 1 \in DOMAIN writes /\ Head(writes) = writes[1]
      /\ Head(writes) \in W /\ Tail(writes) \in Seq(W)
      /\ DOMAIN Tail(writes) = 1 .. Len(Tail(writes))
      /\ \A i \in DOMAIN Tail(writes) :
           i \in Nat /\ i # 0 /\ i + 1 \in DOMAIN writes /\ Tail(writes)[i] = writes[i + 1]
  <2> HIDE DEF W
  <2> QED BY <1>1, HeadTailProperties, LenProperties
<1>3. Head(writes).record \in QueuedPayments /\ Head(writes).record.id \in Auths
  BY <1>2 DEF QueuedPayments
<1>4. ASSUME Head(writes).owner # NULL
      PROVE  /\ Head(writes).owner \in Callers
             /\ call[Head(writes).owner].phase \in Waiting
             /\ \A i \in DOMAIN Tail(writes) :
                  Tail(writes)[i].owner # Head(writes).owner
  <2>1. Head(writes).owner \in Callers
    BY <1>2, <1>4
  <2>2. /\ call[Head(writes).owner].phase \in Waiting
        /\ \A j \in DOMAIN writes : writes[j].owner = Head(writes).owner => j = 1
    BY <1>1, <1>2, <1>4 DEF WriterWaits
  <2>3. ASSUME NEW i \in DOMAIN Tail(writes)
        PROVE  Tail(writes)[i].owner # Head(writes).owner
    BY <1>2, <2>2
  <2> QED BY <2>1, <2>2, <2>3
<1> QED BY <1>1, <1>2, <1>3, <1>4

\* What a write that has landed lets its caller do.
LEMMA ResumesCases ==
  ASSUME IInv, NEW c \in Callers, call[c].phase \in Waiting, Resumes(c)
  PROVE  \E k \in Calls :
           /\ Moves(c, k) /\ failures' \in Nat /\ handed' \in [Auths -> Nat]
           /\ \/ /\ call[c].phase = "accepting" /\ call[c].tier = "T0"
                 /\ k.phase = "next" /\ k.todo \in Ordered(Eligible(payments))
                 /\ k.sale = call[c].sale /\ k.tier = call[c].tier
                 /\ k.verdict = call[c].verdict /\ UNCHANGED handed
              \/ /\ call[c].phase = "accepting" /\ call[c].tier # "T0" /\ k = Idle
                 /\ call[c].sale \in Auths
                 /\ handed' = [handed EXCEPT ![call[c].sale] = @ + 1]
              \/ /\ call[c].phase \in {"marking", "recording"}
                 /\ k.phase = IF call[c].phase = "marking" THEN "sending" ELSE "meta"
                 /\ k.phase = "meta" => k.last = call[c].result
                 /\ k.sale = call[c].sale /\ k.tier = call[c].tier
                 /\ k.todo = call[c].todo /\ k.verdict = call[c].verdict
                 /\ UNCHANGED handed
<1>0. TypeOK /\ call[c] \in Calls /\ CallShape(call[c])
      /\ failures \in Nat /\ handed \in [Auths -> Nat]
  BY DEF IInv, TypeOK, CallInv
<1>1. CASE call[c].phase = "accepting" /\ call[c].tier = "T0"
  <2>1. PICK todo \in Ordered(Eligible(payments)) :
          Moves(c, [call[c] EXCEPT !.phase = "next", !.todo = todo])
    BY <1>1 DEF Resumes
  <2> DEFINE k == [call[c] EXCEPT !.phase = "next", !.todo = todo]
  <2>2. todo \in Seq(QueuedPayments)
    BY <1>0, EligibleType, OrderedType
  <2>3. /\ k \in Calls /\ k.phase = "next" /\ k.todo = todo
        /\ k.sale = call[c].sale /\ k.tier = call[c].tier
        /\ k.verdict = call[c].verdict
    BY <1>0, <2>2 DEF Calls, Phases
  <2>4. UNCHANGED <<failures, handed>>
    BY <1>1 DEF Resumes
  <2>5. Moves(c, k)
    BY <2>1
  <2> HIDE DEF k
  <2> QED BY <1>0, <1>1, <2>3, <2>4, <2>5
<1>2. CASE call[c].phase = "accepting" /\ call[c].tier # "T0"
  <2>1. /\ Moves(c, Idle) /\ UNCHANGED failures
        /\ handed' = [handed EXCEPT ![call[c].sale] = @ + 1]
    BY <1>2 DEF Resumes
  <2>2. call[c].sale \in Auths
    BY <1>0, <1>2 DEF CallShape, Calls
  <2>3. handed' \in [Auths -> Nat]
    BY <1>0, <2>1, <2>2
  <2> QED BY <1>0, <1>2, <2>1, <2>2, <2>3, IdleType
<1>3. CASE call[c].phase = "marking"
  <2> DEFINE k == [call[c] EXCEPT !.phase = "sending"]
  <2>1. Moves(c, k) /\ UNCHANGED <<failures, handed>>
    BY <1>3 DEF Resumes
  <2>2. /\ k \in Calls /\ k.phase = "sending" /\ k.todo = call[c].todo
        /\ k.sale = call[c].sale /\ k.tier = call[c].tier
        /\ k.verdict = call[c].verdict
    BY <1>0 DEF Calls, Phases
  <2> HIDE DEF k
  <2> QED BY <1>0, <1>3, <2>1, <2>2
<1>4. CASE call[c].phase = "recording"
  <2> DEFINE k == [call[c] EXCEPT !.phase = "meta", !.last = call[c].result,
                                  !.result = NULL]
  <2>1. Moves(c, k) /\ UNCHANGED handed
    BY <1>4 DEF Resumes
  <2>2. failures' \in Nat
    BY <1>0, <1>4 DEF Resumes
  <2>3. /\ k \in Calls /\ k.phase = "meta" /\ k.todo = call[c].todo
        /\ k.sale = call[c].sale /\ k.tier = call[c].tier
        /\ k.verdict = call[c].verdict /\ k.last = call[c].result
    BY <1>0 DEF Calls, Phases
  <2> HIDE DEF k
  <2> QED BY <1>0, <1>4, <2>1, <2>2, <2>3
<1> QED BY <1>1, <1>2, <1>3, <1>4 DEF Waiting

\* A write landing keeps the types.
LEMMA WriteLandsType ==
  ASSUME IInv, WriteLands PROVE TypeOK'
<1>0. TypeOK /\ writes # <<>>
  BY DEF IInv, WriteLands
<1>1. /\ Tail(writes) \in Seq([owner : Callers \cup {NULL}, record : QueuedPayments])
      /\ Head(writes).record \in QueuedPayments /\ Head(writes).record.id \in Auths
      /\ Head(writes).owner # NULL =>
           /\ Head(writes).owner \in Callers
           /\ call[Head(writes).owner].phase \in Waiting
  BY <1>0, FirstWrite
<1>2. /\ stored' \in Books
      /\ \A p \in Present(stored)' : stored'[p].id = p
  <2> DEFINE r == Head(writes).record
  <2>1. stored' = [stored EXCEPT ![r.id] = r] \/ stored' = stored
    BY DEF WriteLands
  <2>2. r \in QueuedPayments /\ r.id \in Auths
    BY <1>1
  <2>3. stored \in Books /\ \A p \in Present(stored) : stored[p].id = p
    BY <1>0 DEF TypeOK
  <2> HIDE DEF r
  <2> QED BY <2>1, <2>2, <2>3 DEF Books, Present
<1>3. call' \in [Callers -> Calls] /\ failures' \in Nat /\ handed' \in [Auths -> Nat]
  <2>1. CASE Head(writes).owner = NULL
    BY <1>0, <2>1 DEF WriteLands, TypeOK
  <2>2. CASE Head(writes).owner # NULL
    <3> DEFINE c == Head(writes).owner
    <3>1. c \in Callers /\ call[c].phase \in Waiting /\ Resumes(c)
      BY <1>1, <2>2 DEF WriteLands
    <3>2. PICK k \in Calls : Moves(c, k) /\ failures' \in Nat /\ handed' \in [Auths -> Nat]
      <4> HIDE DEF c
      <4> QED BY <3>1, ResumesCases
    <3>3. call' \in [Callers -> Calls]
      BY <1>0, <3>1, <3>2 DEF Moves, TypeOK
    <3> QED BY <3>2, <3>3
  <2> QED BY <2>1, <2>2
<1>4. writes' = Tail(writes) /\ Present(payments)' = Present(payments)
      /\ UNCHANGED <<clock, payments, storedFailures, chainVars, voidedShown,
                     refused, drains>>
  BY DEF WriteLands, Present
<1> QED BY <1>0, <1>1, <1>2, <1>3, <1>4 DEF TypeOK, chainVars

LEMMA WriteFailsType ==
  ASSUME IInv, WriteFails PROVE TypeOK'
<1>0. TypeOK /\ writes # <<>>
  BY DEF IInv, WriteFails
<1>1. /\ Tail(writes) \in Seq([owner : Callers \cup {NULL}, record : QueuedPayments])
      /\ Head(writes).owner # NULL =>
           /\ Head(writes).owner \in Callers
           /\ call[Head(writes).owner].phase \in Waiting
  BY <1>0, FirstWrite
<1>2. /\ call' \in [Callers -> Calls] /\ refused' \subseteq Auths
      /\ UNCHANGED <<handed, voidedShown>>
  <2>1. CASE Head(writes).owner = NULL
    BY <1>0, <2>1 DEF WriteFails, TypeOK, historyVars
  <2>2. CASE Head(writes).owner # NULL
    <3> DEFINE c == Head(writes).owner
    <3>1. c \in Callers /\ call[c].phase \in InHand \cup {"accepting"} /\ ThrowsOut(c)
      BY <1>1, <2>2 DEF WriteFails, Waiting, InHand, Phases
    <3> HIDE DEF c
    <3> QED BY <3>1, ThrowsOutType
  <2> QED BY <2>1, <2>2
<1>3. writes' = Tail(writes) /\ Present(payments)' = Present(payments)
      /\ Present(stored)' = Present(stored)
      /\ UNCHANGED <<clock, payments, failures, stored, storedFailures, chainVars,
                     drains>>
  BY DEF WriteFails, Present
<1> QED BY <1>0, <1>1, <1>2, <1>3 DEF TypeOK, chainVars

\* What the queue screen voids, and the writes nobody awaits.
LEMMA ExpireType ==
  ASSUME TypeOK, Expire
  PROVE  /\ payments' \in Books /\ Present(payments)' = Present(payments)
         /\ \A p \in Present(payments) :
              payments'[p] = payments[p] \/
                /\ payments'[p] = Voided(payments[p]) /\ p \in voidedShown'
                /\ ~Final(payments[p].state)
         /\ \A q \in QueuedPayments :
              /\ Voided(q) \in QueuedPayments /\ Voided(q).id = q.id
              /\ Voided(q).tier = q.tier /\ Voided(q).amount = q.amount
              /\ Voided(q).order = q.order /\ Voided(q).at = q.at
              /\ Voided(q).state = "voided"
         /\ voidedShown \subseteq voidedShown' /\ voidedShown' \subseteq Auths
         /\ writes' \in Seq([owner : Callers \cup {NULL}, record : QueuedPayments])
         /\ DOMAIN writes \subseteq DOMAIN writes'
         /\ \A i \in DOMAIN writes : writes'[i] = writes[i]
         /\ \A i \in DOMAIN writes' \ DOMAIN writes :
              /\ writes'[i].owner = NULL
              /\ \E p \in Present(payments) :
                   writes'[i].record = Voided(payments[p]) /\ p \in voidedShown'
<1> DEFINE W == [owner : Callers \cup {NULL}, record : QueuedPayments]
           D == Overdue(payments)
           expired == {Voided(payments[p]) : p \in D}
           f == [p \in D |-> Voided(payments[p])]
<1>1. D \subseteq Present(payments) /\ Present(payments) \subseteq Auths
      /\ \A p \in D : ~Final(payments[p].state)
  BY DEF Overdue, Present, Final
<1>2. \A q \in QueuedPayments :
        /\ Voided(q) \in QueuedPayments /\ Voided(q).id = q.id
        /\ Voided(q).tier = q.tier /\ Voided(q).amount = q.amount
        /\ Voided(q).order = q.order /\ Voided(q).at = q.at
        /\ Voided(q).state = "voided"
  BY DEF Voided, QueuedPayments, States
<1>3. \A p \in Present(payments) : payments[p] \in QueuedPayments
  BY PresentType
<1>4. expired \subseteq QueuedPayments
  BY <1>1, <1>2, <1>3
<1>5. IsFiniteSet(expired)
  <2>1. IsFiniteSet(D)
    BY <1>1, AuthsAssumption, FS_Subset
  <2>2. f \in Surjection(D, expired)
    BY DEF Surjection
  <2> HIDE DEF D, expired, f
  <2> QED BY <2>1, <2>2, FS_Surjection
<1>6. PICK voids \in Ordered(expired) :
        writes' = writes \o
          [i \in DOMAIN voids |-> [owner |-> NULL, record |-> voids[i]]]
  BY DEF Expire
<1> DEFINE tail == [i \in DOMAIN voids |-> [owner |-> NULL, record |-> voids[i]]]
<1>7. /\ voids \in Seq(QueuedPayments) /\ DOMAIN voids = 1 .. Len(voids)
      /\ \A i \in DOMAIN voids : voids[i] \in expired
  <2> HIDE DEF expired
  <2> QED BY <1>4, <1>5, OrderedType
<1>8. tail \in Seq(W) /\ Len(tail) = Len(voids)
  <2>1. Len(voids) \in Nat
    BY <1>7
  <2>2. \A i \in 1 .. Len(voids) : tail[i] \in W
    BY <1>4, <1>7
  <2> QED BY <1>7, <2>1, <2>2
<1>9. writes \in Seq(W) /\ DOMAIN writes = 1 .. Len(writes) /\ Len(writes) \in Nat
  BY DEF TypeOK
<1>10. /\ writes' \in Seq(W) /\ Len(writes') = Len(writes) + Len(tail)
       /\ \A i \in 1 .. Len(writes) + Len(tail) :
            writes'[i] = IF i <= Len(writes) THEN writes[i] ELSE tail[i - Len(writes)]
  <2>1. writes' = writes \o tail
    BY <1>6
  <2> DEFINE both == writes \o tail
  <2>2. /\ both \in Seq(W) /\ Len(both) = Len(writes) + Len(tail)
        /\ \A i \in 1 .. Len(writes) + Len(tail) :
             both[i] = IF i <= Len(writes) THEN writes[i] ELSE tail[i - Len(writes)]
    <3>1. writes \in Seq(W) /\ tail \in Seq(W)
      BY <1>8, <1>9
    <3> HIDE DEF W, tail
    <3> QED BY <3>1, ConcatProperties
  <2>3. writes' = both
    BY <2>1
  <2> HIDE DEF W, tail, both
  <2> QED BY <2>2, <2>3
<1>11. DOMAIN writes' = 1 .. Len(writes) + Len(tail)
  <2> HIDE DEF W, tail
  <2> QED BY <1>10, LenProperties
<1>12. DOMAIN writes \subseteq DOMAIN writes'
       /\ \A i \in DOMAIN writes : writes'[i] = writes[i]
  <2>1. Len(tail) \in Nat
    BY <1>7, <1>8
  <2> HIDE DEF tail
  <2> QED BY <1>9, <1>10, <1>11, <2>1
<1>13. /\ payments' = [p \in Auths |-> IF p \in D THEN Voided(payments[p])
                                                  ELSE payments[p]]
       /\ voidedShown' = voidedShown \cup D
  BY DEF Expire
<1>14. ASSUME NEW i \in DOMAIN writes' \ DOMAIN writes
       PROVE  /\ writes'[i].owner = NULL
              /\ \E p \in Present(payments) :
                   writes'[i].record = Voided(payments[p]) /\ p \in voidedShown'
  <2>1. i \in Nat /\ i > Len(writes) /\ i <= Len(writes) + Len(tail)
    <3> HIDE DEF tail
    <3> QED BY <1>8, <1>9, <1>11
  <2>2. i - Len(writes) \in DOMAIN voids
    BY <1>7, <1>8, <1>9, <2>1
  <2>3. writes'[i] = tail[i - Len(writes)]
    <3> HIDE DEF tail
    <3> QED BY <1>9, <1>10, <1>11, <2>1
  <2>4. writes'[i] = [owner |-> NULL, record |-> voids[i - Len(writes)]]
    BY <2>2, <2>3
  <2>5. voids[i - Len(writes)] \in expired
    BY <1>7, <2>2
  <2> QED BY <1>1, <1>13, <2>4, <2>5
<1>15. payments \in Books
  BY DEF TypeOK
<1>16. payments' \in Books
  BY <1>1, <1>2, <1>3, <1>13, <1>15 DEF Books
<1>17. Present(payments)' = Present(payments)
  <2>1. \A p \in D : Voided(payments[p]) # NULL
    BY <1>1, <1>2, <1>3, RecordIsNotNull
  <2> QED BY <1>1, <1>13, <2>1 DEF Present
<1>18. \A p \in Present(payments) :
         payments'[p] = payments[p] \/
           /\ payments'[p] = Voided(payments[p]) /\ p \in voidedShown'
           /\ ~Final(payments[p].state)
  BY <1>1, <1>13
<1>19. voidedShown \subseteq voidedShown' /\ voidedShown' \subseteq Auths
  BY <1>1, <1>13 DEF TypeOK
<1> HIDE DEF D, expired, tail
<1> QED BY <1>2, <1>10, <1>12, <1>14, <1>16, <1>17, <1>18, <1>19

\* Every step of the specification keeps the types.
LEMMA TypeStep ==
  ASSUME IInv, Next PROVE TypeOK'
<1>0. TypeOK
  BY DEF IInv
<1>1. CASE \E c \in Callers : CallStep(c)
  <2>1. PICK c \in Callers : CallStep(c)
    BY <1>1
  <2>2. CASE Accept(c)
    BY <2>2, AcceptType, SaveAndMoveType
  <2>3. CASE MarksSubmitting(c)
    BY <2>3, MarksType, SaveAndMoveType
  <2>4. CASE PrecheckPasses(c) \/ Rejected(c) \/ MetaLands(c) \/ MetaWriteFails(c)
             \/ DrainEnds(c)
    BY <2>4, LocalTypes
  <2>5. CASE NetworkStep(c)
    BY <2>5, NetworkTypes
  <2> QED BY <2>1, <2>2, <2>3, <2>4, <2>5 DEF CallStep, LocalStep
<1>2. CASE \/ \E c \in Callers, p \in Auths, tier \in Tiers, a \in Amounts :
                Offer(c, p, tier, a)
           \/ \E c \in Callers : DrainBegins(c)
  BY <1>2, LocalTypes
<1>3. CASE Expire
  <2>1. /\ payments' \in Books /\ Present(payments)' = Present(payments)
        /\ writes' \in Seq([owner : Callers \cup {NULL}, record : QueuedPayments])
        /\ voidedShown' \subseteq Auths
    BY <1>0, <1>3, ExpireType
  <2>2. ASSUME NEW p \in Present(payments)' PROVE payments'[p].id = p
    BY <1>0, <1>3, <2>1, <2>2, ExpireType, PresentType
  <2>3. Present(stored)' = Present(stored)
        /\ UNCHANGED <<clock, failures, stored, storedFailures, call, chainVars,
                       handed, refused, drains>>
    BY <1>3 DEF Expire, Present
  <2> QED BY <1>0, <2>1, <2>2, <2>3 DEF TypeOK, chainVars
<1>4. CASE \E p \in Auths : ChainLands(p) \/ Dropped(p) \/ AccountLeaves(p)
  <2>1. PICK p \in Auths : ChainLands(p) \/ Dropped(p) \/ AccountLeaves(p)
    BY <1>4
  <2>2. flying' \subseteq Auths
    BY <1>0, <2>1 DEF ChainLands, Dropped, AccountLeaves, TypeOK
  <2>3. account' \in [Auths -> AccountStates]
    BY <1>0, <2>1 DEF ChainLands, Dropped, AccountLeaves, TypeOK, AccountStates
  <2>4. landed' \in [Auths -> {"none", "ok", "failed"}]
    BY <1>0, <2>1 DEF ChainLands, Dropped, AccountLeaves, TypeOK
  <2>5. UNCHANGED <<clock, payments, failures, stored, storedFailures, writes,
                    call, historyVars, drains>>
    BY <2>1 DEF ChainLands, Dropped, AccountLeaves
  <2> QED BY <1>0, <2>2, <2>3, <2>4, <2>5 DEF TypeOK, historyVars, Present
<1>5. CASE WriteLands
  BY <1>5, WriteLandsType
<1>6. CASE WriteFails
  BY <1>6, WriteFailsType
<1>7. CASE Tick
  <2>1. clock' \in Times
    BY <1>0, <1>7, BoundAssumption DEF Tick, TypeOK, Times
  <2> QED BY <1>0, <1>7, <2>1 DEF Tick, TypeOK, historyVars, chainVars, Present
<1>8. CASE Crash
  <2>1. /\ payments' = stored /\ failures' = storedFailures /\ writes' = <<>>
        /\ call' = [c \in Callers |-> Idle]
        /\ UNCHANGED <<clock, stored, storedFailures, chainVars, historyVars, drains>>
    BY <1>8 DEF Crash
  <2>2. Present(payments)' = Present(stored) /\ Present(stored)' = Present(stored)
    BY <2>1 DEF Present
  <2> QED BY <1>0, <2>1, <2>2, IdleType DEF TypeOK, historyVars, chainVars
<1> QED BY <1>1, <1>2, <1>3, <1>4, <1>5, <1>6, <1>7, <1>8
        DEF Next, Merchant, Environment
------------------------------------------------------------------------------
(* The invariant, step by step *)

\* What no step but a reload takes back.
Grows ==
  /\ \A p \in Present(payments) :
       /\ payments'[p] # NULL
       /\ payments'[p].tier = payments[p].tier
       /\ payments'[p].amount = payments[p].amount
       /\ payments'[p].order = payments[p].order
       /\ payments'[p].at = payments[p].at
  /\ \A p \in Auths : landed[p] = "ok" => landed'[p] = "ok"
  /\ \A p \in Auths : account[p] # "fabricated" => account'[p] # "fabricated"
  /\ voidedShown \subseteq voidedShown'
  /\ Present(stored) \subseteq Present(stored)'

\* Versions stay versions, and what was so stays so.
LEMMA GrowsKeeps ==
  ASSUME TypeOK, Grows
  PROVE  /\ \A q \in QueuedPayments : IsVersion(q) => IsVersion(q)'
         /\ \A q \in QueuedPayments : SaysTheTruth(q) => SaysTheTruth(q)'
         /\ \A k \in Calls : TodoInv(k) => TodoInv(k)'
         /\ \A k \in Calls : (CallShape(k) /\ ChainInv(k)) => ChainInv(k)'
         /\ \A k \in Calls :
              (/\ ServingInv(k)
               /\ Serves(k) => handed'[k.sale] = handed[k.sale]) => ServingInv(k)'
<1>1. ASSUME NEW q \in QueuedPayments, IsVersion(q) PROVE IsVersion(q)'
  <2>1. q.id \in Present(payments)
    BY <1>1 DEF IsVersion, Present, QueuedPayments
  <2> QED BY <1>1, <2>1 DEF Grows, IsVersion
<1>2. ASSUME NEW q \in QueuedPayments, SaysTheTruth(q) PROVE SaysTheTruth(q)'
  BY <1>2 DEF Grows, SaysTheTruth, QueuedPayments
<1>3. ASSUME NEW k \in Calls, TodoInv(k) PROVE TodoInv(k)'
  <2>1. \A i \in DOMAIN k.todo : k.todo[i] \in QueuedPayments
    BY DEF Calls
  <2> QED BY <1>1, <1>3, <2>1 DEF TodoInv
<1>4. ASSUME NEW k \in Calls, CallShape(k), ChainInv(k) PROVE ChainInv(k)'
  <2>1. k.phase = "readback" => Head(k.todo).id \in Auths
    <3>1. SUFFICES ASSUME k.phase = "readback" PROVE Head(k.todo).id \in Auths
      OBVIOUS
    <3>2. k.todo # <<>> /\ k.todo \in Seq(QueuedPayments)
      BY <1>4, <3>1 DEF CallShape, InHand, Phases, Calls
    <3>3. Head(k.todo) \in QueuedPayments
      BY <3>2, HeadTailProperties
    <3> QED BY <3>3 DEF QueuedPayments
  <2>2. (k.verdict /\ k.sale # NULL) => k.sale \in Auths
    BY DEF Calls
  <2> QED BY <1>4, <2>1, <2>2 DEF ChainInv, Grows
<1>5. ASSUME NEW k \in Calls, ServingInv(k), Serves(k) => handed'[k.sale] = handed[k.sale]
      PROVE  ServingInv(k)'
  <2>1. SUFFICES ASSUME Serves(k) PROVE ServingInv(k)'
    BY DEF ServingInv, Serves
  <2>2. k.sale \in Auths
    BY <2>1 DEF Serves, Calls
  <2>3. /\ payments[k.sale] # NULL /\ payments[k.sale].tier = k.tier
        /\ CommitOnResolve => /\ handed[k.sale] = 0
                              /\ k.phase # "accepting" => stored[k.sale] # NULL
    BY <1>5, <2>1 DEF ServingInv
  <2> QED BY <1>5, <2>1, <2>2, <2>3 DEF ServingInv, Grows, Present
<1> QED BY <1>1, <1>2, <1>3, <1>4, <1>5

\* Callers that do nothing keep what holds of their calls.
LEMMA OthersKeep ==
  ASSUME IInv, Grows, NEW D \in SUBSET Callers,
         \A d \in D : call'[d] = call[d],
         \A d \in D : Serves(call[d]) => handed'[call[d].sale] = handed[call[d].sale]
  PROVE  \A d \in D : CallInv(call[d])'
<1> SUFFICES ASSUME NEW d \in D PROVE CallInv(call[d])'
  OBVIOUS
<1>1. TypeOK /\ call[d] \in Calls /\ CallInv(call[d]) /\ call'[d] = call[d]
  BY DEF IInv, TypeOK
<1>2. /\ \A k \in Calls : TodoInv(k) => TodoInv(k)'
      /\ \A k \in Calls : (CallShape(k) /\ ChainInv(k)) => ChainInv(k)'
      /\ \A k \in Calls :
           (/\ ServingInv(k)
            /\ Serves(k) => handed'[k.sale] = handed[k.sale]) => ServingInv(k)'
  BY <1>1, GrowsKeeps
<1>3. CallShape(call[d])'
  BY <1>1 DEF CallInv, CallShape
<1>4. TodoInv(call[d])'
  BY <1>1, <1>2 DEF CallInv, TodoInv, IsVersion
<1>5. ServingInv(call[d])'
  <2>1. Serves(call[d]) => handed'[call[d].sale] = handed[call[d].sale]
    OBVIOUS
  <2> QED BY <1>1, <1>2, <2>1 DEF CallInv, ServingInv, Serves
<1>6. ChainInv(call[d])'
  BY <1>1, <1>2 DEF CallInv, ChainInv
<1> QED BY <1>3, <1>4, <1>5, <1>6 DEF CallInv

\* A call that moves on, and changes nothing the invariant says of the rest.
LEMMA MoveKeeps ==
  ASSUME IInv, TypeOK', NEW c \in Callers, NEW k \in Calls, Moves(c, k),
         UNCHANGED <<payments, stored, writes, account, landed, handed, voidedShown>>,
         call[c].phase \notin Waiting, CallInv(k),
         Serves(k) => Serves(call[c]) /\ k.sale = call[c].sale
  PROVE  IInv'
<1>1. TypeOK /\ call'[c] = k /\ \A d \in Callers : d # c => call'[d] = call[d]
  BY MoveType DEF IInv
<1>2. Grows
  BY DEF Grows, Present
<1>3. \A d \in Callers \ {c} : CallInv(call[d])'
  BY <1>1, <1>2, OthersKeep
<1>4. CallInv(call[c])'
  BY <1>1 DEF CallInv, CallShape, TodoInv, IsVersion, ServingInv, Serves, ChainInv
<1>5. SalesDiffer'
  BY <1>1 DEF IInv, SalesDiffer, Serves
<1>6. WriterWaits'
  <2> SUFFICES ASSUME NEW i \in DOMAIN writes, writes[i].owner # NULL
               PROVE  /\ call'[writes[i].owner].phase \in Waiting
                      /\ call'[writes[i].owner].phase = "accepting" =>
                           writes[i].record.id = call'[writes[i].owner].sale
                      /\ \A j \in DOMAIN writes :
                           writes[j].owner = writes[i].owner => j = i
    BY DEF WriterWaits
  <2>1. /\ call[writes[i].owner].phase \in Waiting
        /\ call[writes[i].owner].phase = "accepting" =>
             writes[i].record.id = call[writes[i].owner].sale
        /\ \A j \in DOMAIN writes : writes[j].owner = writes[i].owner => j = i
    BY DEF IInv, WriterWaits
  <2>2. writes[i].owner \in Callers
    BY <1>1, WritesType
  <2>3. writes[i].owner # c
    BY <2>1
  <2> QED BY <1>1, <2>1, <2>2, <2>3
<1>7. RecordsInv'
  BY DEF IInv, RecordsInv, Present, IsVersion, SaysTheTruth
<1>8. LandedInv' /\ BackedInv' /\ HandedInv'
  BY DEF IInv, LandedInv, BackedInv, HandedInv, Present
<1>9. OwedInv'
  BY DEF IInv, OwedInv, Owed, AmountsOf, Present
<1> QED BY <1>1, <1>3, <1>4, <1>5, <1>6, <1>7, <1>8, <1>9 DEF IInv

\* A write that is begun belongs to the caller that waits for it.
LEMMA SaveWriter ==
  ASSUME IInv, NEW c \in Callers, NEW r \in QueuedPayments, NEW k \in Calls,
         Save(c, r), Moves(c, k), call[c].phase \notin Waiting, k.phase \in Waiting,
         k.phase = "accepting" => r.id = k.sale
  PROVE  WriterWaits'
<1>1. TypeOK /\ call'[c] = k /\ \A d \in Callers : d # c => call'[d] = call[d]
  BY MoveType DEF IInv
<1>2. /\ Len(writes') = Len(writes) + 1 /\ DOMAIN writes' = 1 .. Len(writes')
      /\ DOMAIN writes = 1 .. Len(writes) /\ Len(writes) \in Nat
      /\ \A i \in DOMAIN writes : writes'[i] = writes[i]
      /\ writes'[Len(writes')] = [owner |-> c, record |-> r]
  BY <1>1, SaveType
<1>3. \A i \in DOMAIN writes : writes[i].owner \in Callers \cup {NULL}
  BY <1>1, WritesType
<1>4. ASSUME NEW i \in DOMAIN writes, writes[i].owner # NULL
      PROVE  /\ call[writes[i].owner].phase \in Waiting
             /\ call[writes[i].owner].phase = "accepting" =>
                  writes[i].record.id = call[writes[i].owner].sale
             /\ \A j \in DOMAIN writes : writes[j].owner = writes[i].owner => j = i
             /\ writes[i].owner # c /\ writes[i].owner \in Callers
  BY <1>3, <1>4 DEF IInv, WriterWaits
<1>5. \A i \in DOMAIN writes' : i \in DOMAIN writes \/ i = Len(writes')
  BY <1>2
<1>6. c # NULL
  BY NullAssumption
<1> SUFFICES ASSUME NEW i \in DOMAIN writes', writes'[i].owner # NULL
             PROVE  /\ call'[writes'[i].owner].phase \in Waiting
                    /\ call'[writes'[i].owner].phase = "accepting" =>
                         writes'[i].record.id = call'[writes'[i].owner].sale
                    /\ \A j \in DOMAIN writes' :
                         writes'[j].owner = writes'[i].owner => j = i
  BY DEF WriterWaits
<1>7. CASE i \in DOMAIN writes
  BY <1>1, <1>2, <1>4, <1>5, <1>7
<1>8. CASE i = Len(writes')
  BY <1>1, <1>2, <1>4, <1>5, <1>6, <1>8
<1> QED BY <1>5, <1>7, <1>8

\* A new version of a payment is saved and the call waits for the write.
LEMMA SaveKeeps ==
  ASSUME IInv, TypeOK', NEW c \in Callers, NEW r \in QueuedPayments, NEW k \in Calls,
         Save(c, r), Moves(c, k),
         UNCHANGED <<stored, account, landed, handed, voidedShown>>,
         call[c].phase \notin Waiting \cup {"offered"},
         k.phase \in {"marking", "recording"},
         IsVersion(r), SaysTheTruth(r), CallShape(k),
         k.todo = call[c].todo, k.sale = call[c].sale, k.tier = call[c].tier,
         k.verdict = call[c].verdict
  PROVE  IInv'
<1>1. TypeOK /\ call'[c] = k /\ \A d \in Callers : d # c => call'[d] = call[d]
  BY MoveType DEF IInv
<1>2. /\ payments'[r.id] = r /\ r.id \in Auths
      /\ \A p \in Auths : p # r.id => payments'[p] = payments[p]
      /\ Present(payments)' = Present(payments) \cup {r.id}
      /\ Len(writes') = Len(writes) + 1 /\ DOMAIN writes' = 1 .. Len(writes')
      /\ DOMAIN writes = 1 .. Len(writes) /\ Len(writes) \in Nat
      /\ \A i \in DOMAIN writes : writes'[i] = writes[i]
      /\ writes'[Len(writes')] = [owner |-> c, record |-> r]
  BY <1>1, SaveType
<1>3. /\ r.id \in Present(payments) /\ payments[r.id].tier = r.tier
      /\ payments[r.id].amount = r.amount /\ payments[r.id].order = r.order
      /\ payments[r.id].at = r.at
  BY <1>2 DEF IsVersion, Present
<1>4. Present(payments)' = Present(payments) /\ Present(payments) \subseteq Auths
  BY <1>2, <1>3 DEF Present
<1>5. \A p \in Present(payments) :
        /\ payments'[p] # NULL
        /\ payments'[p].tier = payments[p].tier
        /\ payments'[p].amount = payments[p].amount
        /\ payments'[p].order = payments[p].order
        /\ payments'[p].at = payments[p].at
  <2>1. r # NULL
    BY RecordIsNotNull
  <2> SUFFICES ASSUME NEW p \in Present(payments)
               PROVE  /\ payments'[p] # NULL
                      /\ payments'[p].tier = payments[p].tier
                      /\ payments'[p].amount = payments[p].amount
                      /\ payments'[p].order = payments[p].order
                      /\ payments'[p].at = payments[p].at
    OBVIOUS
  <2>2. CASE p = r.id
    BY <1>2, <1>3, <2>1, <2>2
  <2>3. CASE p # r.id
    BY <1>2, <1>4, <2>3 DEF Present
  <2> QED BY <2>2, <2>3
<1>6. Grows
  BY <1>5 DEF Grows, Present
<1>7. /\ \A q \in QueuedPayments : IsVersion(q) => IsVersion(q)'
      /\ \A q \in QueuedPayments : SaysTheTruth(q) => SaysTheTruth(q)'
      /\ \A n \in Calls : TodoInv(n) => TodoInv(n)'
  BY <1>1, <1>6, GrowsKeeps
<1>8. \A d \in Callers \ {c} : CallInv(call[d])'
  BY <1>1, <1>6, OthersKeep
<1>9. CallInv(call[c])'
  <2>1. CallInv(call[c]) /\ call[c] \in Calls
    BY <1>1 DEF IInv, TypeOK
  <2>2. CallShape(call[c])'
    BY <1>1 DEF CallShape
  <2>3. TodoInv(call[c])'
    <3>1. TodoInv(k)
      BY <2>1 DEF CallInv, TodoInv
    <3>2. k \in Calls
      BY <2>1
    <3>3. TodoInv(k)'
      BY <1>7, <3>1, <3>2
    <3>4. call'[c].todo = k.todo
      BY <1>1
    <3> QED BY <3>3, <3>4 DEF TodoInv, IsVersion
  <2>4. ServingInv(call[c])'
    <3> SUFFICES ASSUME k.sale # NULL
                 PROVE  /\ payments'[k.sale] # NULL /\ payments'[k.sale].tier = k.tier
                        /\ CommitOnResolve =>
                             handed[k.sale] = 0 /\ stored[k.sale] # NULL
      BY <1>1 DEF ServingInv, Serves
    <3>1. /\ payments[k.sale] # NULL /\ payments[k.sale].tier = k.tier
          /\ CommitOnResolve => handed[k.sale] = 0 /\ stored[k.sale] # NULL
      BY <2>1 DEF CallInv, ServingInv, Serves, Waiting
    <3>2. k.sale \in Present(payments)
      BY <3>1 DEF Present, Calls
    <3> QED BY <1>5, <3>1, <3>2
  <2>5. ChainInv(call[c])'
    BY <1>1, <2>1 DEF CallInv, ChainInv
  <2> QED BY <2>2, <2>3, <2>4, <2>5 DEF CallInv
<1>10. SalesDiffer'
  BY <1>1 DEF IInv, SalesDiffer, Serves, Waiting
<1>11. WriterWaits'
  BY SaveWriter DEF Waiting
<1>12. RecordsInv'
  <2>1. IsVersion(r)' /\ SaysTheTruth(r)'
    BY <1>7
  <2>2. \A p \in Present(payments)' : SaysTheTruth(payments[p])'
    <3> SUFFICES ASSUME NEW p \in Present(payments) PROVE SaysTheTruth(payments[p])'
      BY <1>4
    <3>1. CASE p = r.id
      BY <1>2, <2>1, <3>1 DEF SaysTheTruth
    <3>2. CASE p # r.id
      <4>1. payments'[p] = payments[p] /\ payments[p] \in QueuedPayments
            /\ SaysTheTruth(payments[p])
        BY <1>1, <1>2, <1>4, <3>2, PresentType DEF IInv, RecordsInv
      <4> QED BY <1>7, <4>1 DEF SaysTheTruth
    <3> QED BY <3>1, <3>2
  <2>3. \A p \in Present(stored)' :
          IsVersion(stored[p])' /\ SaysTheTruth(stored[p])'
    <3> SUFFICES ASSUME NEW p \in Present(stored)
                 PROVE  IsVersion(stored[p])' /\ SaysTheTruth(stored[p])'
      BY DEF Present
    <3>1. stored[p] \in QueuedPayments /\ IsVersion(stored[p]) /\ SaysTheTruth(stored[p])
      BY <1>1, PresentType DEF IInv, RecordsInv
    <3> QED BY <1>7, <3>1 DEF IsVersion, SaysTheTruth
  <2>4. \A i \in DOMAIN writes' :
          IsVersion(writes[i].record)' /\ SaysTheTruth(writes[i].record)'
    <3> SUFFICES ASSUME NEW i \in DOMAIN writes'
                 PROVE  IsVersion(writes[i].record)' /\ SaysTheTruth(writes[i].record)'
      OBVIOUS
    <3>1. CASE i = Len(writes')
      BY <1>2, <2>1, <3>1 DEF IsVersion, SaysTheTruth
    <3>2. CASE i # Len(writes')
      <4>1. i \in DOMAIN writes /\ writes'[i] = writes[i]
        BY <1>2, <3>2
      <4>2. writes[i].record \in QueuedPayments
        BY <1>1, <4>1, WritesType
      <4>3. IsVersion(writes[i].record) /\ SaysTheTruth(writes[i].record)
        BY <4>1 DEF IInv, RecordsInv
      <4> QED BY <1>7, <4>1, <4>2, <4>3 DEF IsVersion, SaysTheTruth
    <3> QED BY <3>1, <3>2
  <2> QED BY <2>2, <2>3, <2>4 DEF RecordsInv
<1>13. LandedInv' /\ HandedInv'
  BY DEF IInv, LandedInv, HandedInv
<1>14. BackedInv'
  BY <1>4, <1>5 DEF IInv, BackedInv
<1>15. OwedInv'
  <2>1. Owed' = Owed
    BY <1>4, <1>5 DEF Owed
  <2>2. \A p \in Owed : payments'[p].amount = payments[p].amount
    BY <1>5 DEF Owed
  <2>3. [p \in Owed' |-> payments'[p].amount] = [p \in Owed |-> payments[p].amount]
    BY <2>1, <2>2
  <2> QED BY <2>3 DEF IInv, OwedInv, AmountsOf
<1> QED BY <1>1, <1>8, <1>9, <1>10, <1>11, <1>12, <1>13, <1>14, <1>15 DEF IInv

\* What is owed is exposed: it is in a state that counts against the cap.
LEMMA OwedIsExposed ==
  ASSUME IInv
  PROVE  Owed \subseteq {p \in Present(payments) :
                           payments[p].tier # "T0" /\ payments[p].state \in UNSETTLED}
<1> SUFFICES ASSUME NEW p \in Owed PROVE payments[p].state \in UNSETTLED
  BY DEF Owed
<1>1. p \in Present(payments) /\ landed[p] # "ok" /\ p \notin voidedShown
  BY DEF Owed
<1>2. payments[p] \in QueuedPayments /\ payments[p].id = p
  BY <1>1, PresentType DEF IInv
<1>3. SaysTheTruth(payments[p])
  BY <1>1 DEF IInv, RecordsInv
<1>4. payments[p].state \in States
  BY <1>2 DEF QueuedPayments
<1> QED BY <1>1, <1>2, <1>3, <1>4 DEF SaysTheTruth, States, UNSETTLED

\* Totals of amounts in memory grow with the set and with nothing else.
LEMMA AmountsMonotone ==
  ASSUME NEW book, NEW after, NEW S, NEW T, IsFiniteSet(T), S \subseteq T,
         \A p \in T : after[p].amount \in Nat,
         \A p \in S : book[p].amount = after[p].amount
  PROVE  AmountsOf(book, S) <= AmountsOf(after, T)
<1> DEFINE small == [p \in S |-> book[p].amount]
           large == [p \in T |-> after[p].amount]
<1>1. small \in [S -> Nat] /\ large \in [T -> Nat]
      /\ \A p \in S : small[p] <= large[p]
  OBVIOUS
<1>2. Total(small) <= Total(large)
  <2> HIDE DEF small, large
  <2> QED BY <1>1, TotalMonotone
<1> QED BY <1>2 DEF AmountsOf

LEMMA AmountsWithOneMore ==
  ASSUME NEW book, NEW after, NEW S, IsFiniteSet(S), NEW e, e \notin S,
         \A p \in S : book[p].amount \in Nat /\ after[p].amount = book[p].amount,
         after[e].amount \in Nat
  PROVE  /\ AmountsOf(book, S) \in Nat
         /\ AmountsOf(after, S \cup {e}) = AmountsOf(book, S) + after[e].amount
<1> DEFINE old == [p \in S |-> book[p].amount]
           new == [p \in S \cup {e} |-> after[p].amount]
<1>1. old \in [S -> Nat] /\ new \in [S \cup {e} -> Nat]
      /\ (\A p \in S : new[p] = old[p]) /\ new[e] = after[e].amount
  OBVIOUS
<1>2. Total(new) = Total(old) + new[e] /\ Total(old) \in Nat
  <2> HIDE DEF old, new
  <2>1. Total(new) = Total(old) + new[e]
    BY <1>1, TotalWithOneMore
  <2>2. Total(old) \in Nat
    BY <1>1, TotalType
  <2> QED BY <2>1, <2>2
<1> QED BY <1>1, <1>2 DEF AmountsOf

\* Accepting a payment the cap has room for.
LEMMA AcceptKeeps ==
  ASSUME IInv, TypeOK', NEW c \in Callers, Accept(c)
  PROVE  IInv'
<1>1. PICK r \in QueuedPayments, k \in Calls :
        /\ Save(c, r) /\ Moves(c, k)
        /\ r.id = call[c].sale /\ r.tier = call[c].tier
        /\ r.amount = call[c].amount /\ r.order = NextOrder(payments)
        /\ r.state = "queued"
        /\ k.phase = "accepting" /\ k.sale = call[c].sale
        /\ k.tier = call[c].tier /\ k.todo = call[c].todo /\ ~k.verdict
        /\ UNCHANGED <<clock, failures, stored, storedFailures, chainVars,
                       historyVars, drains>>
  BY AcceptType
<1>2. /\ TypeOK /\ call'[c] = k /\ \A d \in Callers : d # c => call'[d] = call[d]
      /\ call[c] \in Calls /\ CallInv(call[c])
      /\ UNCHANGED <<stored, account, landed, handed, voidedShown>>
  BY <1>1, MoveType DEF IInv, TypeOK, chainVars, historyVars
<1> DEFINE p == r.id
<1>3. /\ payments'[p] = r /\ p \in Auths
      /\ \A q \in Auths : q # p => payments'[q] = payments[q]
      /\ Present(payments)' = Present(payments) \cup {p}
      /\ Len(writes') = Len(writes) + 1 /\ DOMAIN writes' = 1 .. Len(writes')
      /\ DOMAIN writes = 1 .. Len(writes) /\ Len(writes) \in Nat
      /\ \A i \in DOMAIN writes : writes'[i] = writes[i]
      /\ writes'[Len(writes')] = [owner |-> c, record |-> r]
  BY <1>1, <1>2, SaveType
<1>4. call[c].phase = "offered" /\ payments[p] = NULL /\ p = call[c].sale
      /\ Acceptable(call[c])
  BY <1>1 DEF Accept, Acceptable
<1>5. p \notin Present(payments) /\ r # NULL /\ Present(payments) \subseteq Auths
  BY <1>4, RecordIsNotNull DEF Present
<1>6. \A q \in Present(payments) : payments'[q] = payments[q] /\ payments[q] # NULL
  BY <1>3, <1>5 DEF Present
<1>7. Grows
  BY <1>2, <1>6 DEF Grows, Present
<1>8. /\ \A q \in QueuedPayments : IsVersion(q) => IsVersion(q)'
      /\ \A q \in QueuedPayments : SaysTheTruth(q) => SaysTheTruth(q)'
      /\ \A n \in Calls : TodoInv(n) => TodoInv(n)'
  BY <1>2, <1>7, GrowsKeeps
<1>9. \A d \in Callers \ {c} : CallInv(call[d])'
  BY <1>2, <1>7, OthersKeep
<1>10. p \notin Present(stored)
  <2> SUFFICES ASSUME p \in Present(stored) PROVE FALSE
    OBVIOUS
  <2>1. IsVersion(stored[p]) /\ stored[p].id = p
    BY <1>2, PresentType DEF IInv, RecordsInv
  <2> QED BY <2>1, <1>4 DEF IsVersion
<1>11. ASSUME CommitOnResolve PROVE handed[p] = 0
  <2>1. handed[p] \in Nat /\ ~(handed[p] > 0)
    BY <1>2, <1>3, <1>10, <1>11 DEF IInv, HandedInv, TypeOK, Present
  <2> QED BY <2>1
<1>12. CallInv(call[c])'
  <2>1. CallShape(call[c])'
    BY <1>1, <1>2, <1>4 DEF CallInv, CallShape, InHand, Phases
  <2>2. TodoInv(call[c])'
    <3>1. TodoInv(k)
      BY <1>1, <1>2 DEF CallInv, TodoInv
    <3> QED BY <1>2, <1>8, <3>1 DEF TodoInv, IsVersion
  <2>3. ServingInv(call[c])'
    BY <1>1, <1>2, <1>3, <1>4, <1>5, <1>11 DEF ServingInv
  <2>4. ChainInv(call[c])'
    BY <1>1, <1>2 DEF ChainInv
  <2> QED BY <2>1, <2>2, <2>3, <2>4 DEF CallInv
<1>13. SalesDiffer'
  <2>1. ASSUME NEW d \in Callers, d # c, Serves(call[d]) PROVE call[d].sale # p
    <3>1. payments[call[d].sale] # NULL
      BY <2>1 DEF IInv, CallInv, ServingInv
    <3> QED BY <3>1, <1>4
  <2>2. k.sale = p /\ call'[c] = k
    BY <1>1, <1>2
  <2> QED BY <1>2, <2>1, <2>2 DEF IInv, SalesDiffer, Serves
<1>14. WriterWaits'
  BY <1>1, <1>4, SaveWriter DEF Waiting
<1>15. RecordsInv'
  <2>1. IsVersion(r)' /\ SaysTheTruth(r)'
    BY <1>1, <1>3, <1>5 DEF IsVersion, SaysTheTruth
  <2>2. \A q \in Present(payments)' : SaysTheTruth(payments[q])'
    <3> SUFFICES ASSUME NEW q \in Present(payments) \cup {p}
                 PROVE  SaysTheTruth(payments[q])'
      BY <1>3
    <3>1. CASE q = p
      BY <1>3, <2>1, <3>1 DEF SaysTheTruth
    <3>2. CASE q # p
      <4>1. payments'[q] = payments[q] /\ payments[q] \in QueuedPayments
            /\ SaysTheTruth(payments[q])
        BY <1>2, <1>6, <3>2, PresentType DEF IInv, RecordsInv
      <4> QED BY <1>8, <4>1 DEF SaysTheTruth
    <3> QED BY <3>1, <3>2
  <2>3. \A q \in Present(stored)' :
          IsVersion(stored[q])' /\ SaysTheTruth(stored[q])'
    <3> SUFFICES ASSUME NEW q \in Present(stored)
                 PROVE  IsVersion(stored[q])' /\ SaysTheTruth(stored[q])'
      BY <1>2 DEF Present
    <3>1. stored[q] \in QueuedPayments /\ IsVersion(stored[q]) /\ SaysTheTruth(stored[q])
      BY <1>2, PresentType DEF IInv, RecordsInv
    <3> QED BY <1>2, <1>8, <3>1 DEF IsVersion, SaysTheTruth
  <2>4. \A i \in DOMAIN writes' :
          IsVersion(writes[i].record)' /\ SaysTheTruth(writes[i].record)'
    <3> SUFFICES ASSUME NEW i \in DOMAIN writes'
                 PROVE  IsVersion(writes[i].record)' /\ SaysTheTruth(writes[i].record)'
      OBVIOUS
    <3>1. CASE i = Len(writes')
      BY <1>3, <2>1, <3>1 DEF IsVersion, SaysTheTruth
    <3>2. CASE i # Len(writes')
      <4>1. i \in DOMAIN writes /\ writes'[i] = writes[i]
        BY <1>3, <3>2
      <4>2. writes[i].record \in QueuedPayments
        BY <1>2, <4>1, WritesType
      <4>3. IsVersion(writes[i].record) /\ SaysTheTruth(writes[i].record)
        BY <4>1 DEF IInv, RecordsInv
      <4> QED BY <1>8, <4>1, <4>2, <4>3 DEF IsVersion, SaysTheTruth
    <3> QED BY <3>1, <3>2
  <2> QED BY <2>2, <2>3, <2>4 DEF RecordsInv
<1>16. LandedInv' /\ HandedInv'
  BY <1>2 DEF IInv, LandedInv, HandedInv
<1>17. BackedInv'
  <2> SUFFICES ASSUME NEW q \in (Present(payments) \cup {p}) \ Fresh,
                      payments'[q].tier = "T1"
               PROVE  account[q] # "fabricated"
    BY <1>2, <1>3 DEF BackedInv
  <2>1. CASE q = p
    <3>1. call[c].tier = "T1" /\ call[c].sale \notin Fresh
      BY <1>1, <1>3, <2>1
    <3>2. call[c].verdict
      BY <1>4, <3>1 DEF Acceptable, MustLookUp
    <3> QED BY <1>2, <1>4, <2>1, <3>2 DEF CallInv, ChainInv
  <2>2. CASE q # p
    BY <1>6, <2>2 DEF IInv, BackedInv
  <2> QED BY <2>1, <2>2
<1>18. OwedInv'
  <2> DEFINE exposed == {q \in Present(payments) :
                           payments[q].tier # "T0" /\ payments[q].state \in UNSETTLED}
  <2>1. Owed \subseteq exposed
    BY OwedIsExposed
  <2>2. Owed' \subseteq Owed \cup (IF r.tier = "T0" THEN {} ELSE {p})
    BY <1>2, <1>3, <1>6 DEF Owed
  <2>3. IsFiniteSet(exposed)
    BY <1>5, AuthsAssumption, FS_Subset
  <2>4. \A q \in exposed : payments[q].amount \in Nat /\ payments'[q] = payments[q]
    BY <1>2, <1>6, PresentType, LimitAssumption DEF QueuedPayments
  <2>5. r.amount \in Nat
    BY LimitAssumption DEF QueuedPayments
  <2>6. CASE r.tier = "T0"
    <3>1. Owed' \subseteq Owed
      BY <2>2, <2>6
    <3>2. IsFiniteSet(Owed)
      BY <2>1, <2>3, FS_Subset
    <3>3. \A q \in Owed : payments[q].amount \in Nat /\ payments'[q] = payments[q]
      BY <2>1, <2>4
    <3>4. AmountsOf(payments', Owed') <= AmountsOf(payments, Owed)
      BY <3>1, <3>2, <3>3, AmountsMonotone
    <3>5. AmountsOf(payments, Owed) <= ExposureCap
      BY DEF IInv, OwedInv
    <3>6. AmountsOf(payments, Owed) \in Nat /\ AmountsOf(payments', Owed') \in Nat
      <4>1. IsFiniteSet(Owed')
        BY <3>1, <3>2, FS_Subset
      <4>2. [q \in Owed |-> payments[q].amount] \in [Owed -> Nat]
        BY <3>3
      <4>3. [q \in Owed' |-> payments'[q].amount] \in [Owed' -> Nat]
        BY <3>1, <3>3
      <4> QED BY <3>2, <4>1, <4>2, <4>3, TotalType DEF AmountsOf
    <3> QED BY <3>4, <3>5, <3>6, LimitAssumption DEF OwedInv
  <2>7. CASE r.tier # "T0"
    <3>1. Owed' \subseteq exposed \cup {p}
      BY <2>1, <2>2, <2>7
    <3>2. p \notin exposed
      BY <1>5
    <3>3. Exposure(payments) + r.amount <= ExposureCap
      BY <1>1, <1>4, <2>7 DEF Acceptable
    <3>4. Exposure(payments) = AmountsOf(payments, exposed)
      BY DEF Exposure
    <3>5. payments'[p].amount = r.amount
      BY <1>3
    <3>6. IsFiniteSet(exposed \cup {p})
      <4> HIDE DEF exposed
      <4> QED BY <2>3, FS_AddElement
    <3>7. \A q \in exposed \cup {p} : payments'[q].amount \in Nat
      BY <2>4, <2>5, <3>5
    <3> HIDE DEF exposed, p
    <3>8. /\ AmountsOf(payments, exposed) \in Nat
          /\ AmountsOf(payments', exposed \cup {p}) =
               AmountsOf(payments, exposed) + r.amount
      BY <2>3, <2>4, <2>5, <3>2, <3>5, AmountsWithOneMore
    <3>9. AmountsOf(payments', Owed') <= AmountsOf(payments', exposed \cup {p})
      BY <3>1, <3>6, <3>7, AmountsMonotone
    <3>10. AmountsOf(payments', Owed') \in Nat
      <4>1. IsFiniteSet(Owed')
        BY <3>1, <3>6, FS_Subset
      <4>2. [q \in Owed' |-> payments'[q].amount] \in [Owed' -> Nat]
        BY <3>1, <3>7
      <4> QED BY <4>1, <4>2, TotalType DEF AmountsOf
    <3> QED BY <2>5, <3>3, <3>4, <3>8, <3>9, <3>10, LimitAssumption DEF OwedInv
  <2> QED BY <2>6, <2>7
<1> HIDE DEF p
<1> QED BY <1>2, <1>9, <1>12, <1>13, <1>14, <1>15, <1>16, <1>17, <1>18 DEF IInv

\* A call that begins, or leaves, holds nothing the invariant speaks of.
LEMMA IdleInv == CallInv(Idle) /\ ~Serves(Idle)
BY IdleType DEF Idle, CallInv, CallShape, TodoInv, ServingInv, Serves, ChainInv, InHand, Phases

\* What is eligible may be drained.
LEMMA EligibleInv ==
  ASSUME TypeOK, NEW todo \in Ordered(Eligible(payments))
  PROVE  /\ todo \in Seq(QueuedPayments)
         /\ \A i \in DOMAIN todo :
              IsVersion(todo[i]) /\ todo[i].state \in {"queued", "failed"}
<1>1. /\ todo \in Seq(QueuedPayments)
      /\ \A i \in DOMAIN todo : todo[i] \in Eligible(payments)
  BY EligibleType, OrderedType
<1>2. \A q \in Eligible(payments) : IsVersion(q) /\ q.state \in {"queued", "failed"}
  BY PresentType DEF Eligible, IsVersion, Present
<1> QED BY <1>1, <1>2

\* Steps of accept and drain that save nothing.
LEMMA LocalKeeps ==
  ASSUME IInv, TypeOK', NEW c \in Callers,
         \/ PrecheckPasses(c) \/ Rejected(c) \/ MetaLands(c)
         \/ MetaWriteFails(c) \/ DrainBegins(c)
         \/ \E p \in Auths, tier \in Tiers, a \in Amounts : Offer(c, p, tier, a)
  PROVE  IInv'
<1> DEFINE k == call[c]
<1>0. TypeOK /\ call[c] \in Calls /\ CallInv(call[c])
  BY DEF IInv, TypeOK
<1>1. CASE PrecheckPasses(c)
  <2> DEFINE n == [k EXCEPT !.verdict = TRUE]
  <2>1. /\ n \in Calls /\ n.phase = k.phase /\ n.sale = k.sale /\ n.todo = k.todo
        /\ n.tier = k.tier /\ n.amount = k.amount /\ n.result = k.result
    BY <1>0 DEF Calls
  <2>2. /\ k.phase = "offered" /\ account[k.sale] = "current" /\ Moves(c, n)
        /\ UNCHANGED <<payments, stored, writes, account, landed, handed, voidedShown>>
    BY <1>1 DEF PrecheckPasses, OnlyTheCall, chainVars, historyVars
  <2> HIDE DEF n
  <2>3. CallInv(n) /\ ~Serves(n)
    BY <1>0, <2>1, <2>2
       DEF CallInv, CallShape, TodoInv, ServingInv, Serves, ChainInv
  <2> QED BY <2>1, <2>2, <2>3, MoveKeeps DEF Waiting
<1>2. CASE Rejected(c)
  <2>1. /\ k.phase = "offered" /\ Moves(c, Idle)
        /\ UNCHANGED <<payments, stored, writes, account, landed, handed, voidedShown>>
    BY <1>2 DEF Rejected, OnlyTheCall, chainVars, historyVars
  <2> QED BY <2>1, IdleType, IdleInv, MoveKeeps DEF Waiting
<1>3. CASE MetaLands(c)
  <2> DEFINE n == [k EXCEPT !.phase = "next", !.todo = Tail(k.todo)]
  <2>1. /\ k.phase = "meta" /\ Moves(c, n)
        /\ UNCHANGED <<payments, stored, writes, account, landed, handed, voidedShown>>
    BY <1>3 DEF MetaLands, chainVars, historyVars
  <2>2. k.todo # <<>> /\ k.todo \in Seq(QueuedPayments)
    BY <1>0, <2>1 DEF CallInv, CallShape, InHand, Phases, Calls
  <2>3. /\ Tail(k.todo) \in Seq(QueuedPayments)
        /\ \A i \in DOMAIN Tail(k.todo) :
             i + 1 \in DOMAIN k.todo /\ Tail(k.todo)[i] = k.todo[i + 1]
    BY <2>2, HeadTailProperties, LenProperties
  <2>4. /\ n \in Calls /\ n.phase = "next" /\ n.sale = k.sale /\ n.tier = k.tier
        /\ n.todo = Tail(k.todo) /\ n.verdict = k.verdict
    BY <1>0, <2>3 DEF Calls, Phases
  <2> HIDE DEF n
  <2>5. CallInv(n)
    <3>1. CallShape(n)
      BY <1>0, <2>4 DEF CallInv, CallShape, InHand
    <3>2. TodoInv(n)
      BY <1>0, <2>3, <2>4 DEF CallInv, TodoInv
    <3>3. ServingInv(n)
      BY <1>0, <2>1, <2>4 DEF CallInv, ServingInv, Serves
    <3>4. ChainInv(n)
      BY <1>0, <2>4 DEF CallInv, ChainInv
    <3> QED BY <3>1, <3>2, <3>3, <3>4 DEF CallInv
  <2> QED BY <2>1, <2>4, <2>5, MoveKeeps DEF Serves, Waiting
<1>4. CASE MetaWriteFails(c)
  <2>1. /\ k.phase = "meta" /\ Moves(c, Idle)
        /\ UNCHANGED <<payments, stored, writes, account, landed, handed, voidedShown>>
    BY <1>4 DEF MetaWriteFails, ThrowsOut, chainVars, historyVars
  <2> QED BY <2>1, IdleType, IdleInv, MoveKeeps DEF Waiting
<1>5. CASE DrainBegins(c)
  <2>1. PICK todo \in Ordered(Eligible(payments)) :
          Moves(c, [Idle EXCEPT !.phase = "next", !.todo = todo])
    BY <1>5 DEF DrainBegins
  <2> DEFINE n == [Idle EXCEPT !.phase = "next", !.todo = todo]
  <2>2. /\ k = Idle /\ Moves(c, n)
        /\ UNCHANGED <<payments, stored, writes, account, landed, handed, voidedShown>>
    BY <1>5, <2>1 DEF DrainBegins, chainVars, historyVars
  <2>3. /\ todo \in Seq(QueuedPayments)
        /\ \A i \in DOMAIN todo :
             IsVersion(todo[i]) /\ todo[i].state \in {"queued", "failed"}
    BY <1>0, EligibleInv
  <2>4. /\ n \in Calls /\ n.phase = "next" /\ n.sale = NULL /\ n.todo = todo
        /\ n.verdict = FALSE
    BY <2>3, IdleType DEF Idle, Calls, Phases
  <2> HIDE DEF n
  <2>5. CallInv(n) /\ ~Serves(n)
    BY <2>3, <2>4 DEF CallInv, CallShape, InHand, TodoInv, ServingInv, Serves, ChainInv
  <2>6. k.phase = "idle"
    BY <2>2 DEF Idle
  <2> QED BY <2>2, <2>4, <2>5, <2>6, MoveKeeps DEF Waiting
<1>6. CASE \E p \in Auths, tier \in Tiers, a \in Amounts : Offer(c, p, tier, a)
  <2>1. PICK p \in Auths, tier \in Tiers, a \in Amounts : Offer(c, p, tier, a)
    BY <1>6
  <2> DEFINE n == [Idle EXCEPT !.phase = "offered", !.sale = p, !.tier = tier,
                               !.amount = a]
  <2>2. /\ k = Idle /\ Moves(c, n)
        /\ UNCHANGED <<payments, stored, writes, account, landed, handed, voidedShown>>
    BY <2>1 DEF Offer, OnlyTheCall, chainVars, historyVars
  <2>3. /\ n \in Calls /\ n.phase = "offered" /\ n.sale = p /\ n.todo = <<>>
        /\ n.verdict = FALSE /\ n.tier = tier /\ n.amount = a
    BY IdleType DEF Idle, Calls, Phases
  <2> HIDE DEF n
  <2>4. p # NULL /\ tier # NULL /\ a # NULL
    BY NullAssumption
  <2>5. CallInv(n) /\ ~Serves(n)
    BY <2>3, <2>4 DEF CallInv, CallShape, InHand, TodoInv, ServingInv, Serves, ChainInv
  <2>6. k.phase = "idle"
    BY <2>2 DEF Idle
  <2> QED BY <2>2, <2>3, <2>5, <2>6, MoveKeeps DEF Waiting
<1> QED BY <1>1, <1>2, <1>3, <1>4, <1>5, <1>6

\* A submission goes from one of its phases to another.
LEMMA PhaseKeeps ==
  ASSUME IInv, TypeOK', NEW c \in Callers, NEW n \in Calls, Moves(c, n),
         UNCHANGED <<payments, stored, writes, account, landed, handed, voidedShown>>,
         call[c].phase \in InHand \ Waiting,
         n.phase \in {"confirming", "lookup", "readback", "precheck"},
         n.phase = "readback" => landed[Head(call[c].todo).id] = "ok",
         n.sale = call[c].sale, n.tier = call[c].tier, n.todo = call[c].todo,
         n.verdict = call[c].verdict
  PROVE  IInv'
<1>1. CallInv(call[c]) /\ call[c] \in Calls
  BY DEF IInv, TypeOK
<1>2. CallShape(n)
  BY <1>1 DEF CallInv, CallShape
<1>3. TodoInv(n)
  BY <1>1 DEF CallInv, TodoInv
<1>4. ServingInv(n) /\ (Serves(n) => Serves(call[c]))
  BY <1>1 DEF CallInv, ServingInv, Serves, InHand, Waiting, Phases
<1>5. ChainInv(n)
  BY <1>1 DEF CallInv, ChainInv
<1> QED BY <1>2, <1>3, <1>4, <1>5, MoveKeeps DEF CallInv

\* submit's outcome is recorded, and is settled only if the payment landed.
LEMMA ResolvesKeeps ==
  ASSUME IInv, TypeOK', NEW c \in Callers, NEW code \in Codes, Resolves(c, code),
         call[c].phase \in {"readback", "lookup", "precheck"},
         code = "settled" => landed[Head(call[c].todo).id] = "ok"
  PROVE  IInv'
<1>1. CallInv(call[c]) /\ call[c] \in Calls /\ TypeOK
  BY DEF IInv, TypeOK
<1>2. call[c].todo # <<>>
  BY <1>1 DEF CallInv, CallShape, InHand, Phases
<1>3. PICK r \in QueuedPayments, k \in Calls :
        /\ Save(c, r) /\ Moves(c, k)
        /\ r.id = Head(call[c].todo).id
        /\ r.tier = Head(call[c].todo).tier /\ r.amount = Head(call[c].todo).amount
        /\ r.order = Head(call[c].todo).order /\ r.at = Head(call[c].todo).at
        /\ r.state \in {"settled", "failed"}
        /\ r.state = "settled" <=> code = "settled"
        /\ k.phase = "recording" /\ k.result = code
        /\ k.sale = call[c].sale /\ k.tier = call[c].tier
        /\ k.todo = call[c].todo /\ k.verdict = call[c].verdict
        /\ UNCHANGED <<clock, failures, stored, storedFailures, chainVars,
                       historyVars, drains>>
  BY <1>2, ResolvesType
<1>4. IsVersion(Head(call[c].todo))
  BY <1>1, <1>2, HeadType DEF CallInv, TodoInv
<1>5. IsVersion(r)
  BY <1>3, <1>4 DEF IsVersion
<1>6. SaysTheTruth(r)
  BY <1>3 DEF SaysTheTruth
<1>7. CallShape(k)
  BY <1>1, <1>2, <1>3, NullAssumption DEF CallInv, CallShape
<1>8. UNCHANGED <<stored, account, landed, handed, voidedShown>>
  BY <1>3 DEF chainVars, historyVars
<1> QED BY <1>3, <1>5, <1>6, <1>7, <1>8, SaveKeeps DEF Waiting

LEMMA MarksKeeps ==
  ASSUME IInv, TypeOK', NEW c \in Callers, MarksSubmitting(c)
  PROVE  IInv'
<1>1. CallInv(call[c]) /\ call[c] \in Calls /\ TypeOK
  BY DEF IInv, TypeOK
<1>2. PICK r \in QueuedPayments, k \in Calls :
        /\ Save(c, r) /\ Moves(c, k)
        /\ r.id = Head(call[c].todo).id
        /\ r.tier = Head(call[c].todo).tier /\ r.amount = Head(call[c].todo).amount
        /\ r.order = Head(call[c].todo).order /\ r.at = Head(call[c].todo).at
        /\ r.state = "submitting"
        /\ k.phase = "marking" /\ k.sale = call[c].sale
        /\ k.tier = call[c].tier /\ k.todo = call[c].todo
        /\ k.verdict = call[c].verdict
        /\ UNCHANGED <<clock, failures, stored, storedFailures, chainVars,
                       historyVars, drains>>
  BY MarksType
<1>3. call[c].phase = "next" /\ call[c].todo # <<>>
  BY DEF MarksSubmitting
<1>4. IsVersion(Head(call[c].todo))
  BY <1>1, <1>3, HeadType DEF CallInv, TodoInv
<1>5. IsVersion(r)
  BY <1>2, <1>4 DEF IsVersion
<1>6. SaysTheTruth(r)
  BY <1>2 DEF SaysTheTruth
<1>7. CallShape(k)
  BY <1>1, <1>2, <1>3 DEF CallInv, CallShape
<1>8. UNCHANGED <<stored, account, landed, handed, voidedShown>>
  BY <1>2 DEF chainVars, historyVars
<1> QED BY <1>2, <1>3, <1>5, <1>6, <1>7, <1>8, SaveKeeps DEF Waiting

\* The steps of a submission.
LEMMA NetworkKeeps ==
  ASSUME IInv, TypeOK', NEW c \in Callers, NetworkStep(c)
  PROVE  IInv'
<1> DEFINE k == call[c]
           moved(ph) == [k EXCEPT !.phase = ph]
<1>0. TypeOK /\ call[c] \in Calls /\ CallInv(call[c])
  BY DEF IInv, TypeOK
<1>1. ASSUME NEW ph \in {"confirming", "readback", "precheck"}, Moves(c, moved(ph)),
             UNCHANGED <<payments, stored, writes, account, landed, handed, voidedShown>>,
             k.phase \in InHand \ Waiting,
             ph = "readback" => landed[Head(k.todo).id] = "ok"
      PROVE  IInv'
  <2>1. /\ moved(ph) \in Calls /\ moved(ph).phase = ph /\ moved(ph).sale = k.sale
        /\ moved(ph).tier = k.tier /\ moved(ph).todo = k.todo
        /\ moved(ph).verdict = k.verdict
    BY <1>0 DEF Calls, Phases
  <2> HIDE DEF moved
  <2> QED BY <1>1, <2>1, PhaseKeeps
<1>2. ASSUME NEW error \in FailCodes \cup {NULL}, NEW caught \in BOOLEAN,
             Moves(c, [k EXCEPT !.phase = "lookup", !.error = error, !.caught = caught]),
             UNCHANGED <<payments, stored, writes, account, landed, handed, voidedShown>>,
             k.phase \in InHand \ Waiting
      PROVE  IInv'
  <2> DEFINE n == [k EXCEPT !.phase = "lookup", !.error = error, !.caught = caught]
  <2>0. n \in Calls
    BY <1>0, <1>2 DEF Calls, Phases
  <2>1. /\ n \in Calls /\ n.phase = "lookup" /\ n.sale = k.sale
        /\ n.tier = k.tier /\ n.todo = k.todo /\ n.verdict = k.verdict
    BY <1>0, <2>0 DEF Calls
  <2>2. Moves(c, n)
    BY <1>2
  <2> HIDE DEF n
  <2> QED BY <1>2, <2>1, <2>2, PhaseKeeps
<1>3. CASE Broadcasts(c)
  <2>1. /\ k.phase \in InHand \ Waiting /\ Moves(c, moved("confirming"))
        /\ UNCHANGED <<payments, stored, writes, account, landed, handed, voidedShown>>
    BY <1>3 DEF Broadcasts, historyVars, InHand, Waiting, Phases
  <2> HIDE DEF moved
  <2> QED BY <1>1, <2>1
<1>4. CASE SendRefused(c) \/ SendUnconfirmed(c)
  <2>1. /\ k.phase \in InHand \ Waiting
        /\ \E error \in FailCodes \cup {NULL} : SendThrows(c, error)
    BY <1>4, SendThrowsCases DEF InHand, Waiting, Phases
  <2>2. PICK error \in FailCodes \cup {NULL} : SendThrows(c, error)
    BY <2>1
  <2>3. Moves(c, [k EXCEPT !.phase = "lookup", !.error = error, !.caught = TRUE])
        /\ UNCHANGED <<payments, stored, writes, account, landed, handed, voidedShown>>
    BY <2>2 DEF SendThrows, OnlyTheCall, chainVars, historyVars
  <2> QED BY <1>2, <2>1, <2>3
<1>5. CASE SendConfirmed(c)
  <2>1. /\ k.phase \in InHand \ Waiting /\ Moves(c, moved("readback"))
        /\ landed[Head(k.todo).id] = "ok"
        /\ UNCHANGED <<payments, stored, writes, account, landed, handed, voidedShown>>
    BY <1>5 DEF SendConfirmed, OnlyTheCall, chainVars, historyVars, InHand, Waiting, Phases
  <2> HIDE DEF moved
  <2> QED BY <1>1, <2>1
<1>6. Told(k.error) \in FailCodes /\ FailCodes \subseteq Codes /\ "settled" \in Codes
      /\ "settled" \notin FailCodes
  BY <1>0 DEF Told, Calls, FailCodes, Codes
<1>7. ASSUME NEW code \in FailCodes, Resolves(c, code),
             k.phase \in {"lookup", "precheck"}
      PROVE  IInv'
  <2>1. code \in Codes /\ code # "settled"
    BY <1>6
  <2> QED BY <1>7, <2>1, ResolvesKeeps
<1>8. CASE ReadsBack(c)
  <2>1. k.phase = "readback" /\ Resolves(c, "settled")
    BY <1>8 DEF ReadsBack
  <2>2. landed[Head(k.todo).id] = "ok"
    BY <1>0, <2>1 DEF CallInv, ChainInv
  <2> QED BY <1>6, <2>1, <2>2, ResolvesKeeps
<1>9. CASE LooksUp(c)
  <2>1. k.phase = "lookup" /\ k.phase \in InHand \ Waiting
    BY <1>9 DEF LooksUp, InHand, Waiting, Phases
  <2>2. CASE \/ landed[Head(k.todo).id] = "ok" /\ Moves(c, moved("readback")) /\ OnlyTheCall
             \/ Moves(c, moved("precheck")) /\ OnlyTheCall
    <3>1. UNCHANGED <<payments, stored, writes, account, landed, handed, voidedShown>>
      BY <2>2 DEF OnlyTheCall, chainVars, historyVars
    <3> HIDE DEF moved
    <3> QED BY <1>1, <2>1, <2>2, <3>1
  <2>3. CASE Resolves(c, "SUBMIT_EXECUTION_FAILED") \/ Resolves(c, Told(k.error))
    <3>1. "SUBMIT_EXECUTION_FAILED" \in FailCodes
      BY DEF FailCodes
    <3> QED BY <1>6, <1>7, <2>1, <2>3, <3>1
  <2> QED BY <1>9, <2>2, <2>3 DEF LooksUp
<1>10. CASE Classifies(c)
  <2>1. k.phase = "precheck"
    BY <1>10 DEF Classifies
  <2>2. \/ Resolves(c, Told(k.error)) \/ Resolves(c, "SUBMIT_NONCE_STALE")
        \/ Resolves(c, "SUBMIT_NONCE_ABSENT")
    BY <1>10 DEF Classifies
  <2>3. {"SUBMIT_NONCE_STALE", "SUBMIT_NONCE_ABSENT"} \subseteq FailCodes
    BY DEF FailCodes
  <2> QED BY <1>6, <1>7, <2>1, <2>2, <2>3
<1>11. CASE ReadFails(c)
  <2>1. k.phase \in InHand \ Waiting
    BY <1>11 DEF ReadFails, AwaitsRead, InHand, Waiting, Phases
  <2>2. CASE k.caught
    <3>1. /\ Moves(c, Idle)
          /\ UNCHANGED <<payments, stored, writes, account, landed, handed, voidedShown>>
      BY <1>11, <2>2 DEF ReadFails, ThrowsOut, chainVars
    <3> QED BY <2>1, <3>1, IdleType, IdleInv, MoveKeeps
  <2>3. CASE ~k.caught
    <3>1. /\ Moves(c, [k EXCEPT !.phase = "lookup", !.caught = TRUE,
                                !.error = "SUBMIT_RPC_UNAVAILABLE"])
          /\ UNCHANGED <<payments, stored, writes, account, landed, handed, voidedShown>>
      BY <1>11, <2>3 DEF ReadFails, chainVars, historyVars
    <3>2. [k EXCEPT !.phase = "lookup", !.caught = TRUE,
                    !.error = "SUBMIT_RPC_UNAVAILABLE"]
            = [k EXCEPT !.phase = "lookup", !.error = "SUBMIT_RPC_UNAVAILABLE",
                        !.caught = TRUE]
      BY <1>0 DEF Calls
    <3>3. "SUBMIT_RPC_UNAVAILABLE" \in FailCodes
      BY DEF FailCodes
    <3> QED BY <1>2, <2>1, <3>1, <3>2, <3>3
  <2> QED BY <2>2, <2>3
<1> QED BY <1>3, <1>4, <1>5, <1>8, <1>9, <1>10, <1>11 DEF NetworkStep, ReadAnswered

\* While memory stays as it is, a version may travel from the writes to the store.
LEMMA RecordsStay ==
  ASSUME IInv, Grows, UNCHANGED payments,
         \A p \in Present(stored)' :
           \/ p \in Present(stored) /\ stored'[p] = stored[p]
           \/ \E i \in DOMAIN writes : stored'[p] = writes[i].record,
         \A i \in DOMAIN writes' : \E j \in DOMAIN writes :
           writes'[i].record = writes[j].record
  PROVE  RecordsInv'
<1>1. TypeOK /\ RecordsInv
  BY DEF IInv
<1>2. /\ \A q \in QueuedPayments : IsVersion(q) => IsVersion(q)'
      /\ \A q \in QueuedPayments : SaysTheTruth(q) => SaysTheTruth(q)'
  BY <1>1, GrowsKeeps
<1>3. \A j \in DOMAIN writes :
        /\ writes[j].record \in QueuedPayments
        /\ IsVersion(writes[j].record) /\ SaysTheTruth(writes[j].record)
  BY <1>1, WritesType DEF RecordsInv
<1>4. ASSUME NEW p \in Present(payments)' PROVE SaysTheTruth(payments[p])'
  <2>1. p \in Present(payments) /\ payments[p] \in QueuedPayments
        /\ SaysTheTruth(payments[p])
    BY <1>1, <1>4, PresentType DEF RecordsInv, Present
  <2> QED BY <1>2, <2>1 DEF SaysTheTruth
<1>5. ASSUME NEW p \in Present(stored)'
      PROVE  IsVersion(stored[p])' /\ SaysTheTruth(stored[p])'
  <2>1. CASE p \in Present(stored) /\ stored'[p] = stored[p]
    <3>1. stored[p] \in QueuedPayments /\ IsVersion(stored[p]) /\ SaysTheTruth(stored[p])
      BY <1>1, <2>1, PresentType DEF RecordsInv
    <3> QED BY <1>2, <2>1, <3>1 DEF IsVersion, SaysTheTruth
  <2>2. CASE \E i \in DOMAIN writes : stored'[p] = writes[i].record
    <3>1. PICK i \in DOMAIN writes : stored'[p] = writes[i].record
      BY <2>2
    <3> QED BY <1>2, <1>3, <3>1 DEF IsVersion, SaysTheTruth
  <2> QED BY <2>1, <2>2
<1>6. ASSUME NEW i \in DOMAIN writes'
      PROVE  IsVersion(writes[i].record)' /\ SaysTheTruth(writes[i].record)'
  <2>1. PICK j \in DOMAIN writes : writes'[i].record = writes[j].record
    OBVIOUS
  <2> QED BY <1>2, <1>3, <2>1 DEF IsVersion, SaysTheTruth
<1> QED BY <1>4, <1>5, <1>6 DEF RecordsInv

\* Once the first write has left, the callers of the others still wait.
LEMMA TailWaits ==
  ASSUME IInv, writes # <<>>, writes' = Tail(writes),
         \A d \in Callers : d # Head(writes).owner => call'[d] = call[d]
  PROVE  WriterWaits'
<1>1. /\ DOMAIN Tail(writes) = 1 .. Len(Tail(writes))
      /\ \A i \in DOMAIN Tail(writes) :
           i + 1 \in DOMAIN writes /\ Tail(writes)[i] = writes[i + 1]
      /\ Head(writes).owner # NULL =>
           \A i \in DOMAIN Tail(writes) : Tail(writes)[i].owner # Head(writes).owner
  BY FirstWrite
<1> SUFFICES ASSUME NEW i \in DOMAIN Tail(writes), Tail(writes)[i].owner # NULL
             PROVE  /\ call'[Tail(writes)[i].owner].phase \in Waiting
                    /\ call'[Tail(writes)[i].owner].phase = "accepting" =>
                         Tail(writes)[i].record.id = call'[Tail(writes)[i].owner].sale
                    /\ \A j \in DOMAIN Tail(writes) :
                         Tail(writes)[j].owner = Tail(writes)[i].owner => j = i
  BY DEF WriterWaits
<1> DEFINE o == writes[i + 1].owner
<1>2. /\ call[o].phase \in Waiting
      /\ call[o].phase = "accepting" => writes[i + 1].record.id = call[o].sale
      /\ \A j \in DOMAIN writes : writes[j].owner = o => j = i + 1
  BY <1>1 DEF IInv, WriterWaits
<1>3. o \in Callers /\ o # Head(writes).owner
  BY <1>1, WritesType DEF IInv
<1>4. call'[o] = call[o]
  BY <1>3
<1>5. \A j \in DOMAIN Tail(writes) : Tail(writes)[j].owner = o => j = i
  BY <1>1, <1>2
<1> QED BY <1>1, <1>2, <1>4, <1>5

\* A write resolves, and its caller goes on, whether or not the store commits it.
LEMMA WriteLandsKeeps ==
  ASSUME IInv, TypeOK', WriteLands
  PROVE  IInv'
<1> PICK c, r : c = Head(writes).owner /\ r = Head(writes).record
  OBVIOUS
<1>0. TypeOK /\ writes # <<>> /\ writes' = Tail(writes)
      /\ \/ stored' = [stored EXCEPT ![r.id] = r]
         \/ ~CommitOnResolve /\ stored' = stored
      /\ UNCHANGED <<payments, account, landed, voidedShown>>
      /\ c = Head(writes).owner /\ r = Head(writes).record
  BY DEF IInv, WriteLands, chainVars
<1>1. /\ 1 \in DOMAIN writes /\ Head(writes) = writes[1] /\ r \in QueuedPayments
      /\ r.id \in Auths /\ r # NULL
      /\ DOMAIN Tail(writes) = 1 .. Len(Tail(writes))
      /\ \A i \in DOMAIN Tail(writes) :
           i + 1 \in DOMAIN writes /\ Tail(writes)[i] = writes[i + 1]
      /\ c # NULL => c \in Callers /\ call[c].phase \in Waiting
  BY <1>0, FirstWrite, RecordIsNotNull
<1>2. /\ \A p \in Auths : stored'[p] = stored[p] \/ (p = r.id /\ stored'[p] = r)
      /\ CommitOnResolve => stored'[r.id] = r
  BY <1>0, <1>1 DEF TypeOK, Books
<1>3. Present(stored) \subseteq Present(stored)'
  BY <1>1, <1>2 DEF Present
<1>4. Grows
  BY <1>0, <1>3 DEF Grows, Present
<1>5. RecordsInv'
  <2>1. ASSUME NEW p \in Present(stored)'
        PROVE  \/ p \in Present(stored) /\ stored'[p] = stored[p]
               \/ \E i \in DOMAIN writes : stored'[p] = writes[i].record
    BY <1>1, <1>2 DEF Present
  <2>2. ASSUME NEW i \in DOMAIN writes'
        PROVE  \E j \in DOMAIN writes : writes'[i].record = writes[j].record
    BY <1>0, <1>1
  <2> QED BY <1>0, <1>4, <2>1, <2>2, RecordsStay
<1>6. LandedInv' /\ BackedInv' /\ OwedInv'
  <2>1. LandedInv' /\ BackedInv'
    BY <1>0 DEF IInv, LandedInv, BackedInv, Present
  <2>2. OwedInv'
    BY <1>0 DEF IInv, OwedInv, Owed, AmountsOf, Present
  <2> QED BY <2>1, <2>2
<1>7. ASSUME UNCHANGED handed PROVE HandedInv'
  BY <1>3, <1>7 DEF IInv, HandedInv, Present
<1>8. CASE c = NULL
  <2>1. UNCHANGED <<call, handed>>
    BY <1>8 DEF WriteLands
  <2>2. \A d \in Callers : CallInv(call[d])'
    BY <1>4, <2>1, OthersKeep
  <2>3. SalesDiffer'
    BY <2>1 DEF IInv, SalesDiffer, Serves
  <2>4. WriterWaits'
    BY <1>0, <2>1, TailWaits
  <2> QED BY <1>5, <1>6, <1>7, <2>1, <2>2, <2>3, <2>4 DEF IInv
<1>9. CASE c # NULL
  <2>1. c \in Callers /\ call[c].phase \in Waiting /\ Resumes(c)
    BY <1>1, <1>9 DEF WriteLands
  <2>2. call[c] \in Calls /\ CallInv(call[c]) /\ NULL \notin Callers
    BY <1>0, <2>1, NullAssumption DEF IInv, TypeOK
  <2>3. call[c].phase = "accepting" => r.id = call[c].sale
    BY <1>1, <1>9 DEF IInv, WriterWaits
  <2> DEFINE T0(k) == /\ call[c].phase = "accepting" /\ call[c].tier = "T0"
                      /\ k.phase = "next" /\ k.todo \in Ordered(Eligible(payments))
                      /\ k.sale = call[c].sale /\ k.tier = call[c].tier
                      /\ k.verdict = call[c].verdict /\ UNCHANGED handed
             Rest(k) == /\ call[c].phase = "accepting" /\ call[c].tier # "T0" /\ k = Idle
                        /\ call[c].sale \in Auths
                        /\ handed' = [handed EXCEPT ![call[c].sale] = @ + 1]
             On(k) == /\ call[c].phase \in {"marking", "recording"}
                      /\ k.phase = IF call[c].phase = "marking" THEN "sending" ELSE "meta"
                      /\ k.sale = call[c].sale /\ k.tier = call[c].tier
                      /\ k.todo = call[c].todo /\ k.verdict = call[c].verdict
                      /\ UNCHANGED handed
  <2>4. \E k \in Calls : Moves(c, k) /\ (T0(k) \/ Rest(k) \/ On(k))
    <3>1. PICK k \in Calls :
            /\ Moves(c, k) /\ failures' \in Nat /\ handed' \in [Auths -> Nat]
            /\ \/ /\ call[c].phase = "accepting" /\ call[c].tier = "T0"
                  /\ k.phase = "next" /\ k.todo \in Ordered(Eligible(payments))
                  /\ k.sale = call[c].sale /\ k.tier = call[c].tier
                  /\ k.verdict = call[c].verdict /\ UNCHANGED handed
               \/ /\ call[c].phase = "accepting" /\ call[c].tier # "T0" /\ k = Idle
                  /\ call[c].sale \in Auths
                  /\ handed' = [handed EXCEPT ![call[c].sale] = @ + 1]
               \/ /\ call[c].phase \in {"marking", "recording"}
                  /\ k.phase = IF call[c].phase = "marking" THEN "sending" ELSE "meta"
                  /\ k.phase = "meta" => k.last = call[c].result
                  /\ k.sale = call[c].sale /\ k.tier = call[c].tier
                  /\ k.todo = call[c].todo /\ k.verdict = call[c].verdict
                  /\ UNCHANGED handed
      BY <2>1, ResumesCases
    <3> QED BY <3>1
  <2>5. PICK k \in Calls : Moves(c, k) /\ (T0(k) \/ Rest(k) \/ On(k))
    BY <2>4
  <2>6. call'[c] = k /\ \A d \in Callers : d # c => call'[d] = call[d]
    BY <1>0, <2>1, <2>5, MoveType
  <2>7. WriterWaits'
    <3>1. \A d \in Callers : d # Head(writes).owner => call'[d] = call[d]
      BY <2>6
    <3> QED BY <1>0, <3>1, TailWaits
  <2>8. Serves(call[c]) => /\ payments[call[c].sale] # NULL
                           /\ payments[call[c].sale].tier = call[c].tier
                           /\ CommitOnResolve => handed[call[c].sale] = 0
    BY <2>2 DEF CallInv, ServingInv
  <2>9. CASE T0(k) \/ On(k)
    <3>1. UNCHANGED handed /\ k.sale = call[c].sale /\ k.tier = call[c].tier
          /\ k.verdict = call[c].verdict
          /\ k.phase \in {"next", "sending", "meta"} /\ call[c].phase # "offered"
      BY <2>9
    <3>2. \A d \in Callers \ {c} : CallInv(call[d])'
      BY <1>4, <2>6, <3>1, OthersKeep
    <3>3. (CommitOnResolve /\ k.sale # NULL) => stored'[k.sale] # NULL
      <4> SUFFICES ASSUME CommitOnResolve, k.sale # NULL PROVE stored'[k.sale] # NULL
        OBVIOUS
      <4>1. k.sale \in Auths
        BY DEF Calls
      <4>2. CASE call[c].phase = "accepting"
        BY <1>1, <1>2, <2>3, <3>1, <4>1, <4>2
      <4>3. CASE call[c].phase # "accepting"
        <5>1. stored[k.sale] # NULL
          BY <2>2, <3>1, <4>3 DEF CallInv, ServingInv, Serves
        <5> QED BY <1>1, <1>2, <4>1, <5>1
      <4> QED BY <4>2, <4>3
    <3>4. CallInv(call[c])'
      <4>1. CallShape(k)
        BY <2>2, <2>9, <3>1 DEF CallInv, CallShape, InHand, Phases
      <4>2. TodoInv(k)
        BY <1>0, <2>2, <2>9, EligibleInv DEF CallInv, TodoInv
      <4>3. TodoInv(call[c])'
        BY <1>0, <2>6, <4>2 DEF TodoInv, IsVersion
      <4>4. ServingInv(call[c])'
        BY <1>0, <2>6, <2>8, <3>1, <3>3 DEF ServingInv, Serves
      <4>5. ChainInv(call[c])'
        BY <1>0, <2>2, <2>6, <3>1 DEF CallInv, ChainInv
      <4> QED BY <2>6, <4>1, <4>3, <4>4, <4>5 DEF CallInv, CallShape
    <3>5. SalesDiffer'
      BY <2>6, <3>1 DEF IInv, SalesDiffer, Serves
    <3> QED BY <1>5, <1>6, <1>7, <2>6, <2>7, <3>1, <3>2, <3>4, <3>5 DEF IInv
  <2>10. CASE Rest(k)
    <3>1. /\ call[c].phase = "accepting" /\ k = Idle /\ r.id = call[c].sale
          /\ handed' = [handed EXCEPT ![r.id] = @ + 1] /\ call[c].sale # NULL
      BY <1>1, <2>3, <2>10, NullAssumption
    <3>2. Serves(call[c]) /\ (CommitOnResolve => handed[r.id] = 0)
      BY <2>8, <3>1 DEF Serves
    <3>3. \A p \in Auths :
            handed'[p] = IF p = r.id THEN handed[p] + 1 ELSE handed[p]
      BY <1>0, <3>1 DEF TypeOK
    <3>4. \A d \in Callers \ {c} : Serves(call[d]) => call[d].sale # r.id
      BY <2>1, <3>1, <3>2 DEF IInv, SalesDiffer
    <3>5. \A d \in Callers \ {c} :
            Serves(call[d]) => handed'[call[d].sale] = handed[call[d].sale]
      <4> SUFFICES ASSUME NEW d \in Callers \ {c}, Serves(call[d])
                   PROVE  handed'[call[d].sale] = handed[call[d].sale]
        OBVIOUS
      <4>1. call[d] \in Calls
        BY <1>0 DEF TypeOK
      <4>2. call[d].sale \in Auths
        BY <4>1 DEF Serves, Calls
      <4> QED BY <3>3, <3>4, <4>2
    <3>6. \A d \in Callers \ {c} : CallInv(call[d])'
      BY <1>4, <2>6, <3>5, OthersKeep
    <3>7. CallInv(call[c])'
      <4>1. call'[c] = Idle
        BY <2>6, <3>1
      <4> QED BY <4>1, IdleInv
              DEF CallInv, CallShape, TodoInv, ServingInv, Serves, ChainInv, Idle
    <3>8. SalesDiffer'
      BY <2>6, <3>1, IdleInv DEF IInv, SalesDiffer, Serves
    <3>9. HandedInv'
      BY <1>1, <1>2, <3>2, <3>3 DEF IInv, HandedInv
    <3> QED BY <1>5, <1>6, <2>7, <3>6, <3>7, <3>8, <3>9 DEF IInv
  <2> QED BY <2>5, <2>9, <2>10
<1> QED BY <1>8, <1>9

\* A write is refused: its call is left, and the store stays as it is.
LEMMA WriteFailsKeeps ==
  ASSUME IInv, TypeOK', WriteFails
  PROVE  IInv'
<1> PICK c : c = Head(writes).owner
  OBVIOUS
<1>0. /\ TypeOK /\ writes # <<>> /\ writes' = Tail(writes)
      /\ c = Head(writes).owner
      /\ UNCHANGED <<payments, stored, account, landed, handed, voidedShown>>
  BY DEF IInv, WriteFails, ThrowsOut, chainVars, historyVars
<1>1. /\ DOMAIN Tail(writes) = 1 .. Len(Tail(writes))
      /\ \A i \in DOMAIN Tail(writes) :
           i + 1 \in DOMAIN writes /\ Tail(writes)[i] = writes[i + 1]
      /\ c # NULL => c \in Callers /\ call[c].phase \in Waiting
  BY <1>0, FirstWrite
<1>2. \A d \in Callers : call'[d] = call[d] \/ (d = c /\ call'[d] = Idle)
  BY <1>0, <1>1 DEF WriteFails, ThrowsOut, Moves, TypeOK
<1>3. Grows
  BY <1>0 DEF Grows, Present
<1>4. \A d \in Callers : CallInv(call[d])'
  <2> DEFINE same == {d \in Callers : call'[d] = call[d]}
  <2>1. \A d \in same : CallInv(call[d])'
    BY <1>0, <1>3, OthersKeep
  <2>2. ASSUME NEW d \in Callers, call'[d] = Idle PROVE CallInv(call[d])'
    BY <2>2, IdleInv DEF CallInv, CallShape, TodoInv, ServingInv, Serves, ChainInv, Idle
  <2> QED BY <1>2, <2>1, <2>2
<1>5. SalesDiffer'
  BY <1>2, IdleInv DEF IInv, SalesDiffer, Serves
<1>6. WriterWaits'
  BY <1>0, <1>2, TailWaits
<1>7. RecordsInv'
  BY <1>0, <1>1, <1>3, RecordsStay DEF Present
<1>8. LandedInv' /\ BackedInv' /\ HandedInv'
  BY <1>0 DEF IInv, LandedInv, BackedInv, HandedInv, Present
<1>9. OwedInv'
  BY <1>0 DEF IInv, OwedInv, Owed, AmountsOf, Present
<1> QED BY <1>4, <1>5, <1>6, <1>7, <1>8, <1>9 DEF IInv

\* A drain that ends: its T0 sale is handed over, for the first time and known to
\* the store if resolved writes survive.
LEMMA DrainEndsKeeps ==
  ASSUME IInv, TypeOK', NEW c \in Callers, DrainEnds(c)
  PROVE  IInv'
<1> DEFINE k == call[c]
<1>0. /\ TypeOK /\ k \in Calls /\ CallInv(k) /\ k.phase = "next"
      /\ Moves(c, Idle)
      /\ UNCHANGED <<payments, stored, writes, account, landed, voidedShown>>
  BY DEF IInv, TypeOK, DrainEnds, chainVars
<1>1. CASE ~(k.sale # NULL /\ k.last = "settled")
  <2>1. UNCHANGED handed
    BY <1>1 DEF DrainEnds
  <2> QED BY <1>0, <2>1, IdleType, IdleInv, MoveKeeps DEF Waiting
<1>2. CASE k.sale # NULL /\ k.last = "settled"
  <2> PICK p \in Auths : p = k.sale
    BY <1>0, <1>2 DEF Calls
  <2>1. Serves(k) /\ (CommitOnResolve => handed[p] = 0 /\ stored[p] # NULL)
    BY <1>0, <1>2 DEF CallInv, ServingInv, Serves
  <2>2. handed' = [handed EXCEPT ![p] = @ + 1]
    BY <1>2 DEF DrainEnds
  <2>3. \A q \in Auths : handed'[q] = IF q = p THEN handed[q] + 1 ELSE handed[q]
    BY <1>0, <2>2 DEF TypeOK
  <2>4. call'[c] = Idle /\ \A d \in Callers : d # c => call'[d] = call[d]
    BY <1>0, IdleType, MoveType
  <2>5. Grows
    BY <1>0 DEF Grows, Present
  <2>6. \A d \in Callers \ {c} :
          Serves(call[d]) => handed'[call[d].sale] = handed[call[d].sale]
    <3> SUFFICES ASSUME NEW d \in Callers \ {c}, Serves(call[d])
                 PROVE  handed'[call[d].sale] = handed[call[d].sale]
      OBVIOUS
    <3>1. call[d] \in Calls /\ call[d].sale # p
      BY <1>0, <2>1 DEF IInv, SalesDiffer, TypeOK
    <3>2. call[d].sale \in Auths
      BY <3>1 DEF Serves, Calls
    <3> QED BY <2>3, <3>1, <3>2
  <2>7. \A d \in Callers \ {c} : CallInv(call[d])'
    BY <2>4, <2>5, <2>6, OthersKeep
  <2>8. CallInv(call[c])'
    BY <2>4, IdleInv DEF CallInv, CallShape, TodoInv, ServingInv, Serves, ChainInv, Idle
  <2>9. SalesDiffer'
    BY <2>4, IdleInv DEF IInv, SalesDiffer, Serves
  <2>10. WriterWaits'
    <3> SUFFICES ASSUME NEW i \in DOMAIN writes, writes[i].owner # NULL
                 PROVE  call'[writes[i].owner] = call[writes[i].owner]
      BY <1>0 DEF IInv, WriterWaits
    <3>1. call[writes[i].owner].phase \in Waiting
      BY DEF IInv, WriterWaits
    <3>2. writes[i].owner \in Callers
      BY <1>0, WritesType
    <3> QED BY <1>0, <2>4, <3>1, <3>2 DEF Waiting
  <2>11. RecordsInv' /\ LandedInv' /\ BackedInv' /\ OwedInv'
    BY <1>0 DEF IInv, RecordsInv, Present, IsVersion, SaysTheTruth, LandedInv,
                BackedInv, OwedInv, Owed, AmountsOf
  <2>12. HandedInv'
    BY <1>0, <2>1, <2>3 DEF IInv, HandedInv
  <2> QED BY <2>7, <2>8, <2>9, <2>10, <2>11, <2>12 DEF IInv
<1> QED BY <1>1, <1>2

\* What is owed after a step that adds nothing to it.
LEMMA OwedShrinks ==
  ASSUME IInv, Owed' \subseteq Owed,
         \A p \in Owed' : payments'[p].amount = payments[p].amount
  PROVE  OwedInv'
<1>1. Owed \subseteq Auths /\ \A p \in Owed : payments[p].amount \in Nat
  <2>1. Owed \subseteq Present(payments)
    BY DEF Owed
  <2> QED BY <2>1, PresentType, LimitAssumption DEF IInv, QueuedPayments
<1>2. IsFiniteSet(Owed) /\ IsFiniteSet(Owed')
  BY <1>1, AuthsAssumption, FS_Subset
<1>3. AmountsOf(payments', Owed') <= AmountsOf(payments, Owed)
  BY <1>1, <1>2, AmountsMonotone
<1>4. AmountsOf(payments, Owed) \in Nat /\ AmountsOf(payments', Owed') \in Nat
  <2>1. [p \in Owed |-> payments[p].amount] \in [Owed -> Nat]
    BY <1>1
  <2>2. [p \in Owed' |-> payments'[p].amount] \in [Owed' -> Nat]
    BY <1>1
  <2> QED BY <1>2, <2>1, <2>2, TotalType DEF AmountsOf
<1> QED BY <1>3, <1>4, LimitAssumption DEF IInv, OwedInv

\* The queue screen voids what is overdue, and the merchant is told.
LEMMA ExpireKeeps ==
  ASSUME IInv, TypeOK', Expire
  PROVE  IInv'
<1>0. /\ TypeOK /\ UNCHANGED <<stored, call, account, landed, handed>>
  BY DEF IInv, Expire, chainVars
<1>1. /\ Present(payments)' = Present(payments)
      /\ \A p \in Present(payments) :
           payments'[p] = payments[p] \/
             /\ payments'[p] = Voided(payments[p]) /\ p \in voidedShown'
             /\ ~Final(payments[p].state)
      /\ \A q \in QueuedPayments :
           /\ Voided(q) \in QueuedPayments /\ Voided(q).id = q.id
           /\ Voided(q).tier = q.tier /\ Voided(q).amount = q.amount
           /\ Voided(q).order = q.order /\ Voided(q).at = q.at
           /\ Voided(q).state = "voided"
      /\ voidedShown \subseteq voidedShown'
      /\ DOMAIN writes \subseteq DOMAIN writes'
      /\ \A i \in DOMAIN writes : writes'[i] = writes[i]
      /\ \A i \in DOMAIN writes' \ DOMAIN writes :
           /\ writes'[i].owner = NULL
           /\ \E p \in Present(payments) :
                writes'[i].record = Voided(payments[p]) /\ p \in voidedShown'
  BY <1>0, ExpireType
<1>2. \A p \in Present(payments) : payments[p] \in QueuedPayments /\ payments[p].id = p
  BY <1>0, PresentType
<1>3. \A p \in Present(payments) :
        /\ payments'[p] # NULL /\ payments'[p] \in QueuedPayments /\ payments'[p].id = p
        /\ payments'[p].tier = payments[p].tier
        /\ payments'[p].amount = payments[p].amount
        /\ payments'[p].order = payments[p].order
        /\ payments'[p].at = payments[p].at
  BY <1>1, <1>2, RecordIsNotNull
<1>4. Grows
  BY <1>0, <1>1, <1>3 DEF Grows, Present
<1>5. /\ \A q \in QueuedPayments : IsVersion(q) => IsVersion(q)'
      /\ \A q \in QueuedPayments : SaysTheTruth(q) => SaysTheTruth(q)'
  BY <1>0, <1>4, GrowsKeeps
<1>6. \A d \in Callers : CallInv(call[d])'
  BY <1>0, <1>4, OthersKeep
<1>7. SalesDiffer'
  BY <1>0 DEF IInv, SalesDiffer, Serves
<1>8. WriterWaits'
  BY <1>0, <1>1 DEF IInv, WriterWaits
<1>9. \A p \in Present(payments)' : SaysTheTruth(payments[p])'
  <2> SUFFICES ASSUME NEW p \in Present(payments) PROVE SaysTheTruth(payments[p])'
    BY <1>1
  <2>1. CASE payments'[p] = payments[p]
    BY <1>2, <1>5, <2>1 DEF IInv, RecordsInv, SaysTheTruth
  <2>2. CASE payments'[p] = Voided(payments[p]) /\ p \in voidedShown'
    BY <1>1, <1>2, <2>2 DEF SaysTheTruth
  <2> QED BY <1>1, <2>1, <2>2
<1>10. ASSUME NEW p \in Present(stored)'
       PROVE  IsVersion(stored[p])' /\ SaysTheTruth(stored[p])'
  <2>1. p \in Present(stored) /\ stored[p] \in QueuedPayments
        /\ IsVersion(stored[p]) /\ SaysTheTruth(stored[p])
    BY <1>0, PresentType DEF IInv, RecordsInv, Present
  <2> QED BY <1>0, <1>5, <2>1 DEF IsVersion, SaysTheTruth
<1>11. ASSUME NEW i \in DOMAIN writes'
       PROVE  IsVersion(writes[i].record)' /\ SaysTheTruth(writes[i].record)'
  <2>1. CASE i \in DOMAIN writes
    <3>1. writes[i].record \in QueuedPayments /\ writes'[i] = writes[i]
          /\ IsVersion(writes[i].record) /\ SaysTheTruth(writes[i].record)
      BY <1>0, <1>1, <2>1, WritesType DEF IInv, RecordsInv
    <3> QED BY <1>5, <3>1 DEF IsVersion, SaysTheTruth
  <2>2. CASE i \notin DOMAIN writes
    <3>1. PICK p \in Present(payments) :
            writes'[i].record = Voided(payments[p]) /\ p \in voidedShown'
      BY <1>1, <2>2
    <3>2. writes'[i].record.id = p
      BY <1>1, <1>2, <3>1
    <3>3. IsVersion(writes[i].record)'
      BY <1>1, <1>2, <1>3, <3>1, <3>2 DEF IsVersion
    <3>4. SaysTheTruth(writes[i].record)'
      BY <1>1, <1>2, <3>1, <3>2 DEF SaysTheTruth
    <3> QED BY <3>3, <3>4
  <2> QED BY <2>1, <2>2
<1>12. LandedInv' /\ HandedInv'
  BY <1>0 DEF IInv, LandedInv, HandedInv
<1>13. BackedInv'
  BY <1>0, <1>1, <1>3 DEF IInv, BackedInv
<1>14. OwedInv'
  <2>1. Owed' \subseteq Owed
    BY <1>0, <1>1, <1>3 DEF Owed
  <2>2. \A p \in Owed' : payments'[p].amount = payments[p].amount
    BY <1>3, <2>1 DEF Owed
  <2> QED BY <2>1, <2>2, OwedShrinks
<1> QED BY <1>6, <1>7, <1>8, <1>9, <1>10, <1>11, <1>12, <1>13, <1>14
        DEF IInv, RecordsInv

\* The chain, the network and the clock.
LEMMA EnvironmentKeeps ==
  ASSUME IInv, TypeOK',
         \/ \E p \in Auths : ChainLands(p) \/ Dropped(p) \/ AccountLeaves(p)
         \/ Tick
  PROVE  IInv'
<1>0. TypeOK /\ UNCHANGED <<payments, stored, writes, call, handed, voidedShown>>
  BY DEF IInv, ChainLands, Dropped, AccountLeaves, Tick, historyVars, chainVars
<1>1. /\ \A p \in Auths : landed[p] = "ok" => landed'[p] = "ok"
      /\ \A p \in Auths : account[p] # "fabricated" => account'[p] # "fabricated"
      /\ LandedInv'
  <2>1. /\ account \in [Auths -> AccountStates]
        /\ landed \in [Auths -> {"none", "ok", "failed"}] /\ LandedInv
    BY DEF IInv, TypeOK
  <2>2. CASE Tick
    BY <2>1, <2>2 DEF Tick, chainVars, LandedInv
  <2>3. ASSUME NEW p \in Auths, ChainLands(p) \/ Dropped(p) \/ AccountLeaves(p)
        PROVE  /\ \A q \in Auths : landed[q] = "ok" => landed'[q] = "ok"
               /\ \A q \in Auths : account[q] # "fabricated" => account'[q] # "fabricated"
               /\ LandedInv'
    <3>1. CASE UNCHANGED <<account, landed>>
      BY <2>1, <3>1 DEF LandedInv
    <3>2. CASE account[p] = "current"
      <4>1. landed[p] = "none"
        BY <2>1, <3>2 DEF LandedInv
      <4>2. \A q \in Auths \ {p} : account'[q] = account[q] /\ landed'[q] = landed[q]
        BY <2>1, <2>3 DEF ChainLands, Dropped, AccountLeaves
      <4>3. account'[p] # "fabricated" /\ (landed'[p] # "none" => account'[p] # "current")
        BY <2>1, <2>3, <3>2, <4>1 DEF ChainLands, Dropped, AccountLeaves
      <4> QED BY <2>1, <4>1, <4>2, <4>3 DEF LandedInv
    <3> QED BY <2>3, <3>1, <3>2 DEF ChainLands, Dropped, AccountLeaves
  <2> QED BY <2>2, <2>3
<1>2. Grows
  BY <1>0, <1>1 DEF Grows, Present
<1>3. \A d \in Callers : CallInv(call[d])'
  BY <1>0, <1>2, OthersKeep
<1>4. SalesDiffer' /\ WriterWaits' /\ HandedInv'
  BY <1>0 DEF IInv, SalesDiffer, Serves, WriterWaits, HandedInv
<1>5. RecordsInv'
  BY <1>0, <1>2, RecordsStay DEF Present
<1>6. BackedInv'
  BY <1>0, <1>1 DEF IInv, BackedInv, Present
<1>7. OwedInv'
  <2>1. Owed' \subseteq Owed
    BY <1>0, <1>1 DEF Owed, Present
  <2> QED BY <1>0, <2>1, OwedShrinks
<1> QED BY <1>1, <1>3, <1>4, <1>5, <1>6, <1>7 DEF IInv

\* A reload: memory becomes what the store holds.
LEMMA CrashKeeps ==
  ASSUME IInv, TypeOK', Crash
  PROVE  IInv'
<1>0. /\ TypeOK /\ payments' = stored /\ writes' = <<>>
      /\ call' = [c \in Callers |-> Idle]
      /\ UNCHANGED <<stored, account, landed, handed, voidedShown>>
  BY DEF IInv, Crash, chainVars, historyVars
<1>1. \A p \in Present(stored) :
        /\ stored[p] \in QueuedPayments /\ stored[p].id = p
        /\ IsVersion(stored[p]) /\ SaysTheTruth(stored[p])
        /\ p \in Present(payments) /\ stored[p].tier = payments[p].tier
        /\ stored[p].amount = payments[p].amount
  BY <1>0, PresentType DEF IInv, RecordsInv, IsVersion, Present
<1>2. Present(payments)' = Present(stored) /\ Present(stored)' = Present(stored)
  BY <1>0 DEF Present
<1>3. \A c \in Callers : call'[c] = Idle
  BY <1>0
<1>4. \A c \in Callers : CallInv(call[c])'
  BY <1>3, IdleInv DEF CallInv, CallShape, TodoInv, ServingInv, Serves, ChainInv, Idle
<1>5. SalesDiffer' /\ WriterWaits'
  BY <1>0, <1>3, IdleInv DEF SalesDiffer, Serves, WriterWaits
<1>6. RecordsInv'
  <2>1. \A p \in Present(stored) : SaysTheTruth(stored[p])' /\ SaysTheTruth(payments[p])'
    BY <1>0, <1>1 DEF SaysTheTruth
  <2>2. \A p \in Present(stored) : IsVersion(stored[p])'
    BY <1>0, <1>1 DEF IsVersion, Present
  <2> QED BY <1>0, <1>2, <2>1, <2>2 DEF RecordsInv
<1>7. LandedInv' /\ HandedInv'
  BY <1>0 DEF IInv, LandedInv, HandedInv
<1>8. BackedInv'
  BY <1>0, <1>1, <1>2 DEF IInv, BackedInv
<1>9. OwedInv'
  <2>1. Owed' \subseteq Owed
    BY <1>0, <1>1, <1>2 DEF Owed
  <2>2. \A p \in Owed' : payments'[p].amount = payments[p].amount
    BY <1>0, <1>1, <1>2 DEF Owed
  <2> QED BY <2>1, <2>2, OwedShrinks
<1> QED BY <1>4, <1>5, <1>6, <1>7, <1>8, <1>9 DEF IInv
------------------------------------------------------------------------------
(* The theorems *)

LEMMA InitInv == Init => IInv
<1> SUFFICES ASSUME Init PROVE IInv
  OBVIOUS
<1>1. /\ payments = [p \in Auths |-> NULL] /\ stored = payments /\ writes = <<>>
      /\ call = [c \in Callers |-> Idle]
      /\ landed = [p \in Auths |-> "none"] /\ handed = [p \in Auths |-> 0]
  BY DEF Init
<1>2. Present(payments) = {} /\ Present(stored) = {}
  BY <1>1 DEF Present
<1>3. TypeOK
  <2>1. payments \in Books /\ stored \in Books
    BY <1>1 DEF Books
  <2>2. call \in [Callers -> Calls]
    BY <1>1, IdleType
  <2>3. account \in [Auths -> AccountStates]
    BY DEF Init, AccountStates
  <2>4. clock \in Times /\ drains \in 0 .. MaxDrains
    BY BoundAssumption DEF Init, Times
  <2>5. writes \in Seq([owner : Callers \cup {NULL}, record : QueuedPayments])
    BY <1>1
  <2> QED BY <1>1, <1>2, <2>1, <2>2, <2>3, <2>4, <2>5 DEF TypeOK, Init
<1>4. \A c \in Callers : call[c] = Idle
  BY <1>1
<1>5. \A c \in Callers : CallInv(call[c])
  BY <1>4, IdleInv
<1>6. SalesDiffer /\ WriterWaits /\ RecordsInv
  BY <1>1, <1>2, <1>4, IdleInv DEF SalesDiffer, WriterWaits, RecordsInv
<1>7. LandedInv /\ BackedInv /\ HandedInv
  BY <1>1, <1>2 DEF LandedInv, BackedInv, HandedInv
<1>8. OwedInv
  <2>1. Owed = {}
    BY <1>2 DEF Owed
  <2>2. DOMAIN [p \in Owed |-> payments[p].amount] = {}
    BY <2>1
  <2>3. AmountsOf(payments, Owed) = 0
    BY <2>2, TotalOfNone DEF AmountsOf
  <2> QED BY <2>3, LimitAssumption DEF OwedInv
<1> QED BY <1>3, <1>5, <1>6, <1>7, <1>8 DEF IInv

LEMMA StepInv == IInv /\ [Next]_vars => IInv'
<1> SUFFICES ASSUME IInv, [Next]_vars PROVE IInv'
  OBVIOUS
<1>1. CASE Next
  <2>1. TypeOK'
    BY <1>1, TypeStep
  <2>2. CASE \E c \in Callers : CallStep(c)
    <3>1. PICK c \in Callers : CallStep(c)
      BY <2>2
    <3>2. CASE NetworkStep(c)
      BY <2>1, <3>2, NetworkKeeps
    <3>3. CASE Accept(c)
      BY <2>1, <3>3, AcceptKeeps
    <3>4. CASE MarksSubmitting(c)
      BY <2>1, <3>4, MarksKeeps
    <3>5. CASE DrainEnds(c)
      BY <2>1, <3>5, DrainEndsKeeps
    <3>6. CASE PrecheckPasses(c) \/ Rejected(c) \/ MetaLands(c) \/ MetaWriteFails(c)
      BY <2>1, <3>6, LocalKeeps
    <3> QED BY <3>1, <3>2, <3>3, <3>4, <3>5, <3>6 DEF CallStep, LocalStep
  <2>3. CASE Merchant
    <3>1. CASE Expire
      BY <2>1, <3>1, ExpireKeeps
    <3>2. CASE \E c \in Callers :
                 \/ DrainBegins(c)
                 \/ \E p \in Auths, tier \in Tiers, a \in Amounts : Offer(c, p, tier, a)
      BY <2>1, <3>2, LocalKeeps
    <3> QED BY <2>3, <3>1, <3>2 DEF Merchant
  <2>4. CASE Environment
    <3>1. CASE WriteLands
      BY <2>1, <3>1, WriteLandsKeeps
    <3>2. CASE WriteFails
      BY <2>1, <3>2, WriteFailsKeeps
    <3>3. CASE \/ \E p \in Auths : ChainLands(p) \/ Dropped(p) \/ AccountLeaves(p)
               \/ Tick
      BY <2>1, <3>3, EnvironmentKeeps
    <3> QED BY <2>4, <3>1, <3>2, <3>3 DEF Environment
  <2>5. CASE Crash
    BY <2>1, <2>5, CrashKeeps
  <2> QED BY <1>1, <2>2, <2>3, <2>4, <2>5 DEF Next
<1>2. CASE UNCHANGED vars
  <2>1. UNCHANGED <<clock, payments, failures, stored, storedFailures, writes, call,
                    account, flying, landed, handed, voidedShown, refused, drains>>
    BY <1>2 DEF vars, chainVars, historyVars
  <2>2. TypeOK'
    BY <2>1 DEF IInv, TypeOK, Present
  <2>3. Grows
    BY <2>1 DEF Grows, Present
  <2>4. \A c \in Callers : CallInv(call[c])'
    BY <2>1, <2>3, OthersKeep
  <2>5. SalesDiffer' /\ WriterWaits' /\ RecordsInv' /\ LandedInv' /\ BackedInv'
        /\ HandedInv' /\ OwedInv'
    BY <2>1 DEF IInv, SalesDiffer, Serves, WriterWaits, RecordsInv, Present, IsVersion,
                SaysTheTruth, LandedInv, BackedInv, HandedInv, OwedInv, Owed, AmountsOf
  <2> QED BY <2>2, <2>4, <2>5 DEF IInv
<1> QED BY <1>1, <1>2

\* What the invariant says of each property.
LEMMA InvImplies == IInv => TypeOK /\ SettledHasLanded
<1> SUFFICES ASSUME IInv PROVE TypeOK /\ SettledHasLanded
  OBVIOUS
<1>1. TypeOK
  BY DEF IInv
<1>2. SettledHasLanded
  <2> SUFFICES ASSUME NEW p \in Auths
               PROVE  /\ (payments[p] # NULL /\ payments[p].state = "settled")
                           => landed[p] = "ok"
                      /\ (stored[p] # NULL /\ stored[p].state = "settled")
                           => landed[p] = "ok"
    BY DEF SettledHasLanded
  <2>1. p \in Present(payments) =>
          payments[p].id = p /\ SaysTheTruth(payments[p])
    BY <1>1, PresentType DEF IInv, RecordsInv
  <2>2. p \in Present(stored) => stored[p].id = p /\ SaysTheTruth(stored[p])
    BY <1>1, PresentType DEF IInv, RecordsInv
  <2> QED BY <2>1, <2>2 DEF SaysTheTruth, Present
<1> QED BY <1>1, <1>2

\* And if resolved writes survive: what was handed over is in the store, and so in
\* memory, where it is counted.
LEMMA InvImpliesHanded ==
  ASSUME CommitOnResolve = TRUE
  PROVE  IInv => ServedOnce /\ NothingHandedIsForgotten /\ AtRiskBounded
<1> SUFFICES ASSUME IInv PROVE ServedOnce /\ NothingHandedIsForgotten /\ AtRiskBounded
  OBVIOUS
<1>1. TypeOK /\ ServedOnce /\ NothingHandedIsForgotten
  BY DEF IInv, HandedInv, ServedOnce, NothingHandedIsForgotten
<1>2. \A p \in Auths : handed[p] > 0 => p \in Present(payments)
  <2> SUFFICES ASSUME NEW p \in Auths, handed[p] > 0 PROVE p \in Present(payments)
    OBVIOUS
  <2>1. p \in Present(stored)
    BY DEF IInv, HandedInv, Present
  <2>2. stored[p].id = p /\ IsVersion(stored[p])
    BY <1>1, <2>1, PresentType DEF IInv, RecordsInv
  <2> QED BY <2>2 DEF IsVersion, Present
<1>3. AtRiskBounded
  <2> DEFINE risk == {p \in Auths : /\ handed[p] > 0
                                    /\ payments[p].tier # "T0"
                                    /\ landed[p] # "ok"
                                    /\ p \notin voidedShown}
  <2>1. risk \subseteq Owed
    BY <1>2 DEF Owed
  <2>2. Owed \subseteq Auths /\ \A p \in Owed : payments[p].amount \in Nat
    <3>1. Owed \subseteq Present(payments)
      BY DEF Owed
    <3> QED BY <1>1, <3>1, PresentType, LimitAssumption DEF QueuedPayments
  <2>3. IsFiniteSet(Owed) /\ IsFiniteSet(risk)
    BY <2>1, <2>2, AuthsAssumption, FS_Subset
  <2>4. /\ [p \in Owed |-> payments[p].amount] \in [Owed -> Nat]
        /\ [p \in risk |-> payments[p].amount] \in [risk -> Nat]
    BY <2>1, <2>2
  <2> HIDE DEF risk
  <2>5. AmountsOf(payments, risk) <= AmountsOf(payments, Owed)
    BY <2>1, <2>2, <2>3, AmountsMonotone
  <2>6. AmountsOf(payments, Owed) \in Nat /\ AmountsOf(payments, risk) \in Nat
    BY <2>3, <2>4, TotalType DEF AmountsOf
  <2>7. AmountsOf(payments, risk) <= ExposureCap
    BY <2>5, <2>6, LimitAssumption DEF IInv, OwedInv
  <2> QED BY <2>7 DEF AtRiskBounded, risk
<1> QED BY <1>1, <1>3

LEMMA InvHolds == Spec => []IInv
<1> QED BY InitInv, StepInv, PTL DEF Spec

\* Every variable of the queue, its store and its calls keeps its type.
THEOREM QueueTypeCorrect == Spec => []TypeOK
BY InvHolds, InvImplies, PTL

\* However often a payment's code is shown, by whichever caller and over
\* whichever reloads and refused writes, goods are handed over for it once: if the
\* write that acceptance awaits survives a reload once it has resolved.
THEOREM EveryPaymentServedOnce ==
  ASSUME CommitOnResolve = TRUE
  PROVE  Spec => []ServedOnce
BY InvHolds, InvImpliesHanded, PTL

\* 'Settled' is never said of a payment that has not landed and succeeded, also
\* where commits are lost.
THEOREM SettledMeansLanded == Spec => []SettledHasLanded
BY InvHolds, InvImplies, PTL

\* If resolved writes survive, goods handed over against money that is still out
\* never exceed the exposure cap: memory counts at least what is owed, whatever
\* drains, reloads, refused writes and the queue screen do to the states it counts
\* by.
THEOREM ExposureIsBounded ==
  ASSUME CommitOnResolve = TRUE
  PROVE  Spec => []AtRiskBounded
BY InvHolds, InvImpliesHanded, PTL

\* If resolved writes survive, goods that have changed hands are in the store, over
\* late writes, refused ones, drains and reloads.
THEOREM HandedIsStored ==
  ASSUME CommitOnResolve = TRUE
  PROVE  Spec => []NothingHandedIsForgotten
BY InvHolds, InvImpliesHanded, PTL
------------------------------------------------------------------------------
(* Who hands over *)

\* Only an acceptance whose write resolves and a drain that ends hand anything over.
LEMMA OnlyTheseHandOver ==
  ASSUME IInv, [Next]_vars
  PROVE  UNCHANGED handed \/ WriteLands \/ \E c \in Callers : DrainEnds(c)
<1>1. CASE \E c \in Callers : NetworkStep(c)
  <2>1. PICK c \in Callers : NetworkStep(c)
    BY <1>1
  <2> QED BY <2>1
          DEF NetworkStep, ReadAnswered, Broadcasts, SendRefused, SendConfirmed,
              SendUnconfirmed, ConfirmerThrows, SendThrows, ReadsBack, LooksUp,
              Classifies, Resolves, ReadFails, ThrowsOut, OnlyTheCall, historyVars
<1>2. CASE \E c \in Callers : LocalStep(c)
  BY <1>2 DEF LocalStep, PrecheckPasses, Accept, Rejected, MarksSubmitting, MetaLands,
              MetaWriteFails, ThrowsOut, OnlyTheCall, historyVars
<1>3. CASE Merchant
  BY <1>3 DEF Merchant, Offer, DrainBegins, Expire, OnlyTheCall, historyVars
<1>4. CASE Environment
  BY <1>4 DEF Environment, ChainLands, Dropped, AccountLeaves, WriteFails, ThrowsOut,
              Tick, historyVars
<1>5. CASE Crash \/ UNCHANGED vars
  BY <1>5 DEF Crash, vars, historyVars
<1> QED BY <1>1, <1>2, <1>3, <1>4, <1>5 DEF Next, CallStep

\* Either way it is for the sale of a call, which memory knows: T1 and T2 on
\* acceptance, and otherwise with the last outcome of a drain that has nothing left.
LEMMA HandsOverItsSale ==
  ASSUME IInv, [Next]_vars, NEW p \in Auths, handed'[p] > handed[p]
  PROVE  /\ p \in Present(payments)
         /\ \/ payments[p].tier # "T0"
            \/ \E c \in Callers : /\ call[c].phase = "next" /\ call[c].todo = <<>>
                                 /\ call[c].sale = p /\ call[c].last = "settled"
<1>0. TypeOK /\ handed[p] \in Nat /\ NULL \notin Auths
  BY NullAssumption DEF IInv, TypeOK
<1>1. CASE WriteLands
  <2> PICK c : c = Head(writes).owner
    OBVIOUS
  <2>1. c # NULL
    BY <1>0, <1>1 DEF WriteLands
  <2>2. c \in Callers /\ call[c].phase \in Waiting /\ Resumes(c)
    BY <1>0, <1>1, <2>1, FirstWrite DEF WriteLands
  <2>3. \/ UNCHANGED handed
        \/ /\ call[c].phase = "accepting" /\ call[c].tier # "T0"
           /\ handed' = [handed EXCEPT ![call[c].sale] = @ + 1]
    BY <2>2, ResumesCases
  <2>4. /\ call[c].phase = "accepting" /\ call[c].tier # "T0"
        /\ p = call[c].sale
    BY <1>0, <2>3 DEF TypeOK
  <2> QED BY <1>0, <2>2, <2>4 DEF IInv, CallInv, ServingInv, Serves, Present
<1>2. CASE \E c \in Callers : DrainEnds(c)
  <2>1. PICK c \in Callers : DrainEnds(c)
    BY <1>2
  <2>2. /\ call[c].phase = "next" /\ call[c].todo = <<>>
        /\ p = call[c].sale /\ call[c].last = "settled"
    BY <1>0, <2>1 DEF DrainEnds, TypeOK
  <2> QED BY <1>0, <2>2 DEF IInv, CallInv, ServingInv, Serves, Present
<1>3. CASE UNCHANGED handed
  BY <1>0, <1>3
<1> QED BY <1>1, <1>2, <1>3, OnlyTheseHandOver

\* A T1 sale handed over was backed by an account that existed, whatever reloads
\* and lost commits came between its look-up and its goods.
THEOREM T1SalesAreBacked == Spec => T1WasBacked
<1>1. IInv /\ [Next]_vars =>
        [\A p \in Auths \ Fresh :
           (handed'[p] > handed[p] /\ payments[p].tier = "T1")
             => account[p] # "fabricated"]_vars
  BY HandsOverItsSale DEF IInv, BackedInv
<1> QED BY <1>1, InvHolds, PTL DEF Spec, T1WasBacked
------------------------------------------------------------------------------
(* With one call at a time, step by step *)

\* A call at rest, or with no sale accepted and nothing to send.
LEMMA SoloIdle ==
  ASSUME NEW k, k.todo = <<>>, k.phase = "offered" \/ k = Idle
  PROVE  SoloCall(k)
BY DEF SoloCall, LastIsTheSale, SaleIsNewest, OutcomeIsTrue, TodoNotFinal, Idle

\* A call moves on while the payments in memory stay as they are.
LEMMA SoloMoves ==
  ASSUME IInv, SoloInv, IInv', OneCallAtATime, NEW c \in Callers, NEW k \in Calls,
         call'[c] = k, UNCHANGED payments, SoloCall(k),
         \A p \in Auths : landed[p] = "ok" => landed'[p] = "ok"
  PROVE  SoloInv'
<1>1. CallShape(k)
  BY DEF IInv, CallInv, CallShape
<1>2. k.sale # NULL => k.sale \in Auths
  BY DEF Calls
<1>3. k.phase \in {"recording", "meta"} => Head(k.todo).id \in Auths
  <2>1. k.phase \in {"recording", "meta"} =>
          k.todo # <<>> /\ k.todo \in Seq(QueuedPayments)
    BY <1>1 DEF CallShape, InHand, Phases, Calls
  <2>2. k.phase \in {"recording", "meta"} => Head(k.todo) \in QueuedPayments
    BY <2>1, HeadTailProperties
  <2> QED BY <2>2 DEF QueuedPayments
<1>4. LastIsTheSale(call[c])'
  BY <1>2 DEF SoloCall, LastIsTheSale
<1>5. SaleIsNewest(call[c])'
  BY DEF SoloCall, SaleIsNewest, Present
<1>6. OutcomeIsTrue(call[c])'
  BY <1>3 DEF SoloCall, OutcomeIsTrue
<1>7. TodoNotFinal(call[c])'
  BY DEF SoloCall, TodoNotFinal, Final
<1> QED BY <1>4, <1>5, <1>6, <1>7 DEF SoloInv, SoloCall, OneCallAtATime

\* A drain saves what becomes of the payment it has in hand.
LEMMA SoloSaves ==
  ASSUME IInv, SoloInv, OneCallAtATime, NEW c \in Callers,
         NEW r \in QueuedPayments, NEW k \in Calls,
         Save(c, r), Moves(c, k), UNCHANGED landed,
         call[c].phase \notin {"offered", "accepting", "recording", "meta"},
         call[c].todo # <<>>, r.id = Head(call[c].todo).id,
         k.todo = call[c].todo, k.sale = call[c].sale,
         k.phase \in {"marking", "recording"},
         Final(r.state) => k.phase = "recording",
         (k.phase = "recording" /\ k.result = "settled")
           => landed[Head(k.todo).id] = "ok"
  PROVE  SoloInv'
<1>1. TypeOK /\ call'[c] = k /\ SoloCall(call[c]) /\ TodoInv(call[c])
  BY MoveType DEF IInv, SoloInv, CallInv
<1>2. /\ payments'[r.id] = r /\ r.id \in Auths
      /\ \A p \in Auths : p # r.id => payments'[p] = payments[p]
  BY <1>1, SaveTouches
<1>3. /\ 1 \in DOMAIN k.todo /\ r.id = k.todo[1].id
      /\ \A i \in DOMAIN k.todo : k.todo[i] \in QueuedPayments /\ k.todo[i].id \in Auths
  <2>1. 1 \in DOMAIN k.todo /\ r.id = k.todo[1].id
    BY <1>1, HeadType
  <2>2. k.todo \in Seq(QueuedPayments)
    BY DEF Calls
  <2>3. \A i \in DOMAIN k.todo : k.todo[i] \in QueuedPayments
    BY <2>2
  <2> QED BY <2>1, <2>3 DEF QueuedPayments
<1>4. LastIsTheSale(call[c])'
  BY <1>1 DEF SoloCall, LastIsTheSale
<1>5. SaleIsNewest(call[c])'
  BY <1>1 DEF SaleIsNewest
<1>6. OutcomeIsTrue(call[c])'
  BY <1>1 DEF OutcomeIsTrue
<1>7. TodoNotFinal(call[c])'
  <2>1. \A i, j \in DOMAIN k.todo : k.todo[i].id = k.todo[j].id => i = j
    BY <1>1 DEF SoloCall, TodoNotFinal
  <2>2. ASSUME NEW i \in DOMAIN k.todo, Final(payments'[k.todo[i].id].state)
        PROVE  i = 1 /\ k.phase = "recording"
    <3>1. CASE i = 1
      BY <1>2, <1>3, <2>2, <3>1
    <3>2. CASE i # 1
      <4>1. payments'[k.todo[i].id] = payments[k.todo[i].id]
        BY <1>2, <1>3, <2>1, <3>2
      <4> QED BY <1>1, <2>2, <4>1 DEF SoloCall, TodoNotFinal
    <3> QED BY <3>1, <3>2
  <2> QED BY <1>1, <2>1, <2>2 DEF TodoNotFinal, Final
<1> QED BY <1>4, <1>5, <1>6, <1>7 DEF SoloInv, SoloCall, OneCallAtATime

\* A payment is accepted as the newest of all.
LEMMA SoloAccepts ==
  ASSUME IInv, SoloInv, OneCallAtATime, NEW c \in Callers, Accept(c)
  PROVE  SoloInv'
<1>1. PICK r \in QueuedPayments, k \in Calls :
        /\ Save(c, r) /\ Moves(c, k)
        /\ r.id = call[c].sale /\ r.tier = call[c].tier
        /\ r.amount = call[c].amount /\ r.order = NextOrder(payments)
        /\ r.state = "queued"
        /\ k.phase = "accepting" /\ k.sale = call[c].sale
        /\ k.tier = call[c].tier /\ k.todo = call[c].todo /\ ~k.verdict
        /\ UNCHANGED <<clock, failures, stored, storedFailures, chainVars,
                       historyVars, drains>>
  BY AcceptType
<1>2. /\ TypeOK /\ call'[c] = k /\ SoloCall(call[c]) /\ TodoInv(call[c])
      /\ UNCHANGED landed
  BY <1>1, MoveType DEF IInv, SoloInv, CallInv, chainVars, historyVars
<1>3. /\ payments'[r.id] = r /\ r.id \in Auths
      /\ \A p \in Auths : p # r.id => payments'[p] = payments[p]
      /\ Present(payments)' = Present(payments) \cup {r.id}
  BY <1>1, <1>2, SaveType
<1>4. call[c].phase = "offered" /\ payments[r.id] = NULL
  BY <1>1 DEF Accept, Acceptable
<1>5. \A p \in Present(payments) : payments'[p] = payments[p]
  BY <1>3, <1>4 DEF Present
<1>6. SaleIsNewest(call[c])'
  <2>1. \A p \in Present(payments)' : payments'[p].order <= payments'[r.id].order
    <3> SUFFICES ASSUME NEW p \in Present(payments)'
                 PROVE  payments'[p].order <= payments'[r.id].order
      OBVIOUS
    <3>1. CASE p = r.id
      BY <1>2, <1>3, <3>1, NextOrderIsNewest DEF QueuedPayments
    <3>2. CASE p # r.id
      <4>1. p \in Present(payments) /\ payments'[p] = payments[p]
        BY <1>3, <1>5, <3>2
      <4>2. payments[p].order < r.order
        BY <1>1, <1>2, <4>1, NextOrderIsNewest
      <4>3. payments[p].order \in Nat /\ r.order \in Nat
        BY <1>2, <4>1, PresentType DEF QueuedPayments
      <4> QED BY <1>3, <4>1, <4>2, <4>3
    <3> QED BY <3>1, <3>2
  <2> QED BY <1>1, <1>2, <1>3, <2>1 DEF SaleIsNewest
<1>7. TodoNotFinal(call[c])'
  <2>1. \A i \in DOMAIN k.todo :
          payments'[k.todo[i].id] = payments[k.todo[i].id]
    <3> SUFFICES ASSUME NEW i \in DOMAIN k.todo
                 PROVE  payments'[k.todo[i].id] = payments[k.todo[i].id]
      OBVIOUS
    <3>1. k.todo[i] \in QueuedPayments /\ IsVersion(k.todo[i])
      BY <1>1, <1>2 DEF TodoInv, Calls
    <3> QED BY <1>3, <1>4, <3>1 DEF IsVersion, QueuedPayments
  <2> QED BY <1>1, <1>2, <1>4, <2>1 DEF SoloCall, TodoNotFinal, Final
<1>8. LastIsTheSale(call[c])' /\ OutcomeIsTrue(call[c])'
  BY <1>1, <1>2 DEF LastIsTheSale, OutcomeIsTrue
<1> QED BY <1>6, <1>7, <1>8 DEF SoloInv, SoloCall, OneCallAtATime

\* What a submission's step may be: it resolves, it leaves, or it moves on with
\* all it holds.
LEMMA NetworkCases ==
  ASSUME IInv, NEW c \in Callers, NetworkStep(c)
  PROVE  \/ /\ call[c].phase \in {"readback", "lookup", "precheck"}
            /\ \E code \in Codes :
                 /\ Resolves(c, code)
                 /\ code = "settled" => landed[Head(call[c].todo).id] = "ok"
         \/ /\ call[c].phase \in {"sending", "confirming", "lookup", "readback", "precheck"}
            /\ UNCHANGED <<payments, landed, handed>>
            /\ \E k \in Calls :
                 /\ Moves(c, k)
                 /\ \/ k = Idle
                    \/ /\ k.phase \in {"confirming", "lookup", "readback", "precheck"}
                       /\ k.sale = call[c].sale /\ k.todo = call[c].todo
<1> DEFINE k == call[c]
           Kept(n) == /\ n.phase \in {"confirming", "lookup", "readback", "precheck"}
                      /\ n.sale = k.sale /\ n.todo = k.todo
           moved(ph) == [k EXCEPT !.phase = ph]
           thrown(error) == [k EXCEPT !.phase = "lookup", !.error = error, !.caught = TRUE]
           Goal == /\ k.phase \in {"sending", "confirming", "lookup", "readback", "precheck"}
                   /\ UNCHANGED <<payments, landed, handed>>
                   /\ \E n \in Calls : Moves(c, n) /\ (n = Idle \/ Kept(n))
<1>0. TypeOK /\ k \in Calls /\ CallInv(k)
  BY DEF IInv, TypeOK
<1>1. \A ph \in {"confirming", "readback", "precheck"} :
        moved(ph) \in Calls /\ Kept(moved(ph))
  BY <1>0 DEF Calls, Phases
<1>2. \A error \in FailCodes \cup {NULL} : thrown(error) \in Calls /\ Kept(thrown(error))
  BY <1>0 DEF Calls, Phases
<1>3. /\ Told(k.error) \in Codes /\ Told(k.error) # "settled"
      /\ {"SUBMIT_EXECUTION_FAILED", "SUBMIT_NONCE_STALE", "SUBMIT_NONCE_ABSENT",
          "settled"} \subseteq Codes
  BY <1>0 DEF Told, Calls, FailCodes, Codes
<1>4. CASE Broadcasts(c)
  <2>1. k.phase \in {"sending", "confirming"} /\ Moves(c, moved("confirming"))
        /\ UNCHANGED <<payments, landed, handed>>
    BY <1>4 DEF Broadcasts, historyVars
  <2> HIDE DEF moved, Kept
  <2>2. Goal
    BY <1>1, <2>1
  <2> QED BY <2>2 DEF Kept
<1>5. CASE SendRefused(c) \/ SendUnconfirmed(c)
  <2>1. PICK error \in FailCodes \cup {NULL} : SendThrows(c, error)
    BY <1>5, SendThrowsCases
  <2>2. k.phase \in {"sending", "confirming"}
    BY <1>5, SendThrowsCases
  <2>3. Moves(c, thrown(error)) /\ UNCHANGED <<payments, landed, handed>>
    BY <2>1 DEF SendThrows, OnlyTheCall, chainVars, historyVars
  <2> HIDE DEF thrown, Kept
  <2>4. Goal
    BY <1>2, <2>2, <2>3
  <2> QED BY <2>4 DEF Kept
<1>6. CASE SendConfirmed(c)
  <2>1. k.phase = "confirming" /\ Moves(c, moved("readback"))
        /\ UNCHANGED <<payments, landed, handed>>
    BY <1>6 DEF SendConfirmed, OnlyTheCall, chainVars, historyVars
  <2> HIDE DEF moved, Kept
  <2>2. Goal
    BY <1>1, <2>1
  <2> QED BY <2>2 DEF Kept
<1>7. CASE ReadsBack(c)
  <2>1. k.phase = "readback" /\ Resolves(c, "settled")
    BY <1>7 DEF ReadsBack
  <2>2. landed[Head(k.todo).id] = "ok"
    BY <1>0, <2>1 DEF CallInv, ChainInv
  <2> QED BY <1>3, <2>1, <2>2
<1>8. CASE LooksUp(c)
  <2>1. k.phase = "lookup"
    BY <1>8 DEF LooksUp
  <2>2. CASE Moves(c, moved("readback")) /\ OnlyTheCall
    <3>1. UNCHANGED <<payments, landed, handed>>
      BY <2>2 DEF OnlyTheCall, chainVars, historyVars
    <3> HIDE DEF moved, Kept
    <3>2. Goal
      BY <1>1, <2>1, <2>2, <3>1
    <3> QED BY <3>2 DEF Kept
  <2>3. CASE Moves(c, moved("precheck")) /\ OnlyTheCall
    <3>1. UNCHANGED <<payments, landed, handed>>
      BY <2>3 DEF OnlyTheCall, chainVars, historyVars
    <3> HIDE DEF moved, Kept
    <3>2. Goal
      BY <1>1, <2>1, <2>3, <3>1
    <3> QED BY <3>2 DEF Kept
  <2>4. CASE Resolves(c, "SUBMIT_EXECUTION_FAILED") \/ Resolves(c, Told(k.error))
    BY <1>3, <2>1, <2>4
  <2> QED BY <1>8, <2>2, <2>3, <2>4 DEF LooksUp
<1>9. CASE Classifies(c)
  <2>1. k.phase = "precheck"
    BY <1>9 DEF Classifies
  <2>2. \/ Resolves(c, Told(k.error)) \/ Resolves(c, "SUBMIT_NONCE_STALE")
        \/ Resolves(c, "SUBMIT_NONCE_ABSENT")
    BY <1>9 DEF Classifies
  <2> QED BY <1>3, <2>1, <2>2
<1>10. CASE ReadFails(c)
  <2>1. k.phase \in {"lookup", "readback", "precheck"}
        /\ UNCHANGED <<payments, landed, handed>>
    BY <1>10 DEF ReadFails, AwaitsRead, ThrowsOut, chainVars, historyVars
  <2>2. CASE k.caught
    <3>1. Moves(c, Idle)
      BY <1>10, <2>2 DEF ReadFails, ThrowsOut
    <3> HIDE DEF Kept
    <3>2. Goal
      BY <2>1, <3>1, IdleType
    <3> QED BY <3>2 DEF Kept
  <2>3. CASE ~k.caught
    <3> DEFINE n == [k EXCEPT !.phase = "lookup", !.caught = TRUE,
                              !.error = "SUBMIT_RPC_UNAVAILABLE"]
    <3>1. Moves(c, n)
      BY <1>10, <2>3 DEF ReadFails
    <3>2. n \in Calls /\ Kept(n)
      BY <1>0 DEF Calls, Phases, FailCodes
    <3> HIDE DEF n, Kept
    <3>3. Goal
      BY <2>1, <3>1, <3>2
    <3> QED BY <3>3 DEF Kept
  <2> QED BY <2>2, <2>3
<1> QED BY <1>4, <1>5, <1>6, <1>7, <1>8, <1>9, <1>10 DEF NetworkStep, ReadAnswered

\* The steps of a submission.
LEMMA SoloNetwork ==
  ASSUME IInv, SoloInv, IInv', OneCallAtATime, NEW c \in Callers, NetworkStep(c)
  PROVE  SoloInv'
<1>0. /\ TypeOK /\ call[c] \in Calls /\ CallShape(call[c]) /\ SoloCall(call[c])
  BY DEF IInv, TypeOK, CallInv, SoloInv
<1>1. ASSUME call[c].phase \in {"readback", "lookup", "precheck"},
             NEW code \in Codes, Resolves(c, code),
             code = "settled" => landed[Head(call[c].todo).id] = "ok"
      PROVE  SoloInv'
  <2>1. call[c].todo # <<>>
    BY <1>0, <1>1 DEF CallShape, InHand, Phases
  <2>2. PICK r \in QueuedPayments, k \in Calls :
          /\ Save(c, r) /\ Moves(c, k)
          /\ Head(call[c].todo) \in QueuedPayments /\ r.id = Head(call[c].todo).id
          /\ r.tier = Head(call[c].todo).tier
          /\ r.state \in {"settled", "failed"}
          /\ k.phase = "recording" /\ k.result = code
          /\ k.sale = call[c].sale /\ k.tier = call[c].tier
          /\ k.todo = call[c].todo /\ k.verdict = call[c].verdict
          /\ UNCHANGED <<clock, failures, stored, storedFailures, chainVars,
                         historyVars, drains>>
    BY <1>1, <2>1, ResolvesType
  <2>3. UNCHANGED landed
    BY <2>2 DEF chainVars
  <2> QED BY <1>1, <2>1, <2>2, <2>3, SoloSaves
<1>2. ASSUME call[c].phase \in {"sending", "confirming", "lookup", "readback", "precheck"},
             UNCHANGED <<payments, landed, handed>>, NEW k \in Calls, Moves(c, k),
             \/ k = Idle
             \/ /\ k.phase \in {"confirming", "lookup", "readback", "precheck"}
                /\ k.sale = call[c].sale /\ k.todo = call[c].todo
      PROVE  SoloInv'
  <2>1. call'[c] = k
    BY <1>0, <1>2, MoveType
  <2>2. SoloCall(k)
    <3>1. CASE k = Idle
      <4>1. k.todo = <<>>
        BY <3>1 DEF Idle
      <4> QED BY <3>1, <4>1, SoloIdle
    <3>2. CASE k # Idle
      <4>1. call[c].todo # <<>>
        BY <1>0, <1>2 DEF CallShape, InHand, Phases
      <4> QED BY <1>0, <1>2, <3>2, <4>1
              DEF SoloCall, LastIsTheSale, SaleIsNewest, OutcomeIsTrue, TodoNotFinal
    <3> QED BY <3>1, <3>2
  <2> QED BY <1>2, <2>1, <2>2, SoloMoves
<1> QED BY <1>1, <1>2, NetworkCases

\* A snapshot taken now holds each payment once, and nothing final; when the
\* newest payment is still queued, it comes last.
LEMMA SnapshotInv ==
  ASSUME IInv, NEW todo \in Ordered(Eligible(payments))
  PROVE  /\ \A i \in DOMAIN todo : ~Final(payments[todo[i].id].state)
         /\ \A i, j \in DOMAIN todo : todo[i].id = todo[j].id => i = j
         /\ \A p \in Present(payments) :
              (/\ payments[p].state = "queued"
               /\ \A q \in Present(payments) : payments[q].order <= payments[p].order)
                => todo # <<>> /\ todo[Len(todo)].id = p
<1>0. TypeOK
  BY DEF IInv
<1>1. /\ todo \in Seq(QueuedPayments) /\ DOMAIN todo = 1 .. Len(todo)
      /\ \A i \in DOMAIN todo : todo[i] \in Eligible(payments)
      /\ \A i, j \in DOMAIN todo : i < j => todo[i].order < todo[j].order
      /\ \A i, j \in DOMAIN todo : todo[i] = todo[j] => i = j
      /\ \A q \in Eligible(payments) : \E i \in DOMAIN todo : todo[i] = q
  BY <1>0, EligibleType, OrderedType
<1>2. \A q \in Eligible(payments) :
        /\ q.id \in Present(payments) /\ payments[q.id] = q
        /\ q.state \in {"queued", "failed"}
  BY <1>0, PresentType DEF Eligible
<1>3. \A i \in DOMAIN todo : ~Final(payments[todo[i].id].state)
  BY <1>1, <1>2 DEF Final
<1>4. \A i, j \in DOMAIN todo : todo[i].id = todo[j].id => i = j
  <2> SUFFICES ASSUME NEW i \in DOMAIN todo, NEW j \in DOMAIN todo,
                      todo[i].id = todo[j].id
               PROVE  todo[i] = todo[j]
    BY <1>1
  <2> QED BY <1>1, <1>2
<1>5. ASSUME NEW p \in Present(payments), payments[p].state = "queued",
             \A q \in Present(payments) : payments[q].order <= payments[p].order
      PROVE  todo # <<>> /\ todo[Len(todo)].id = p
  <2>1. payments[p] \in Eligible(payments) /\ payments[p] \in QueuedPayments
        /\ payments[p].id = p
    BY <1>0, <1>5, PresentType DEF Eligible
  <2>2. PICK i \in DOMAIN todo : todo[i] = payments[p]
    BY <1>1, <2>1
  <2>3. Len(todo) \in DOMAIN todo /\ Len(todo) \in Nat /\ i \in Nat /\ i <= Len(todo)
    BY <1>1, <2>2, LenProperties
  <2> DEFINE q == todo[Len(todo)]
  <2>4. q.id \in Present(payments) /\ payments[q.id] = q /\ q \in QueuedPayments
    BY <1>0, <1>1, <1>2, <2>3, EligibleType
  <2>5. q.order <= payments[p].order /\ q.order \in Nat /\ payments[p].order \in Nat
    BY <1>5, <2>1, <2>4 DEF QueuedPayments
  <2>6. i < Len(todo) => payments[p].order < q.order
    BY <1>1, <2>2, <2>3
  <2>7. i = Len(todo)
    BY <2>3, <2>5, <2>6
  <2>8. todo # <<>>
    BY <2>2, <2>3
  <2> QED BY <2>1, <2>2, <2>7, <2>8
<1> QED BY <1>3, <1>4, <1>5

\* The steps of accept and drain on the device, and the end of a drain.
LEMMA SoloLocal ==
  ASSUME IInv, SoloInv, IInv', OneCallAtATime, NEW c \in Callers,
         \/ PrecheckPasses(c) \/ Rejected(c) \/ MetaLands(c)
         \/ MetaWriteFails(c) \/ DrainBegins(c) \/ DrainEnds(c)
         \/ \E p \in Auths, tier \in Tiers, a \in Amounts : Offer(c, p, tier, a)
  PROVE  SoloInv'
<1> DEFINE k == call[c]
<1>0. TypeOK /\ k \in Calls /\ CallInv(k) /\ SoloCall(k)
  BY DEF IInv, TypeOK, SoloInv
<1>1. ASSUME NEW n \in Calls, Moves(c, n), SoloCall(n),
             UNCHANGED <<payments, landed>>
      PROVE  SoloInv'
  <2>1. call'[c] = n
    BY <1>0, <1>1, MoveType
  <2> QED BY <1>1, <2>1, SoloMoves
<1>2. SoloCall(Idle)
  BY SoloIdle DEF Idle
<1>3. CASE PrecheckPasses(c)
  <2> DEFINE n == [k EXCEPT !.verdict = TRUE]
  <2>1. /\ n \in Calls /\ n.phase = k.phase /\ n.sale = k.sale /\ n.todo = k.todo
        /\ n.result = k.result /\ n.last = k.last
    BY <1>0 DEF Calls
  <2>2. k.phase = "offered" /\ Moves(c, n) /\ UNCHANGED <<payments, landed>>
    BY <1>3 DEF PrecheckPasses, OnlyTheCall, chainVars, historyVars
  <2> HIDE DEF n
  <2>3. SoloCall(n)
    BY <1>0, <2>1 DEF SoloCall, LastIsTheSale, SaleIsNewest, OutcomeIsTrue, TodoNotFinal
  <2> QED BY <1>1, <2>1, <2>2, <2>3
<1>4. CASE Rejected(c) \/ MetaWriteFails(c)
  <2>1. Moves(c, Idle) /\ UNCHANGED <<payments, landed>>
    BY <1>4 DEF Rejected, MetaWriteFails, ThrowsOut, OnlyTheCall, chainVars, historyVars
  <2> QED BY <1>1, <1>2, <2>1, IdleType
<1>5. CASE MetaLands(c)
  <2> DEFINE n == [k EXCEPT !.phase = "next", !.todo = Tail(k.todo)]
  <2>1. /\ k.phase = "meta" /\ Moves(c, n) /\ UNCHANGED <<payments, landed>>
    BY <1>5 DEF MetaLands, chainVars, historyVars
  <2>2. k.todo # <<>> /\ k.todo \in Seq(QueuedPayments)
    BY <1>0, <2>1 DEF CallInv, CallShape, InHand, Phases, Calls
  <2>3. /\ Tail(k.todo) \in Seq(QueuedPayments)
        /\ Head(k.todo) = k.todo[1] /\ Len(k.todo) \in Nat /\ Len(k.todo) # 0
        /\ Len(Tail(k.todo)) = Len(k.todo) - 1
        /\ DOMAIN Tail(k.todo) = 1 .. Len(k.todo) - 1
        /\ DOMAIN k.todo = 1 .. Len(k.todo)
        /\ \A i \in 1 .. Len(k.todo) - 1 : Tail(k.todo)[i] = k.todo[i + 1]
    BY <2>2, HeadTailProperties, LenProperties, EmptySeq
  <2>4. /\ n \in Calls /\ n.phase = "next" /\ n.sale = k.sale
        /\ n.todo = Tail(k.todo) /\ n.last = k.last
    BY <1>0, <2>3 DEF Calls, Phases
  <2> HIDE DEF n
  <2>5. LastIsTheSale(n)
    <3> SUFFICES ASSUME n.sale # NULL
                 PROVE  IF n.todo = <<>> THEN n.last = "settled" => landed[n.sale] = "ok"
                                         ELSE n.todo[Len(n.todo)].id = n.sale
      BY DEF LastIsTheSale
    <3>1. k.todo[Len(k.todo)].id = k.sale
      BY <1>0, <2>1, <2>2, <2>4 DEF SoloCall, LastIsTheSale
    <3>2. CASE n.todo = <<>>
      <4>1. Len(n.todo) = 0
        BY <3>2
      <4>2. Head(k.todo).id = k.sale
        BY <2>3, <2>4, <3>1, <4>1
      <4> QED BY <1>0, <2>1, <2>4, <3>2, <4>2 DEF SoloCall, OutcomeIsTrue
    <3>3. CASE n.todo # <<>>
      <4>1. Len(n.todo) # 0
        BY <2>3, <2>4, <3>3, EmptySeq
      <4>2. PICK m \in Nat : m = Len(k.todo)
        BY <2>3
      <4>3. m - 1 # 0 /\ Len(n.todo) = m - 1
        BY <2>3, <2>4, <4>1, <4>2
      <4>4. m - 1 \in 1 .. m - 1 /\ m - 1 + 1 = m
        <5>1. m # 0 /\ m # 1
          BY <2>3, <4>2, <4>3
        <5> QED BY <5>1
      <4>5. n.todo[m - 1] = k.todo[m - 1 + 1]
        BY <2>3, <2>4, <4>2, <4>4
      <4>6. n.todo[Len(n.todo)] = k.todo[Len(k.todo)]
        BY <4>2, <4>3, <4>4, <4>5
      <4> QED BY <2>4, <3>1, <3>3, <4>6
    <3> QED BY <3>2, <3>3
  <2>6. TodoNotFinal(n)
    <3>1. \A i \in DOMAIN n.todo :
            i + 1 \in DOMAIN k.todo /\ n.todo[i] = k.todo[i + 1] /\ i + 1 # 1 /\ i \in Nat
      BY <2>3, <2>4
    <3>2. \A i \in DOMAIN n.todo : ~Final(payments[n.todo[i].id].state)
      BY <1>0, <3>1 DEF SoloCall, TodoNotFinal
    <3>3. ASSUME NEW i \in DOMAIN n.todo, NEW j \in DOMAIN n.todo,
                 n.todo[i].id = n.todo[j].id
          PROVE  i = j
      <4>1. i + 1 = j + 1
        BY <1>0, <3>1, <3>3 DEF SoloCall, TodoNotFinal
      <4> QED BY <3>1, <4>1
    <3> QED BY <3>2, <3>3 DEF TodoNotFinal
  <2>7. SoloCall(n)
    BY <2>4, <2>5, <2>6 DEF SoloCall, SaleIsNewest, OutcomeIsTrue
  <2> QED BY <1>1, <2>1, <2>4, <2>7
<1>6. CASE DrainBegins(c)
  <2>1. PICK todo \in Ordered(Eligible(payments)) :
          Moves(c, [Idle EXCEPT !.phase = "next", !.todo = todo])
    BY <1>6 DEF DrainBegins
  <2> DEFINE n == [Idle EXCEPT !.phase = "next", !.todo = todo]
  <2>2. Moves(c, n) /\ UNCHANGED <<payments, landed>>
    BY <1>6, <2>1 DEF DrainBegins, chainVars, historyVars
  <2>3. todo \in Seq(QueuedPayments)
    BY <1>0, EligibleInv
  <2>4. n \in Calls /\ n.phase = "next" /\ n.sale = NULL /\ n.todo = todo
    BY <2>3, IdleType DEF Idle, Calls, Phases
  <2> HIDE DEF n
  <2>5. SoloCall(n)
    BY <2>4, SnapshotInv
       DEF SoloCall, LastIsTheSale, SaleIsNewest, OutcomeIsTrue, TodoNotFinal
  <2> QED BY <1>1, <2>2, <2>4, <2>5
<1>7. CASE DrainEnds(c)
  <2>1. Moves(c, Idle) /\ UNCHANGED <<payments, landed>>
    BY <1>7 DEF DrainEnds, chainVars
  <2> QED BY <1>1, <1>2, <2>1, IdleType
<1>8. CASE \E p \in Auths, tier \in Tiers, a \in Amounts : Offer(c, p, tier, a)
  <2>1. PICK p \in Auths, tier \in Tiers, a \in Amounts : Offer(c, p, tier, a)
    BY <1>8
  <2> DEFINE n == [Idle EXCEPT !.phase = "offered", !.sale = p, !.tier = tier,
                               !.amount = a]
  <2>2. Moves(c, n) /\ UNCHANGED <<payments, landed>>
    BY <2>1 DEF Offer, OnlyTheCall, chainVars, historyVars
  <2>3. n \in Calls /\ n.phase = "offered" /\ n.todo = <<>>
    BY IdleType DEF Idle, Calls, Phases
  <2> HIDE DEF n
  <2>4. SoloCall(n)
    BY <2>3, SoloIdle
  <2> QED BY <1>1, <2>2, <2>3, <2>4
<1> QED BY <1>3, <1>4, <1>5, <1>6, <1>7, <1>8

\* A write lands.
LEMMA SoloWriteLands ==
  ASSUME IInv, SoloInv, IInv', OneCallAtATime, WriteLands
  PROVE  SoloInv'
<1> PICK c : c = Head(writes).owner
  OBVIOUS
<1>0. TypeOK /\ writes # <<>> /\ c = Head(writes).owner
      /\ UNCHANGED <<payments, landed>>
  BY DEF IInv, WriteLands, chainVars
<1>1. c # NULL => c \in Callers /\ call[c].phase \in Waiting
  BY <1>0, FirstWrite
<1>2. CASE c = NULL
  <2>1. UNCHANGED call
    BY <1>0, <1>2 DEF WriteLands
  <2> QED BY <1>0, <2>1
          DEF SoloInv, SoloCall, LastIsTheSale, SaleIsNewest, OutcomeIsTrue,
              TodoNotFinal, Present
<1>3. CASE c # NULL
  <2>1. c \in Callers /\ call[c].phase \in Waiting /\ Resumes(c)
    BY <1>0, <1>1, <1>3 DEF WriteLands
  <2>2. call[c] \in Calls /\ CallInv(call[c]) /\ SoloCall(call[c])
    BY <1>0, <2>1 DEF IInv, TypeOK, SoloInv
  <2>3. PICK k \in Calls :
           /\ Moves(c, k) /\ failures' \in Nat /\ handed' \in [Auths -> Nat]
           /\ \/ /\ call[c].phase = "accepting" /\ call[c].tier = "T0"
                 /\ k.phase = "next" /\ k.todo \in Ordered(Eligible(payments))
                 /\ k.sale = call[c].sale /\ k.tier = call[c].tier
                 /\ k.verdict = call[c].verdict /\ UNCHANGED handed
              \/ /\ call[c].phase = "accepting" /\ call[c].tier # "T0" /\ k = Idle
                 /\ call[c].sale \in Auths
                 /\ handed' = [handed EXCEPT ![call[c].sale] = @ + 1]
              \/ /\ call[c].phase \in {"marking", "recording"}
                 /\ k.phase = IF call[c].phase = "marking" THEN "sending" ELSE "meta"
                 /\ k.phase = "meta" => k.last = call[c].result
                 /\ k.sale = call[c].sale /\ k.tier = call[c].tier
                 /\ k.todo = call[c].todo /\ k.verdict = call[c].verdict
                 /\ UNCHANGED handed
    BY <2>1, ResumesCases
  <2>4. call'[c] = k
    BY <1>0, <2>1, <2>3, MoveType
  <2>5. CASE /\ call[c].phase = "accepting" /\ call[c].tier = "T0"
             /\ k.phase = "next" /\ k.todo \in Ordered(Eligible(payments))
             /\ k.sale = call[c].sale /\ UNCHANGED handed
    <3>1. /\ k.sale \in Present(payments) /\ payments[k.sale].state = "queued"
          /\ \A p \in Present(payments) : payments[p].order <= payments[k.sale].order
      BY <2>2, <2>5
         DEF SoloCall, SaleIsNewest, CallInv, CallShape, ServingInv, Serves, Present, Calls
    <3>2. SoloCall(k)
      BY <2>5, <3>1, SnapshotInv
         DEF SoloCall, LastIsTheSale, SaleIsNewest, OutcomeIsTrue, TodoNotFinal
    <3> QED BY <1>0, <2>1, <2>4, <2>5, <3>2, SoloMoves
  <2>6. CASE /\ call[c].phase = "accepting" /\ call[c].tier # "T0" /\ k = Idle
             /\ call[c].sale \in Auths
             /\ handed' = [handed EXCEPT ![call[c].sale] = @ + 1]
    <3>1. SoloCall(k)
      BY <2>6, SoloIdle DEF Idle
    <3> QED BY <1>0, <2>1, <2>4, <3>1, SoloMoves
  <2>7. CASE /\ call[c].phase \in {"marking", "recording"}
             /\ k.phase = IF call[c].phase = "marking" THEN "sending" ELSE "meta"
             /\ k.phase = "meta" => k.last = call[c].result
             /\ k.sale = call[c].sale /\ k.todo = call[c].todo
             /\ UNCHANGED handed
    <3>1. call[c].todo # <<>>
      BY <2>2, <2>7 DEF CallInv, CallShape, InHand, Phases
    <3>2. LastIsTheSale(k) /\ SaleIsNewest(k)
      BY <2>2, <2>7, <3>1 DEF SoloCall, LastIsTheSale, SaleIsNewest
    <3>3. OutcomeIsTrue(k)
      BY <2>2, <2>7 DEF SoloCall, OutcomeIsTrue
    <3>4. TodoNotFinal(k)
      BY <2>2, <2>7 DEF SoloCall, TodoNotFinal
    <3>5. SoloCall(k)
      BY <3>2, <3>3, <3>4 DEF SoloCall
    <3> QED BY <1>0, <2>1, <2>4, <2>7, <3>5, SoloMoves
  <2> QED BY <2>3, <2>5, <2>6, <2>7
<1> QED BY <1>2, <1>3

\* What is not a step of the call: refused writes, the queue screen, the chain,
\* the clock and a reload.
LEMMA SoloAround ==
  ASSUME IInv, SoloInv, IInv', OneCallAtATime,
         \/ WriteFails \/ Expire \/ Tick \/ Crash
         \/ \E p \in Auths : ChainLands(p) \/ Dropped(p) \/ AccountLeaves(p)
  PROVE  SoloInv'
<1>0. TypeOK
  BY DEF IInv
<1>1. SoloCall(Idle)
  BY SoloIdle DEF Idle
<1>2. CASE WriteFails
  <2> PICK c : c = Head(writes).owner
    OBVIOUS
  <2>1. writes # <<>> /\ UNCHANGED <<payments, landed>>
    BY <1>2 DEF WriteFails, ThrowsOut, chainVars, historyVars
  <2>2. CASE c = NULL
    <3>1. UNCHANGED call
      BY <1>2, <2>2 DEF WriteFails
    <3> QED BY <2>1, <3>1
            DEF SoloInv, SoloCall, LastIsTheSale, SaleIsNewest, OutcomeIsTrue,
                TodoNotFinal, Present
  <2>3. CASE c # NULL
    <3>1. c \in Callers /\ Moves(c, Idle)
      BY <1>2, <2>1, <2>3, FirstWrite DEF WriteFails, ThrowsOut
    <3>2. call'[c] = Idle
      BY <1>0, <3>1, IdleType, MoveType
    <3> QED BY <1>1, <2>1, <3>1, <3>2, IdleType, SoloMoves
  <2> QED BY <2>2, <2>3
<1>3. CASE Expire
  <2>1. /\ \E c \in Callers : call[c] = Idle
        /\ UNCHANGED call
    BY <1>3 DEF Expire
  <2>2. \A d \in Callers : call'[d] = Idle
    BY <2>1 DEF OneCallAtATime
  <2> QED BY <2>2
          DEF SoloInv, SoloCall, LastIsTheSale, SaleIsNewest, OutcomeIsTrue,
              TodoNotFinal, Idle
<1>4. CASE Crash
  <2>1. \A d \in Callers : call'[d] = Idle
    BY <1>4 DEF Crash
  <2> QED BY <2>1
          DEF SoloInv, SoloCall, LastIsTheSale, SaleIsNewest, OutcomeIsTrue,
              TodoNotFinal, Idle
<1>5. CASE \/ Tick
           \/ \E p \in Auths : ChainLands(p) \/ Dropped(p) \/ AccountLeaves(p)
  <2>1. UNCHANGED <<payments, call>>
    BY <1>5 DEF Tick, ChainLands, Dropped, AccountLeaves, chainVars, historyVars
  <2>2. \A p \in Auths : landed[p] = "ok" => landed'[p] = "ok"
    <3>1. LandedInv /\ landed \in [Auths -> {"none", "ok", "failed"}]
      BY DEF IInv, TypeOK
    <3> QED BY <1>5, <3>1
            DEF LandedInv, Tick, ChainLands, Dropped, AccountLeaves, chainVars
  <2>3. CASE Callers = {}
    BY <2>1, <2>2, <2>3 DEF SoloInv
  <2>4. ASSUME NEW c \in Callers PROVE SoloInv'
    <3>1. call[c] \in Calls /\ SoloCall(call[c]) /\ call'[c] = call[c]
      BY <1>0, <2>1 DEF TypeOK, SoloInv
    <3> QED BY <2>1, <2>2, <3>1, SoloMoves
  <2> QED BY <2>3, <2>4
<1> QED BY <1>2, <1>3, <1>4, <1>5

LEMMA SoloInit == Init => SoloInv
<1> SUFFICES ASSUME Init PROVE SoloInv
  OBVIOUS
<1>1. \A c \in Callers : call[c] = Idle
  BY DEF Init
<1>2. SoloCall(Idle)
  BY SoloIdle DEF Idle
<1> QED BY <1>1, <1>2 DEF SoloInv

LEMMA SoloStep ==
  ASSUME OneCallAtATime
  PROVE  IInv /\ IInv' /\ SoloInv /\ [Next]_vars => SoloInv'
<1> SUFFICES ASSUME IInv, IInv', SoloInv, [Next]_vars PROVE SoloInv'
  OBVIOUS
<1>1. CASE Next
  <2>1. CASE \E c \in Callers : CallStep(c)
    <3>1. PICK c \in Callers : CallStep(c)
      BY <2>1
    <3>2. CASE NetworkStep(c)
      BY <3>2, SoloNetwork
    <3>3. CASE Accept(c)
      BY <3>3, SoloAccepts
    <3>4. CASE MarksSubmitting(c)
      <4>1. PICK r \in QueuedPayments, k \in Calls :
              /\ Save(c, r) /\ Moves(c, k)
              /\ Head(call[c].todo) \in QueuedPayments /\ r.id = Head(call[c].todo).id
              /\ r.tier = Head(call[c].todo).tier
              /\ r.state = "submitting"
              /\ k.phase = "marking" /\ k.sale = call[c].sale
              /\ k.todo = call[c].todo
              /\ UNCHANGED <<clock, failures, stored, storedFailures, chainVars,
                             historyVars, drains>>
        BY <3>4, MarksType
      <4>2. /\ call[c].phase = "next" /\ call[c].todo # <<>>
            /\ UNCHANGED landed /\ ~Final(r.state)
        BY <3>4, <4>1 DEF MarksSubmitting, chainVars, historyVars, Final
      <4> QED BY <4>1, <4>2, SoloSaves
    <3>5. CASE \/ PrecheckPasses(c) \/ Rejected(c) \/ MetaLands(c)
               \/ MetaWriteFails(c) \/ DrainEnds(c)
      BY <3>5, SoloLocal
    <3> QED BY <3>1, <3>2, <3>3, <3>4, <3>5 DEF CallStep, LocalStep
  <2>2. CASE Merchant
    <3>1. CASE Expire
      BY <3>1, SoloAround
    <3>2. CASE \E c \in Callers :
                 \/ DrainBegins(c)
                 \/ \E p \in Auths, tier \in Tiers, a \in Amounts : Offer(c, p, tier, a)
      BY <3>2, SoloLocal
    <3> QED BY <2>2, <3>1, <3>2 DEF Merchant
  <2>3. CASE Environment
    BY <2>3, SoloWriteLands, SoloAround DEF Environment
  <2>4. CASE Crash
    BY <2>4, SoloAround
  <2> QED BY <1>1, <2>1, <2>2, <2>3, <2>4 DEF Next
<1>2. CASE UNCHANGED vars
  <2>1. UNCHANGED <<payments, call, landed>>
    BY <1>2 DEF vars, chainVars, historyVars
  <2> QED BY <2>1
          DEF SoloInv, SoloCall, LastIsTheSale, SaleIsNewest, OutcomeIsTrue,
              TodoNotFinal, Present
<1> QED BY <1>1, <1>2

LEMMA SoloHolds ==
  ASSUME OneCallAtATime
  PROVE  Spec => [](IInv /\ SoloInv)
<1>1. Init => IInv /\ SoloInv
  BY InitInv, SoloInit
<1>2. (IInv /\ SoloInv) /\ [Next]_vars => (IInv /\ SoloInv)'
  BY StepInv, SoloStep
<1> QED BY <1>1, <1>2, PTL DEF Spec

\* With one call at a time, a T0 sale is handed over only when its own payment
\* has landed: the drain it ends with handles that payment last, whatever else
\* was waiting in the queue.
THEOREM T0SettlesFirst ==
  ASSUME OneCallAtATime
  PROVE  Spec => T0HandsOverSettled
<1>1. IInv /\ SoloInv /\ [Next]_vars =>
        [\A p \in Auths :
           (handed'[p] > handed[p] /\ payments[p].tier = "T0")
             => landed[p] = "ok"]_vars
  <2> SUFFICES ASSUME IInv, SoloInv, [Next]_vars, NEW p \in Auths,
                      handed'[p] > handed[p], payments[p].tier = "T0"
               PROVE  landed[p] = "ok"
    OBVIOUS
  <2>1. PICK c \in Callers : /\ call[c].phase = "next" /\ call[c].todo = <<>>
                             /\ call[c].sale = p /\ call[c].last = "settled"
    BY HandsOverItsSale
  <2> QED BY <2>1, NullAssumption DEF SoloInv, SoloCall, LastIsTheSale
<1> QED BY <1>1, SoloHolds, PTL DEF Spec, T0HandsOverSettled

\* With one call at a time, a step changes a payment that is settled or voided
\* only by reloading the store.
LEMMA FinalStep ==
  IInv /\ SoloInv /\ [Next]_vars =>
    \A p \in Auths :
      (payments[p] # NULL /\ Final(payments[p].state))
        => payments'[p] = payments[p] \/ payments' = stored
<1> SUFFICES ASSUME IInv, SoloInv, [Next]_vars, NEW p \in Auths,
                    payments[p] # NULL, Final(payments[p].state),
                    payments' # stored
             PROVE  payments'[p] = payments[p]
  OBVIOUS
<1>0. TypeOK /\ p \in Present(payments)
  BY DEF IInv, Present
<1>1. ASSUME NEW c \in Callers, NEW r \in QueuedPayments, Save(c, r),
             call[c].todo # <<>>, r.id = Head(call[c].todo).id,
             call[c].phase \notin {"recording", "meta"}
      PROVE  payments'[p] = payments[p]
  <2>1. \A q \in Auths : q # r.id => payments'[q] = payments[q]
    BY <1>0, <1>1, SaveTouches
  <2>2. 1 \in DOMAIN call[c].todo /\ Head(call[c].todo) = call[c].todo[1]
    BY <1>0, <1>1, HeadType
  <2>3. ~Final(payments[r.id].state)
    BY <1>1, <2>2 DEF SoloInv, SoloCall, TodoNotFinal
  <2> QED BY <2>1, <2>3
<1>2. ASSUME NEW c \in Callers, CallStep(c) PROVE payments'[p] = payments[p]
  <2>1. CASE Accept(c)
    <3>1. PICK r \in QueuedPayments : Save(c, r) /\ r.id = call[c].sale
      BY <2>1, AcceptType
    <3>2. payments[r.id] = NULL
      BY <2>1, <3>1 DEF Accept, Acceptable
    <3> QED BY <1>0, <3>1, <3>2, SaveTouches
  <2>2. CASE MarksSubmitting(c)
    <3>1. PICK r \in QueuedPayments : Save(c, r) /\ r.id = Head(call[c].todo).id
      BY <2>2, MarksType
    <3>2. call[c].phase = "next" /\ call[c].todo # <<>>
      BY <2>2 DEF MarksSubmitting
    <3> QED BY <1>1, <3>1, <3>2
  <2>3. CASE NetworkStep(c)
    <3>1. CASE /\ call[c].phase \in {"readback", "lookup", "precheck"}
               /\ \E code \in Codes : Resolves(c, code)
      <4>1. call[c].todo # <<>>
        BY <3>1 DEF IInv, CallInv, CallShape, InHand, Phases
      <4>2. PICK r \in QueuedPayments : Save(c, r) /\ r.id = Head(call[c].todo).id
        BY <3>1, <4>1, ResolvesType
      <4> QED BY <1>1, <3>1, <4>1, <4>2
    <3>2. CASE UNCHANGED payments
      BY <3>2
    <3> QED BY <2>3, <3>1, <3>2, NetworkCases
  <2>4. CASE \/ PrecheckPasses(c) \/ Rejected(c) \/ MetaLands(c)
             \/ MetaWriteFails(c) \/ DrainEnds(c)
    BY <2>4 DEF PrecheckPasses, Rejected, MetaLands, MetaWriteFails, DrainEnds, OnlyTheCall
  <2> QED BY <1>2, <2>1, <2>2, <2>3, <2>4 DEF CallStep, LocalStep
<1>3. CASE Merchant
  <2>1. CASE Expire
    BY <1>0, <2>1, ExpireType
  <2>2. CASE ~Expire
    BY <1>3, <2>2 DEF Merchant, Offer, OnlyTheCall, DrainBegins
  <2> QED BY <2>1, <2>2
<1>4. CASE Environment
  BY <1>4 DEF Environment, ChainLands, Dropped, AccountLeaves, WriteLands, WriteFails, Tick
<1>5. CASE Crash
  BY <1>5 DEF Crash
<1>6. CASE UNCHANGED vars
  BY <1>6 DEF vars
<1> QED BY <1>2, <1>3, <1>4, <1>5, <1>6 DEF Next

\* With one call at a time, drains and the queue screen do not undo each other.
THEOREM FinalIsKept ==
  ASSUME OneCallAtATime
  PROVE  Spec => FinalStaysFinal
<1>1. IInv /\ SoloInv /\ [Next]_vars =>
        [\A p \in Auths :
           (payments[p] # NULL /\ Final(payments[p].state))
             => \/ payments'[p] = payments[p]
                \/ payments' = stored]_vars
  BY FinalStep
<1> QED BY <1>1, SoloHolds, PTL DEF Spec, FinalStaysFinal
------------------------------------------------------------------------------
(* RpcClient implements MerchantQueue *)

LEMMA RequestType ==
  /\ Quiet \in Requests /\ \A stage \in Stages : At(stage) \in Requests
  /\ \A stage \in Stages :
       At(stage).stage = stage /\ ~At(stage).taken /\ At(stage).attempt = 1
  /\ Quiet.stage = "none" /\ ~Quiet.taken
<1>1. 1 \in 1 .. Attempts /\ 0 \in 0 .. Polls
  BY AttemptAssumption
<1>2. Quiet \in Requests /\ Quiet.stage = "none" /\ ~Quiet.taken /\ Quiet.attempt = 1
  BY <1>1 DEF Quiet, Requests, Stages
<1>3. ASSUME NEW stage \in Stages
      PROVE  /\ At(stage) \in Requests /\ At(stage).stage = stage
             /\ ~At(stage).taken /\ At(stage).attempt = 1
  BY <1>2 DEF At, Requests
<1> QED BY <1>2, <1>3

\* Attempts and polls are counted within their bounds.
LEMMA RequestCounts ==
  ASSUME NEW r \in Requests
  PROVE  /\ r.attempt < Attempts => r.attempt + 1 \in 1 .. Attempts
         /\ r.polls < Polls => r.polls + 1 \in 0 .. Polls
<1>1. r.attempt \in 1 .. Attempts /\ r.polls \in 0 .. Polls
  BY DEF Requests
<1>2. \A n \in 1 .. Attempts : n < Attempts => n + 1 \in 1 .. Attempts
  BY AttemptAssumption
<1>3. \A n \in 0 .. Polls : n < Polls => n + 1 \in 0 .. Polls
  BY AttemptAssumption
<1> QED BY <1>1, <1>2, <1>3

\* A step that is no request leaves those in progress as they are.
LEMMA RequestsStay ==
  ASSUME RequestInv, UNCHANGED request,
         \A d \in Callers : call'[d] = call[d] \/ request[d].stage = "none"
  PROVE  RequestInv'
BY DEF RequestInv

\* A request of one call is no matter of another's.
LEMMA RequestMoves ==
  ASSUME RequestInv, NEW c \in Callers, NEW r \in Requests, Awaits(c, r),
         \A d \in Callers \ {c} : call'[d] = call[d],
         r.stage # "none" => call'[c].phase \in {"sending", "confirming"},
         (r.stage = "kit sends" /\ ~r.taken) => call'[c].phase = "sending",
         r.stage \in {"sends again", "polls"} => "rpcFailure" \in Faults
  PROVE  RequestInv'
<1>1. request \in [Callers -> Requests] /\ request' = [request EXCEPT ![c] = r]
  BY DEF RequestInv, Awaits
<1>2. request' \in [Callers -> Requests] /\ request'[c] = r
      /\ \A d \in Callers \ {c} : request'[d] = request[d]
  BY <1>1
<1>3. ASSUME NEW d \in Callers
      PROVE  /\ request'[d].stage # "none" => call'[d].phase \in {"sending", "confirming"}
             /\ (request'[d].stage = "kit sends" /\ ~request'[d].taken)
                  => call'[d].phase = "sending"
             /\ request'[d].stage \in {"sends again", "polls"} => "rpcFailure" \in Faults
  <2>1. CASE d = c
    BY <1>2, <2>1
  <2>2. CASE d # c
    BY <1>2, <2>2 DEF RequestInv
  <2> QED BY <2>1, <2>2
<1> QED BY <1>2, <1>3 DEF RequestInv

\* A submission throws as MerchantQueue says: before a broadcast, or after one
\* when the endpoint may fail.
LEMMA ThrowIsAllowed ==
  ASSUME RequestInv, NEW c \in Callers, request[c].stage # "none",
         \/ /\ Sends(c) /\ ~request[c].taken
            /\ SendThrows(c, Objection(Sent(c)))
         \/ "rpcFailure" \in Faults /\ SendThrows(c, "SUBMIT_RPC_UNAVAILABLE")
  PROVE  SendRefused(c) \/ SendUnconfirmed(c)
<1>1. call[c].phase \in {"sending", "confirming"}
  BY DEF RequestInv
<1>2. Sends(c) /\ ~request[c].taken =>
        call[c].phase = "sending" \/ "rpcFailure" \in Faults
  BY DEF RequestInv, Sends
<1> QED BY <1>1, <1>2 DEF SendRefused, SendUnconfirmed, Sent

\* Every request is one step of the submission, or none.
LEMMA RequestRefines ==
  ASSUME RequestInv, NEW c \in Callers, Request(c)
  PROVE  NetworkStep(c) \/ UNCHANGED vars
<1>1. CASE SendPayment(c) \/ Acknowledged(c)
  BY <1>1 DEF SendPayment, Acknowledged
<1>2. CASE Taken(c)
  BY <1>2 DEF Taken, NetworkStep
<1>3. CASE Objected(c)
  <2>1. Sends(c) /\ ~request[c].taken /\ request[c].stage # "none"
        /\ SendThrows(c, Objection(Sent(c)))
    BY <1>3 DEF Objected, Sends
  <2> QED BY <2>1, ThrowIsAllowed DEF NetworkStep
<1>4. CASE Watched(c)
  BY <1>4 DEF Watched, NetworkStep, SendUnconfirmed
<1>5. ASSUME SendThrows(c, "SUBMIT_RPC_UNAVAILABLE"), request[c].stage # "none",
             "rpcFailure" \in Faults
      PROVE  NetworkStep(c)
  BY <1>5, ThrowIsAllowed DEF NetworkStep
<1>6. CASE Polled(c)
  <2>1. request[c].stage = "polls" /\ "rpcFailure" \in Faults
    BY <1>6 DEF Polled, RequestInv
  <2>2. \/ SendConfirmed(c) \/ ConfirmerThrows(c) \/ UNCHANGED vars
        \/ SendThrows(c, "SUBMIT_RPC_UNAVAILABLE")
    BY <1>6 DEF Polled
  <2> QED BY <1>5, <2>1, <2>2 DEF NetworkStep, SendUnconfirmed
<1>7. CASE Throttled(c)
  <2>1. /\ request[c].stage # "none" /\ "rpcFailure" \in Faults
        /\ UNCHANGED vars \/ SendThrows(c, "SUBMIT_RPC_UNAVAILABLE")
    BY <1>7 DEF Throttled
  <2> QED BY <1>5, <2>1
<1>8. CASE Unreachable(c)
  BY <1>5, <1>8 DEF Unreachable
<1>9. CASE Reads(c)
  BY <1>9 DEF Reads, NetworkStep
<1> QED BY <1>1, <1>2, <1>3, <1>4, <1>6, <1>7, <1>8, <1>9 DEF Request

\* What a request in progress says of its call survives its own steps.
LEMMA RequestKeeps ==
  ASSUME IInv, RequestInv, NEW c \in Callers, Request(c)
  PROVE  RequestInv'
<1> DEFINE r == request[c]
<1>0. /\ r \in Requests /\ call \in [Callers -> Calls] /\ call[c] \in Calls
      /\ r.stage # "none" => call[c].phase \in {"sending", "confirming"}
      /\ (r.stage = "kit sends" /\ ~r.taken) => call[c].phase = "sending"
      /\ r.stage \in {"sends again", "polls"} => "rpcFailure" \in Faults
  BY DEF RequestInv, IInv, TypeOK
<1>1. NetworkStep(c) \/ UNCHANGED vars
  BY RequestRefines
<1>2. \A d \in Callers \ {c} : call'[d] = call[d]
  <2>1. CASE UNCHANGED vars
    BY <2>1 DEF vars
  <2>2. CASE NetworkStep(c)
    <3>1. \E k : Moves(c, k)
      BY <2>2, NetworkCases DEF Resolves
    <3> QED BY <1>0, <3>1 DEF Moves
  <2> QED BY <1>1, <2>1, <2>2
<1>3. ASSUME Awaits(c, Quiet) PROVE RequestInv'
  BY <1>2, <1>3, RequestType, RequestMoves
<1>4. ASSUME NEW n \in Requests, Awaits(c, n), UNCHANGED vars,
             n.stage # "none" => call[c].phase \in {"sending", "confirming"},
             (n.stage = "kit sends" /\ ~n.taken) => call[c].phase = "sending",
             n.stage \in {"sends again", "polls"} => "rpcFailure" \in Faults
      PROVE  RequestInv'
  <2>1. call'[c] = call[c]
    BY <1>4 DEF vars
  <2> QED BY <1>2, <1>4, <2>1, RequestMoves
<1>5. CASE SendPayment(c)
  BY <1>4, <1>5, RequestType DEF SendPayment, Stages
<1>6. CASE Taken(c)
  <2> DEFINE n == [r EXCEPT !.taken = TRUE]
  <2>1. n \in Requests /\ n.stage = r.stage /\ n.taken
    BY <1>0 DEF Requests
  <2>2. Awaits(c, n) /\ r.stage \in {"kit sends", "sends again"} /\ Broadcasts(c)
    BY <1>6 DEF Taken, Sends
  <2>3. call'[c].phase = "confirming"
    BY <1>0, <2>2 DEF Broadcasts, Moves, Calls
  <2> HIDE DEF n
  <2> QED BY <1>0, <1>2, <2>1, <2>2, <2>3, RequestMoves
<1>7. CASE Acknowledged(c)
  BY <1>0, <1>4, <1>7, RequestType DEF Acknowledged, Sends, Stages
<1>8. CASE Objected(c) \/ Watched(c) \/ Unreachable(c)
  BY <1>3, <1>8 DEF Objected, Watched, Unreachable
<1>9. CASE Polled(c)
  <2> DEFINE n == [At("polls") EXCEPT !.polls = r.polls + 1]
  <2>1. CASE r.polls < Polls /\ Awaits(c, n) /\ UNCHANGED vars
    <3>1. n \in Requests /\ n.stage = "polls"
      <4>1. r.polls + 1 \in 0 .. Polls
        BY <1>0, <2>1, RequestCounts
      <4>2. At("polls") \in Requests /\ At("polls").stage = "polls"
        BY RequestType DEF Stages
      <4> QED BY <4>1, <4>2 DEF Requests
    <3>2. r.stage = "polls"
      BY <1>9 DEF Polled
    <3> HIDE DEF n
    <3> QED BY <1>0, <1>4, <2>1, <3>1, <3>2
  <2>2. CASE Awaits(c, Quiet)
    BY <1>3, <2>2
  <2> QED BY <1>9, <2>1, <2>2 DEF Polled
<1>10. ASSUME r.attempt < Attempts
       PROVE  TriesAgain(r) \in Requests /\ TriesAgain(r).stage = r.stage
              /\ ~TriesAgain(r).taken
  <2>1. r.attempt + 1 \in 1 .. Attempts
    BY <1>0, <1>10, RequestCounts
  <2> QED BY <1>0, <2>1 DEF TriesAgain, Requests
<1>11. CASE Throttled(c)
  <2>1. "rpcFailure" \in Faults /\ r.stage # "none"
    BY <1>11 DEF Throttled
  <2>2. CASE r.stage \in {"kit sends", "kit watches"}
    <3>1. Awaits(c, At("sends again")) /\ UNCHANGED vars
      BY <1>11, <2>2 DEF Throttled
    <3> QED BY <1>0, <1>4, <2>1, <3>1, RequestType DEF Stages
  <2>3. CASE r.stage \in {"sends again", "polls"} /\ r.attempt < Attempts
    <3>1. Awaits(c, TriesAgain(r)) /\ UNCHANGED vars
      BY <1>11, <2>3 DEF Throttled
    <3> QED BY <1>0, <1>4, <1>10, <2>1, <2>3, <3>1
  <2>4. CASE Awaits(c, Quiet)
    BY <1>3, <2>4
  <2> QED BY <1>11, <2>2, <2>3, <2>4 DEF Throttled
<1>12. CASE Reads(c)
  <2>1. CASE Awaits(c, Quiet)
    BY <1>3, <2>1
  <2>2. CASE /\ AwaitsRead(c) /\ r.attempt < Attempts
             /\ Awaits(c, TriesAgain(r)) /\ UNCHANGED vars
    <3>1. r.stage = "none"
      BY <1>0, <2>2 DEF AwaitsRead
    <3> QED BY <1>4, <1>10, <2>2, <3>1
  <2> QED BY <1>12, <2>1, <2>2 DEF Reads
<1> QED BY <1>5, <1>6, <1>7, <1>8, <1>9, <1>11, <1>12 DEF Request

\* Every step of RpcClient is a step of MerchantQueue, or leaves it alone.
LEMMA RpcRefines ==
  RequestInv /\ [RpcNext]_rpcVars => [Next]_vars
<1> SUFFICES ASSUME RequestInv, [RpcNext]_rpcVars PROVE [Next]_vars
  OBVIOUS
<1>1. CASE \E c \in Callers : Request(c)
  BY <1>1, RequestRefines DEF Next, CallStep
<1>2. CASE \E c \in Callers : LocalStep(c)
  BY <1>2 DEF Next, CallStep
<1>3. CASE Merchant \/ Environment \/ Crash
  BY <1>3 DEF Next
<1>4. CASE UNCHANGED rpcVars
  BY <1>4 DEF rpcVars
<1> QED BY <1>1, <1>2, <1>3, <1>4 DEF RpcNext

LEMMA RequestStep ==
  IInv /\ RequestInv /\ [RpcNext]_rpcVars => RequestInv'
<1> SUFFICES ASSUME IInv, RequestInv, [RpcNext]_rpcVars PROVE RequestInv'
  OBVIOUS
<1>0. /\ call \in [Callers -> Calls]
      /\ \A c \in Callers :
           call[c].phase \notin {"sending", "confirming"} => request[c].stage = "none"
  BY DEF IInv, TypeOK, RequestInv
<1>1. CASE \E c \in Callers : Request(c)
  BY <1>1, RequestKeeps
<1>2. CASE \E c \in Callers : LocalStep(c) /\ UNCHANGED request
  <2>1. PICK c \in Callers : LocalStep(c) /\ UNCHANGED request
    BY <1>2
  <2>2. call[c].phase \in {"offered", "next", "meta"} /\ \E k : Moves(c, k)
    BY <2>1 DEF LocalStep, PrecheckPasses, Accept, Rejected, MarksSubmitting, MetaLands,
                MetaWriteFails, ThrowsOut, DrainEnds
  <2>3. \A d \in Callers : d # c => call'[d] = call[d]
    BY <1>0, <2>2 DEF Moves
  <2> QED BY <1>0, <2>1, <2>2, <2>3, RequestsStay
<1>3. CASE Merchant /\ UNCHANGED request
  <2>1. CASE Expire
    BY <1>3, <2>1, RequestsStay DEF Expire
  <2>2. CASE \E c \in Callers :
               \/ DrainBegins(c)
               \/ \E p \in Auths, tier \in Tiers, a \in Amounts : Offer(c, p, tier, a)
    <3>1. PICK c \in Callers : call[c] = Idle /\ \E k : Moves(c, k)
      BY <2>2 DEF DrainBegins, Offer
    <3>2. \A d \in Callers : d # c => call'[d] = call[d]
      BY <1>0, <3>1 DEF Moves
    <3>3. call[c].phase = "idle"
      BY <3>1 DEF Idle
    <3> QED BY <1>0, <1>3, <3>2, <3>3, RequestsStay
  <2> QED BY <1>3, <2>1, <2>2 DEF Merchant
<1>4. CASE Environment /\ UNCHANGED request
  <2>1. CASE WriteLands \/ WriteFails
    <3> PICK c : c = Head(writes).owner
      OBVIOUS
    <3>1. writes # <<>>
      BY <2>1 DEF WriteLands, WriteFails
    <3>2. CASE c = NULL
      <4>1. UNCHANGED call
        BY <2>1, <3>2 DEF WriteLands, WriteFails
      <4> QED BY <1>4, <4>1, RequestsStay
    <3>3. CASE c # NULL
      <4>1. c \in Callers /\ call[c].phase \in Waiting
        BY <3>1, <3>3, FirstWrite
      <4>2. \E k : Moves(c, k)
        <5>1. CASE WriteLands
          BY <3>3, <4>1, <5>1, ResumesCases DEF WriteLands
        <5>2. CASE WriteFails
          BY <3>3, <5>2 DEF WriteFails, ThrowsOut
        <5> QED BY <2>1, <5>1, <5>2
      <4>3. \A d \in Callers : d # c => call'[d] = call[d]
        BY <1>0, <4>2 DEF Moves
      <4>4. request[c].stage = "none"
        BY <1>0, <4>1 DEF Waiting
      <4> QED BY <1>4, <4>3, <4>4, RequestsStay
    <3> QED BY <3>2, <3>3
  <2>2. CASE \/ Tick
             \/ \E p \in Auths : ChainLands(p) \/ Dropped(p) \/ AccountLeaves(p)
    <3>1. UNCHANGED call
      BY <2>2 DEF Tick, ChainLands, Dropped, AccountLeaves
    <3> QED BY <1>4, <3>1, RequestsStay
  <2> QED BY <1>4, <2>1, <2>2 DEF Environment
<1>5. CASE Crash /\ request' = [c \in Callers |-> Quiet]
  BY <1>5, RequestType DEF RequestInv
<1>6. CASE UNCHANGED rpcVars
  BY <1>6, RequestsStay DEF rpcVars, vars
<1> QED BY <1>1, <1>2, <1>3, <1>4, <1>5, <1>6 DEF RpcNext

\* Over lost answers, retries and second broadcasts a submission takes no step
\* that MerchantQueue does not allow, so all that is proved of the queue holds
\* of it behind the RPC client.
THEOREM RpcImplementsQueue == RpcSpec => ImplementsQueue
<1>1. RpcInit => Init /\ IInv /\ RequestInv
  BY InitInv, RequestType DEF RpcInit, RequestInv
<1>2. IInv /\ RequestInv /\ [RpcNext]_rpcVars => IInv' /\ RequestInv' /\ [Next]_vars
  BY RequestStep, RpcRefines, StepInv
<1> QED BY <1>1, <1>2, PTL DEF RpcSpec, ImplementsQueue, Spec
==============================================================================
