--------------------------- MODULE ExchangeProofs ---------------------------
(***************************************************************************)
(* Proofs about Exchange: what a payer confirms is a request some till     *)
(* made, what a till takes for verified was confirmed by its payer, the    *)
(* answer to a till's own request is accepted, and a token's verdict that  *)
(* is not marked mutable stays true.                                       *)
(***************************************************************************)
EXTENDS Exchange, TLAPS

(***************************************************************************)
(* The inductive invariant: the shapes of the records, and                 *)
(*  - CacheInv: what a device keeps about a token that it may keep for     *)
(*    ever still says what the token's account says, and the account       *)
(*    cannot come to say anything else;                                    *)
(*  - SettingsInv: a token is chosen only once its record is there;        *)
(*  - TillInv: away from home, a till's request is its own and was issued; *)
(*  - PayerInv: a payer's request was issued, its amount is the request's  *)
(*    if that has one, and an answer on screen is to that very request,    *)
(*    over that amount and a slot, and was agreed to.                      *)
(***************************************************************************)
Tills ==
  [screen : {"home", "printed", "waiting", "verified"}, intent : Intents \cup {NULL},
   expected : Amounts \cup {NULL}, payment : Messages \cup {NULL}]

AuthCodes ==
  {EncodeAuth(AuthOf(intent, p, slot, amount), AnswerFlags(intent)) :
     intent \in Intents, p \in Payers, slot \in 1 .. MaxSigned, amount \in Amounts}
PayerScreens ==
  [screen : {"home", "amount", "confirm", "shown"}, intent : Intents \cup {NULL},
   amount : Amounts \cup {NULL}, auth : AuthCodes \cup {NULL}]

Shapes ==
  /\ mints \in [Mints -> RawMints]
  /\ cache \in [Devices -> [Mints -> MintRecords \cup {NULL}]]
  /\ settings \in [Merchants -> [mint : Mints \cup {NULL}, includeCreateAta : BOOLEAN]]
  /\ till \in [Merchants -> Tills]
  /\ payer \in [Payers -> PayerScreens]
  /\ issued \subseteq Intents
  /\ used \in [Payers -> 0 .. MaxSigned]
  /\ agreed \subseteq Messages
  /\ changes \in 0 .. MaxChanges

\* The record may be kept for ever, and the account still bears it out.
StaysTrue(record, raw) ==
  /\ record.compatible = EvaluateMint(raw).compatible
  /\ ~EvaluateMint(raw).mutable

CacheInv ==
  \A d \in Devices, mint \in Mints :
    (cache[d][mint] # NULL /\ ~cache[d][mint].mutable)
      => StaysTrue(cache[d][mint], mints[mint])

SettingsInv ==
  \A m \in Merchants :
    settings[m].mint # NULL => cache[m][settings[m].mint] \in MintRecords

TillInv ==
  \A m \in Merchants :
    /\ till[m].intent # NULL => till[m].intent \in issued
    /\ till[m].screen # "home" =>
         till[m].intent \in issued /\ till[m].intent.merchant = m

\* An answer that a payer can have on its screen.
Answers(code, intent, by, slot, amount) ==
  /\ Buildable(intent, slot)
  /\ Message(intent, by, slot, amount) \in agreed
  /\ code = EncodeAuth(AuthOf(intent, by, slot, amount), AnswerFlags(intent))

PayerInv ==
  \A p \in Payers :
    /\ payer[p].screen # "home" => payer[p].intent \in issued
    /\ payer[p].screen = "amount" => payer[p].intent.amount = NULL
    /\ payer[p].screen \in {"confirm", "shown"} =>
         /\ payer[p].amount \in Amounts
         /\ payer[p].intent.amount # NULL => payer[p].amount = payer[p].intent.amount
    /\ payer[p].auth # NULL => payer[p].screen = "shown"
    /\ payer[p].screen = "shown" =>
         \E slot \in 1 .. MaxSigned :
           Answers(payer[p].auth, payer[p].intent, p, slot, payer[p].amount)

IInv == /\ Shapes /\ CacheInv /\ SettingsInv /\ TillInv /\ PayerInv
        /\ AcceptedWasAgreed
------------------------------------------------------------------------------
(* Mints *)

LEMMA BlockersType == \A e \in Extensions : BlockersOf(e) \subseteq Blockers
BY DEF Extensions, ExtensionKinds, BlockersOf, BlockerFor, Blockers

LEMMA WarningsType == \A e \in Extensions : WarningsOf(e) \subseteq Warnings
BY DEF Extensions, ExtensionKinds, WarningsOf, Warnings

\* What evaluateMint makes of an account is a record of the cache.
LEMMA EvaluateType ==
  ASSUME NEW raw \in RawMints
  PROVE  EvaluateMint(raw) \in MintRecords
<1>1. raw.extensions \subseteq Extensions /\ raw.tokenProgram \in TokenPrograms
  BY DEF RawMints
<1> DEFINE b == UNION {BlockersOf(e) : e \in raw.extensions}
           w == UNION {WarningsOf(e) : e \in raw.extensions}
<1>2. b \in SUBSET Blockers
  BY <1>1, BlockersType
<1>3. w \in SUBSET Warnings
  BY <1>1, WarningsType
<1>4. w \cup (IF raw.freezeAuthority THEN {"freeze-authority"} ELSE {}) \in SUBSET Warnings
  BY <1>3 DEF Warnings
<1>5. (b = {}) \in BOOLEAN /\ (\E e \in raw.extensions : MutableBy(raw, e)) \in BOOLEAN
  OBVIOUS
<1> QED BY <1>1, <1>2, <1>4, <1>5 DEF EvaluateMint, MintRecords

LEMMA ChangedType ==
  ASSUME NEW raw, NEW e \in Extensions, NEW changed \in Changed(raw, e)
  PROVE  changed \in Extensions /\ changed.kind = e.kind
<1>1. changed = e \/ \E a \in {"yes", "no"}, h \in {FALSE, e.authority} :
                       changed = [e EXCEPT !.active = a, !.authority = h]
  BY DEF Changed
<1>2. ASSUME NEW a \in {"yes", "no"}, NEW h \in {FALSE, e.authority},
             changed = [e EXCEPT !.active = a, !.authority = h]
      PROVE  changed \in Extensions /\ changed.kind = e.kind
  <2>1. h \in BOOLEAN
    BY DEF Extensions
  <2> QED BY <1>2, <2>1 DEF Extensions
<1> QED BY <1>1, <1>2

\* A change of an account: the freeze authority is given up, or one extension is
\* changed.
LEMMA SuccessorCases ==
  ASSUME NEW raw \in RawMints, NEW next \in MintSuccessors(raw)
  PROVE  \/ next = [raw EXCEPT !.freezeAuthority = FALSE]
         \/ \E e \in raw.extensions : \E changed \in Changed(raw, e) :
              next = [raw EXCEPT !.extensions = (@ \ {e}) \cup {changed}]
<1>1. CASE next = [raw EXCEPT !.freezeAuthority = FALSE]
  BY <1>1
<1>2. ASSUME NEW e \in raw.extensions,
             next \in {[raw EXCEPT !.extensions = (@ \ {e}) \cup {changed}] :
                         changed \in Changed(raw, e)}
      PROVE  \E changed \in Changed(raw, e) :
               next = [raw EXCEPT !.extensions = (@ \ {e}) \cup {changed}]
  BY <1>2
<1> QED BY <1>1, <1>2 DEF MintSuccessors

LEMMA SuccessorType ==
  ASSUME NEW raw \in RawMints, NEW next \in MintSuccessors(raw)
  PROVE  next \in RawMints
<1>1. CASE next = [raw EXCEPT !.freezeAuthority = FALSE]
  BY <1>1 DEF RawMints
<1>2. ASSUME NEW e \in raw.extensions, NEW changed \in Changed(raw, e),
             next = [raw EXCEPT !.extensions = (@ \ {e}) \cup {changed}]
      PROVE  next \in RawMints
  <2>1. raw.extensions \in SUBSET Extensions /\ changed \in Extensions
    BY ChangedType DEF RawMints
  <2> QED BY <1>2, <2>1 DEF RawMints
<1> QED BY <1>1, <1>2, SuccessorCases

\* An account that evaluateMint does not find mutable keeps its verdict, and is
\* not found mutable after any change the token programs allow.
LEMMA VerdictStays ==
  ASSUME NEW raw \in RawMints, NEW next \in MintSuccessors(raw),
         ~EvaluateMint(raw).mutable
  PROVE  /\ EvaluateMint(next).compatible = EvaluateMint(raw).compatible
         /\ ~EvaluateMint(next).mutable
<1>1. \A e \in raw.extensions : ~MutableBy(raw, e)
  BY DEF EvaluateMint
<1>2. SUFFICES /\ UNION {BlockersOf(e) : e \in next.extensions}
                    = UNION {BlockersOf(e) : e \in raw.extensions}
               /\ \A e \in next.extensions : ~MutableBy(next, e)
  BY DEF EvaluateMint
<1>3. raw.extensions \subseteq Extensions
  BY DEF RawMints
<1>4. CASE next = [raw EXCEPT !.freezeAuthority = FALSE]
  <2>1. next.extensions = raw.extensions /\ next.freezeAuthority = FALSE
    BY <1>4 DEF RawMints
  <2> QED BY <1>1, <1>3, <2>1 DEF MutableBy, Extensions, ExtensionKinds
<1>5. ASSUME NEW e \in raw.extensions, NEW changed \in Changed(raw, e),
             next = [raw EXCEPT !.extensions = (@ \ {e}) \cup {changed}]
      PROVE  /\ UNION {BlockersOf(x) : x \in next.extensions}
                  = UNION {BlockersOf(x) : x \in raw.extensions}
             /\ \A x \in next.extensions : ~MutableBy(next, x)
  <2>1. /\ next.extensions = (raw.extensions \ {e}) \cup {changed}
        /\ next.freezeAuthority = raw.freezeAuthority
    BY <1>5 DEF RawMints
  <2>2. changed \in Extensions /\ changed.kind = e.kind /\ e \in Extensions
    BY <1>3, <1>5, ChangedType
  <2>3. BlockersOf(changed) = BlockersOf(e) /\ ~MutableBy(raw, changed)
    <3>1. CASE changed = e
      BY <1>1, <3>1
    <3>2. CASE changed # e
      <4>1. e.kind \notin {"transferHook", "transferFeeConfig", "pausableConfig",
                           "defaultAccountState", "nonTransferable"}
        BY <1>1, <1>5, <3>2 DEF Changed, MutableBy
      <4> QED BY <2>2, <4>1 DEF BlockersOf, BlockerFor, MutableBy
    <3> QED BY <3>1, <3>2
  <2>4. \A x \in next.extensions : ~MutableBy(next, x)
    BY <1>1, <2>1, <2>3 DEF MutableBy
  <2> QED BY <2>1, <2>3, <2>4
<1> QED BY <1>4, <1>5, SuccessorCases
------------------------------------------------------------------------------
(* The wire format *)

LEMMA FlagsSay ==
  ASSUME NEW intent \in Intents
  PROVE  /\ "LIFETIME_FRESH" \in FlagsOf(intent) <=> intent.lifetime = "fresh"
         /\ "INCLUDE_CREATE_ATA" \in FlagsOf(intent) <=> intent.includeCreateAta
         /\ "TOKEN_2022" \in FlagsOf(intent) <=> intent.tokenProgram = "token-2022"
         /\ "AMOUNT_IN_AUTH" \in FlagsOf(intent) <=> intent.amount = NULL
         /\ FlagsOf(intent) \cap {"RESERVED", "FEE_PAYER_SEPARATE"} = {}
         /\ FlagsOf(intent) \in SUBSET Flags
BY DEF FlagsOf, FlagIf, Flags

Types == {"INTENT", "STATIC_INTENT", "AUTH"}

LEMMA LengthType ==
  ASSUME NEW type \in Types, NEW flags \in SUBSET Flags
  PROVE  ExpectedLength(type, flags) \in Nat \ 0 .. 67
BY DEF Types, ExpectedLength

\* Of all the ways a code can be read, the only one that gets past readHeader is
\* the code as it was displayed.
LEMMA OnlyTheCode ==
  ASSUME NEW type \in Types, NEW flags \in SUBSET Flags, NEW fields,
         NEW wanted \in Types,
         NEW payload \in Readings(Encoded(type, flags, fields)),
         HeaderOk(payload, wanted)
  PROVE  payload = Encoded(type, flags, fields) /\ wanted = type
<1> DEFINE code == Encoded(type, flags, fields)
<1>1. /\ code = [version |-> 1, type |-> type, flags |-> flags,
                 length |-> ExpectedLength(type, flags), fields |-> fields]
      /\ ExpectedLength(type, flags) \in Nat
  BY LengthType DEF Encoded
<1>2. /\ payload.version = 1 /\ payload.type = wanted
      /\ "RESERVED" \notin payload.flags
      /\ wanted = "STATIC_INTENT" => "LIFETIME_FRESH" \notin payload.flags
      /\ payload.length = ExpectedLength(wanted, payload.flags)
  BY DEF HeaderOk, HeaderReads
<1>3. payload.type = type
  BY <1>1 DEF Readings
<1>4. wanted = type
  BY <1>2, <1>3
<1>5. CASE payload = code
  BY <1>4, <1>5
<1>6. payload # [code EXCEPT !.version = 2]
  BY <1>1, <1>2
<1>7. payload # [code EXCEPT !.length = @ - 1]
  <2> SUFFICES ASSUME payload = [code EXCEPT !.length = @ - 1]
               PROVE  FALSE
    OBVIOUS
  <2>1. payload.length = ExpectedLength(type, flags) - 1 /\ payload.flags = flags
    BY <1>1
  <2> QED BY <1>1, <1>2, <1>4, <2>1
<1>8. payload # [code EXCEPT !.flags = @ \cup {"RESERVED"}]
  BY <1>1, <1>2
<1>9. CASE payload = [code EXCEPT !.flags = @ \cup {"LIFETIME_FRESH"}]
  <2>1. /\ payload.flags = flags \cup {"LIFETIME_FRESH"}
        /\ payload.length = ExpectedLength(type, flags)
    BY <1>1, <1>9
  <2>2. type # "STATIC_INTENT"
    BY <1>2, <1>4, <2>1
  <2>3. ExpectedLength(type, flags \cup {"LIFETIME_FRESH"}) = ExpectedLength(type, flags)
    BY <1>2, <1>4, <2>1
  <2>4. "LIFETIME_FRESH" \in flags
    <3>1. CASE type = "INTENT"
      BY <2>3, <3>1 DEF ExpectedLength
    <3>2. CASE type = "AUTH"
      BY <2>3, <3>2 DEF ExpectedLength
    <3> QED BY <2>2, <3>1, <3>2 DEF Types
  <2>5. flags \cup {"LIFETIME_FRESH"} = flags
    BY <2>4
  <2>6. payload = code
    BY <1>1, <1>9, <2>5
  <2> QED BY <1>4, <2>6
<1> QED BY <1>5, <1>6, <1>7, <1>8, <1>9 DEF Readings

\* A request on the wire is the request: nothing is lost in the encoding.
LEMMA IntentSurvives ==
  ASSUME NEW intent \in Intents
  PROVE  DecodedIntent(EncodeIntent(intent)) = intent
<1> DEFINE code == EncodeIntent(intent)
<1>1. /\ code.flags = FlagsOf(intent)
      /\ code.fields = [merchant |-> intent.merchant, mint |-> intent.mint,
                        amount |-> intent.amount]
  BY DEF EncodeIntent, Encoded
<1>2. DecodedIntent(code) =
        [merchant |-> intent.merchant, mint |-> intent.mint, amount |-> intent.amount,
         lifetime |-> intent.lifetime, includeCreateAta |-> intent.includeCreateAta,
         tokenProgram |-> intent.tokenProgram]
  BY <1>1, FlagsSay DEF DecodedIntent, TokenProgramOf, Intents, TokenPrograms
<1> QED BY <1>2 DEF Intents

\* A code that a payer's app decodes as a request is one, with an amount if and
\* only if it is not a printed one.
LEMMA DecodesRequest ==
  ASSUME NEW intent \in Intents, NEW payload \in Readings(EncodeIntent(intent)),
         NEW type \in Types, HeaderOk(payload, type)
  PROVE  /\ DecodedIntent(payload) = intent
         /\ type = IF intent.amount = NULL THEN "STATIC_INTENT" ELSE "INTENT"
<1> DEFINE kind   == IF intent.amount = NULL THEN "STATIC_INTENT" ELSE "INTENT"
           flags  == FlagsOf(intent)
           fields == [merchant |-> intent.merchant, mint |-> intent.mint,
                      amount |-> intent.amount]
<1>1. kind \in Types /\ flags \in SUBSET Flags
  BY FlagsSay DEF Types
<1>2. EncodeIntent(intent) = Encoded(kind, flags, fields)
  BY DEF EncodeIntent
<1>3. payload = EncodeIntent(intent) /\ type = kind
  <2>1. payload \in Readings(Encoded(kind, flags, fields))
    BY <1>2
  <2> HIDE DEF kind, flags, fields
  <2> QED BY <1>1, <1>2, <2>1, OnlyTheCode
<1> QED BY <1>3, IntentSurvives

\* A code that is decoded as an answer is one, and holds what its payer's app put
\* into it.
LEMMA DecodesAnswer ==
  ASSUME NEW intent \in Intents, NEW by \in Payers, NEW slot \in 1 .. MaxSigned,
         NEW amount \in Amounts, NEW code,
         code = EncodeAuth(AuthOf(intent, by, slot, amount), AnswerFlags(intent)),
         Buildable(intent, slot),
         NEW payload \in Readings(code), NEW type \in Types, HeaderOk(payload, type)
  PROVE  /\ type = "AUTH" /\ payload = code /\ payload.flags = FlagsOf(intent)
         /\ payload.fields = AuthOf(intent, by, slot, amount)
         /\ DecodedAuth(payload) = AuthOf(intent, by, slot, amount)
<1> DEFINE auth == AuthOf(intent, by, slot, amount)
<1>1. FlagsOf(intent) \in SUBSET Flags /\ "AUTH" \in Types
  BY FlagsSay DEF Types
<1>2. code = Encoded("AUTH", FlagsOf(intent), auth)
  BY DEF EncodeAuth, AnswerFlags
<1>3. payload = code /\ type = "AUTH"
  <2> HIDE DEF auth
  <2> QED BY <1>1, <1>2, OnlyTheCode
<1>4. payload.flags = FlagsOf(intent) /\ payload.fields = auth
  BY <1>2, <1>3 DEF Encoded
<1>5. intent.lifetime = "nonce"
  BY ParametersAssumption DEF Buildable
<1>6. DecodedAuth(payload) = [auth EXCEPT !.amount = IF intent.amount = NULL THEN @ ELSE NULL]
  <2>1. "LIFETIME_FRESH" \notin payload.flags
        /\ ("AMOUNT_IN_AUTH" \in payload.flags <=> intent.amount = NULL)
    BY <1>4, <1>5, FlagsSay
  <2> QED BY <1>4, <2>1 DEF DecodedAuth, AuthOf
<1>7. DecodedAuth(payload) = auth
  BY <1>6 DEF AuthOf
<1> QED BY <1>3, <1>4, <1>7
------------------------------------------------------------------------------
(* The steps that leave the screens alone *)

\* The screens, the requests and the answers stay as they are.
ScreensStay == UNCHANGED <<till, payer, issued, used, agreed>>

LEMMA ScreensKeep ==
  ASSUME IInv, ScreensStay
  PROVE  TillInv' /\ PayerInv' /\ AcceptedWasAgreed'
<1> USE DEF IInv, ScreensStay
<1>1. TillInv' /\ AcceptedWasAgreed'
  BY DEF TillInv, AcceptedWasAgreed
<1>2. PayerInv'
  BY DEF PayerInv, Answers
<1> QED BY <1>1, <1>2

LEMMA FetchesKeeps ==
  ASSUME IInv, NEW d \in Devices, NEW mint \in Mints, Fetches(d, mint), mints' = mints
  PROVE  /\ cache' \in [Devices -> [Mints -> MintRecords \cup {NULL}]]
         /\ cache'[d][mint] \in MintRecords
         /\ \A e \in Devices, other \in Mints :
              cache[e][other] \in MintRecords => cache'[e][other] \in MintRecords
         /\ CacheInv'
<1> DEFINE record == EvaluateMint(mints[mint])
<1>1. /\ cache \in [Devices -> [Mints -> MintRecords \cup {NULL}]]
      /\ mints \in [Mints -> RawMints] /\ CacheInv
  BY DEF IInv, Shapes
<1>2. record \in MintRecords
  BY <1>1, EvaluateType
<1>3. cache' = [cache EXCEPT ![d][mint] = record]
  BY DEF Fetches
<1>4. ~record.mutable => StaysTrue(record, mints[mint])
  BY DEF StaysTrue
<1> HIDE DEF record
<1>5. /\ cache'[d][mint] = record
      /\ \A e \in Devices, other \in Mints :
           (e # d \/ other # mint) => cache'[e][other] = cache[e][other]
  BY <1>1, <1>3
<1>6. cache' \in [Devices -> [Mints -> MintRecords \cup {NULL}]]
  BY <1>1, <1>2, <1>3
<1>7. CacheInv'
  BY <1>1, <1>4, <1>5 DEF CacheInv, StaysTrue
<1> QED BY <1>2, <1>5, <1>6, <1>7

LEMMA DevicesKeep ==
  ASSUME IInv, NEW d \in Devices, NEW mint \in Mints
  PROVE  /\ d \in Merchants /\ ChooseMint(d, mint) => IInv'
         /\ d \in Payers /\ CheckToken(d, mint) => IInv'
<1>1. /\ cache \in [Devices -> [Mints -> MintRecords \cup {NULL}]]
      /\ settings \in [Merchants -> [mint : Mints \cup {NULL}, includeCreateAta : BOOLEAN]]
      /\ SettingsInv
  BY DEF IInv, Shapes
<1>2. ASSUME NEW m \in Merchants, m = d, ChooseMint(m, mint)
      PROVE  IInv'
  <2>1. Fetches(d, mint) /\ mints' = mints /\ changes' = changes /\ ScreensStay
    BY <1>2 DEF ChooseMint, chainVars, ScreensStay
  <2>2. \/ settings' = [settings EXCEPT ![m].mint = mint]
        \/ settings' = settings
    BY <1>2 DEF ChooseMint
  <2>3. /\ settings' \in [Merchants -> [mint : Mints \cup {NULL}, includeCreateAta : BOOLEAN]]
        /\ \A o \in Merchants :
             settings'[o].mint = settings[o].mint \/ (o = m /\ settings'[o].mint = mint)
    BY <1>1, <2>2
  <2>4. SettingsInv'
    <3> SUFFICES ASSUME NEW o \in Merchants, settings'[o].mint # NULL
                 PROVE  cache'[o][settings'[o].mint] \in MintRecords
      BY DEF SettingsInv
    <3>1. o \in Devices /\ settings'[o].mint \in Mints
      BY <2>3 DEF Devices
    <3>2. CASE settings'[o].mint = settings[o].mint
      <4>1. cache[o][settings'[o].mint] \in MintRecords
        BY <1>1, <3>2 DEF SettingsInv
      <4> QED BY <2>1, <3>1, <4>1, FetchesKeeps
    <3>3. CASE o = m /\ settings'[o].mint = mint
      BY <1>2, <2>1, <3>3, FetchesKeeps
    <3> QED BY <2>3, <3>2, <3>3
  <2>5. Shapes'
    <3>1. cache' \in [Devices -> [Mints -> MintRecords \cup {NULL}]]
      BY <2>1, FetchesKeeps
    <3> QED BY <2>1, <2>3, <3>1 DEF IInv, Shapes, ScreensStay
  <2>6. CacheInv'
    BY <2>1, FetchesKeeps
  <2> QED BY <2>1, <2>4, <2>5, <2>6, ScreensKeep DEF IInv
<1>3. ASSUME CheckToken(d, mint)
      PROVE  IInv'
  <2>1. Fetches(d, mint) /\ mints' = mints /\ changes' = changes
        /\ settings' = settings /\ ScreensStay
    BY <1>3 DEF CheckToken, chainVars, ScreensStay
  <2>2. /\ cache' \in [Devices -> [Mints -> MintRecords \cup {NULL}]] /\ CacheInv'
        /\ \A e \in Devices, other \in Mints :
              cache[e][other] \in MintRecords => cache'[e][other] \in MintRecords
    BY <2>1, FetchesKeeps
  <2>3. SettingsInv'
    BY <1>1, <2>1, <2>2 DEF SettingsInv, Devices
  <2>4. Shapes'
    BY <2>1, <2>2 DEF IInv, Shapes, ScreensStay
  <2> QED BY <2>1, <2>2, <2>3, <2>4, ScreensKeep DEF IInv
<1> QED BY <1>2, <1>3

LEMMA WorldKeeps ==
  ASSUME IInv
  PROVE  /\ MintChanges => IInv'
         /\ \A m \in Merchants : ToggleCreateAta(m) => IInv'
<1>1. /\ mints \in [Mints -> RawMints] /\ changes \in 0 .. MaxChanges
      /\ cache \in [Devices -> [Mints -> MintRecords \cup {NULL}]]
      /\ settings \in [Merchants -> [mint : Mints \cup {NULL}, includeCreateAta : BOOLEAN]]
      /\ CacheInv /\ SettingsInv
  BY DEF IInv, Shapes
<1>2. changes < MaxChanges => changes + 1 \in 0 .. MaxChanges
  BY <1>1, ParametersAssumption
<1>3. ASSUME MintChanges
      PROVE  IInv'
  <2>1. /\ cache' = cache /\ settings' = settings /\ changes' \in 0 .. MaxChanges
        /\ ScreensStay
    BY <1>2, <1>3 DEF MintChanges, deviceVars, ScreensStay
  <2>a. PICK mint \in Mints :
               \E raw \in MintSuccessors(mints[mint]) : mints' = [mints EXCEPT ![mint] = raw]
    BY <1>3 DEF MintChanges
  <2>2. PICK raw \in MintSuccessors(mints[mint]) : mints' = [mints EXCEPT ![mint] = raw]
    BY <2>a
  <2>3. raw \in RawMints
    BY <1>1, SuccessorType
  <2>4. mints' \in [Mints -> RawMints]
    BY <1>1, <2>2, <2>3
  <2>5. CacheInv'
    <3> SUFFICES ASSUME NEW d \in Devices, NEW o \in Mints,
                        cache[d][o] # NULL, ~cache[d][o].mutable
                 PROVE  StaysTrue(cache[d][o], mints'[o])
      BY <2>1 DEF CacheInv, StaysTrue
    <3>1. StaysTrue(cache[d][o], mints[o])
      BY <1>1 DEF CacheInv
    <3>2. CASE o = mint
      <4>1. mints'[o] = raw
        BY <1>1, <2>2, <3>2
      <4>2. /\ EvaluateMint(raw).compatible = EvaluateMint(mints[o]).compatible
            /\ ~EvaluateMint(raw).mutable
        BY <1>1, <2>2, <3>1, <3>2, VerdictStays DEF StaysTrue
      <4> QED BY <3>1, <4>1, <4>2 DEF StaysTrue
    <3>3. CASE o # mint
      BY <1>1, <2>2, <3>1, <3>3
    <3> QED BY <3>2, <3>3
  <2>6. Shapes' /\ SettingsInv'
    BY <1>1, <2>1, <2>4 DEF IInv, Shapes, ScreensStay, SettingsInv
  <2> QED BY <2>1, <2>5, <2>6, ScreensKeep DEF IInv
<1>4. ASSUME NEW m \in Merchants, ToggleCreateAta(m)
      PROVE  IInv'
  <2>1. /\ settings' = [settings EXCEPT ![m].includeCreateAta = ~@]
        /\ cache' = cache /\ mints' = mints /\ changes' \in 0 .. MaxChanges /\ ScreensStay
    BY <1>2, <1>4 DEF ToggleCreateAta, ScreensStay
  <2>2. /\ settings' \in [Merchants -> [mint : Mints \cup {NULL}, includeCreateAta : BOOLEAN]]
        /\ \A o \in Merchants : settings'[o].mint = settings[o].mint
    BY <1>1, <2>1
  <2>3. SettingsInv' /\ CacheInv'
    BY <1>1, <2>1, <2>2 DEF SettingsInv, CacheInv, StaysTrue
  <2>4. Shapes'
    BY <2>1, <2>2 DEF IInv, Shapes, ScreensStay
  <2> QED BY <2>1, <2>3, <2>4, ScreensKeep DEF IInv
<1> QED BY <1>3, <1>4
------------------------------------------------------------------------------
(* The tills *)

\* Chain, caches and settings stay as they are, and so do the bounds.
RestStays == UNCHANGED <<mints, changes, cache, settings>>

LEMMA RestKeeps ==
  ASSUME IInv, RestStays
  PROVE  CacheInv' /\ SettingsInv'
BY DEF IInv, RestStays, CacheInv, SettingsInv, StaysTrue

\* More requests and more agreements leave the payers' screens right.
LEMMA PayersKeep ==
  ASSUME IInv, payer' = payer, issued \subseteq issued', agreed \subseteq agreed'
  PROVE  PayerInv'
<1> SUFFICES ASSUME NEW p \in Payers
             PROVE  /\ payer[p].screen # "home" => payer[p].intent \in issued'
                    /\ payer[p].screen = "amount" => payer[p].intent.amount = NULL
                    /\ payer[p].screen \in {"confirm", "shown"} =>
                         /\ payer[p].amount \in Amounts
                         /\ payer[p].intent.amount # NULL =>
                              payer[p].amount = payer[p].intent.amount
                    /\ payer[p].auth # NULL => payer[p].screen = "shown"
                    /\ payer[p].screen = "shown" =>
                         \E slot \in 1 .. MaxSigned :
                           Answers(payer[p].auth, payer[p].intent, p, slot, payer[p].amount)'
  BY DEF PayerInv, Answers
<1>1. payer[p].screen = "shown" =>
        \E slot \in 1 .. MaxSigned :
          Answers(payer[p].auth, payer[p].intent, p, slot, payer[p].amount)'
  BY DEF IInv, PayerInv, Answers
<1> QED BY <1>1 DEF IInv, PayerInv

LEMMA IntentForType ==
  ASSUME IInv, NEW m \in Merchants, settings[m].mint # NULL,
         NEW amount \in Amounts \cup {NULL}, NEW lifetime \in {"nonce", "fresh"}
  PROVE  /\ IntentFor(m, amount, lifetime) \in Intents
         /\ IntentFor(m, amount, lifetime).merchant = m
         /\ IntentFor(m, amount, lifetime).amount = amount
<1>1. settings[m].mint \in Mints /\ settings[m].includeCreateAta \in BOOLEAN
  BY DEF IInv, Shapes
<1>2. cache[m][settings[m].mint].tokenProgram \in TokenPrograms
  BY DEF IInv, SettingsInv, MintRecords
<1> QED BY <1>1, <1>2 DEF IntentFor, Intents

LEMMA IssuesKeeps ==
  ASSUME IInv, NEW m \in Merchants, NEW intent \in Intents, Issues(m, intent),
         intent.merchant = m
  PROVE  IInv'
<1> DEFINE next == [screen |-> IF intent.amount = NULL THEN "printed" ELSE "waiting",
                    intent |-> intent, expected |-> intent.amount, payment |-> NULL]
<1>1. /\ till' = [till EXCEPT ![m] = next] /\ issued' = issued \cup {intent}
      /\ RestStays /\ UNCHANGED <<payer, used, agreed>>
  BY DEF Issues, RestStays, chainVars, deviceVars
<1>2. next \in Tills
  BY DEF Tills, Intents
<1>3. till \in [Merchants -> Tills] /\ issued \subseteq Intents
  BY DEF IInv, Shapes
<1>4. till'[m] = next /\ \A o \in Merchants : o # m => till'[o] = till[o]
  BY <1>1, <1>3
<1>5. Shapes'
  BY <1>1, <1>2, <1>3 DEF IInv, Shapes, RestStays
<1>6. PayerInv'
  BY <1>1, PayersKeep DEF IInv
<1>7. TillInv'
  BY <1>1, <1>4 DEF IInv, TillInv
<1>8. AcceptedWasAgreed'
  BY <1>1, <1>4 DEF IInv, AcceptedWasAgreed
<1> QED BY <1>1, <1>5, <1>6, <1>7, <1>8, RestKeeps DEF IInv

\* A till turns to another screen with the request it has, or goes home.
LEMMA TillMoves ==
  ASSUME IInv, NEW m \in Merchants, NEW next \in Tills,
         till' = [till EXCEPT ![m] = next],
         RestStays, UNCHANGED <<payer, issued, used, agreed>>,
         \/ next = TillAtHome
         \/ next.intent = till[m].intent /\ till[m].screen # "home",
         next.screen = "verified" =>
           /\ next.payment \in agreed /\ next.payment.merchant = m
           /\ next.payment.amount = next.expected
  PROVE  IInv'
<1>1. till \in [Merchants -> Tills]
  BY DEF IInv, Shapes
<1>2. till'[m] = next /\ \A o \in Merchants : o # m => till'[o] = till[o]
  BY <1>1
<1>3. Shapes'
  BY <1>1 DEF IInv, Shapes, RestStays
<1>4. PayerInv'
  BY PayersKeep DEF IInv
<1>5. TillInv'
  BY <1>2 DEF IInv, TillInv, TillAtHome
<1>6. AcceptedWasAgreed'
  BY <1>2 DEF IInv, AcceptedWasAgreed
<1> QED BY <1>3, <1>4, <1>5, <1>6, RestKeeps DEF IInv

\* What a till takes for an answer is one, to a request like its own in all that
\* the message says, over the price it expects.
LEMMA TillTakes ==
  ASSUME IInv, NEW m \in Merchants, till[m].screen = "waiting",
         NEW code \in Displayed, NEW payload \in Readings(code), TillAccepts(m, payload)
  PROVE  /\ payload.fields.signature.over \in agreed
         /\ payload.fields.signature.over.merchant = m
         /\ payload.fields.signature.over.amount = till[m].expected
<1> DEFINE asked == till[m].intent
<1>1. /\ asked \in Intents /\ asked.merchant = m /\ HeaderOk(payload, "AUTH")
      /\ Verifies(asked, DecodedAuth(payload), till[m].expected) /\ "AUTH" \in Types
  BY DEF IInv, Shapes, TillInv, TillAccepts, Types
<1>2. \A intent \in Intents : payload \notin Readings(EncodeIntent(intent))
  BY <1>1, DecodesRequest
<1>3. PICK p \in Payers : code = payer[p].auth /\ payer[p].auth # NULL
  BY <1>2 DEF Displayed, IInv, Shapes, TillInv
<1>4. payer[p].screen = "shown"
  BY <1>3 DEF IInv, PayerInv
<1>5. PICK slot \in 1 .. MaxSigned :
             Answers(code, payer[p].intent, p, slot, payer[p].amount)
  BY <1>3, <1>4 DEF IInv, PayerInv
<1> DEFINE intent == payer[p].intent
           amount == payer[p].amount
           auth   == AuthOf(intent, p, slot, amount)
<1>6. intent \in Intents /\ amount \in Amounts
  BY <1>4 DEF IInv, Shapes, PayerInv
<1>7. payload.fields = auth /\ DecodedAuth(payload) = auth
  <2>1. code = EncodeAuth(auth, AnswerFlags(intent)) /\ Buildable(intent, slot)
    BY <1>5 DEF Answers
  <2> HIDE DEF intent, amount
  <2> QED BY <1>1, <1>6, <2>1, DecodesAnswer
<1>8. Message(intent, p, slot, amount) \in agreed
  BY <1>5 DEF Answers
<1>9. payload.fields.signature.over = Message(intent, p, slot, amount)
  BY <1>7 DEF AuthOf
<1>10. Message(intent, p, slot, amount) = Message(asked, p, slot, AmountOf(asked, auth))
  <2>1. auth.signature = [by |-> auth.payer, over |-> Message(asked, auth.payer,
                                  auth.nonceRef, AmountOf(asked, auth))]
    BY <1>1, <1>7 DEF Verifies
  <2>2. /\ auth.payer = p /\ auth.nonceRef = slot
        /\ auth.signature = [by |-> p, over |-> Message(intent, p, slot, amount)]
    BY DEF AuthOf
  <2> HIDE DEF auth
  <2> QED BY <2>1, <2>2
<1>11. AmountOf(asked, auth) = till[m].expected
  BY <1>1, <1>7 DEF Verifies, AmountResolves, AmountOf
<1> QED BY <1>1, <1>8, <1>9, <1>10, <1>11 DEF Message

LEMMA TillsKeep ==
  ASSUME IInv, NEW m \in Merchants,
         \/ ShowIntent(m) \/ ShowStatic(m) \/ EnterExpected(m) \/ TillCancels(m)
         \/ ScanAuth(m)
  PROVE  IInv'
<1>1. till \in [Merchants -> Tills] /\ till[m] \in Tills
  BY DEF IInv, Shapes
<1>2. CASE ShowIntent(m)
  <2>1. settings[m].mint # NULL
    BY <1>2 DEF ShowIntent
  <2>2. PICK amount \in Amounts, lifetime \in Lifetimes :
               Issues(m, IntentFor(m, amount, lifetime))
    BY <1>2 DEF ShowIntent
  <2>3. lifetime \in {"nonce", "fresh"} /\ amount # NULL
    BY ParametersAssumption
  <2> QED BY <2>1, <2>2, <2>3, IntentForType, IssuesKeeps
<1>3. CASE ShowStatic(m)
  BY <1>3, IntentForType, IssuesKeeps DEF ShowStatic
<1>4. CASE EnterExpected(m)
  <2>1. PICK amount \in Amounts :
          till' = [till EXCEPT ![m].screen = "waiting", ![m].expected = amount]
    BY <1>4 DEF EnterExpected
  <2> DEFINE next == [till[m] EXCEPT !.screen = "waiting", !.expected = amount]
  <2>2. till' = [till EXCEPT ![m] = next]
    BY <1>1, <2>1
  <2>3. /\ next \in Tills /\ next.screen = "waiting" /\ next.intent = till[m].intent
    BY <1>1 DEF Tills
  <2>4. RestStays /\ UNCHANGED <<payer, issued, used, agreed>> /\ till[m].screen # "home"
    BY <1>4 DEF EnterExpected, RestStays, chainVars, deviceVars
  <2> HIDE DEF next
  <2> QED BY <2>2, <2>3, <2>4, TillMoves
<1>5. CASE TillCancels(m)
  <2>1. /\ till' = [till EXCEPT ![m] = TillAtHome] /\ RestStays
        /\ UNCHANGED <<payer, issued, used, agreed>>
    BY <1>5 DEF TillCancels, RestStays, chainVars, deviceVars
  <2>2. TillAtHome \in Tills /\ TillAtHome.screen # "verified"
    BY DEF TillAtHome, Tills
  <2> QED BY <2>1, <2>2, TillMoves
<1>6. CASE ScanAuth(m)
  <2>1. till[m].screen = "waiting" /\ RestStays /\ UNCHANGED <<payer, issued, used, agreed>>
    BY <1>6 DEF ScanAuth, RestStays, chainVars, deviceVars
  <2>2. PICK code \in Displayed : \E payload \in Readings(code) :
          /\ TillAccepts(m, payload)
          /\ till' = [till EXCEPT ![m].screen = "verified",
                                  ![m].payment = payload.fields.signature.over]
    BY <1>6 DEF ScanAuth
  <2>3. PICK payload \in Readings(code) :
          /\ TillAccepts(m, payload)
          /\ till' = [till EXCEPT ![m].screen = "verified",
                                  ![m].payment = payload.fields.signature.over]
    BY <2>2
  <2> DEFINE over == payload.fields.signature.over
             next == [till[m] EXCEPT !.screen = "verified", !.payment = over]
  <2>4. over \in agreed /\ over.merchant = m /\ over.amount = till[m].expected
    BY <2>1, <2>3, TillTakes
  <2>5. over \in Messages
    BY <2>4 DEF IInv, Shapes
  <2>6. till' = [till EXCEPT ![m] = next]
    BY <1>1, <2>3
  <2> HIDE DEF over
  <2>7. /\ next \in Tills /\ next.intent = till[m].intent /\ next.payment = over
        /\ next.expected = till[m].expected
    BY <1>1, <2>5 DEF Tills
  <2> HIDE DEF next
  <2> QED BY <2>1, <2>4, <2>6, <2>7, TillMoves
<1> QED BY <1>2, <1>3, <1>4, <1>5, <1>6
------------------------------------------------------------------------------
(* The payers *)

\* A screen without an answer that a payer may turn to.
Turns(next) ==
  /\ next \in PayerScreens /\ next.auth = NULL /\ next.screen # "shown"
  /\ next.screen # "home" => next.intent \in issued
  /\ next.screen = "amount" => next.intent.amount = NULL
  /\ next.screen = "confirm" =>
       /\ next.amount \in Amounts
       /\ next.intent.amount # NULL => next.amount = next.intent.amount

LEMMA PayerMoves ==
  ASSUME IInv, NEW p \in Payers, NEW next, Turns(next),
         payer' = [payer EXCEPT ![p] = next],
         used' \in [Payers -> 0 .. MaxSigned],
         RestStays, UNCHANGED <<till, issued, agreed>>
  PROVE  IInv'
<1>1. payer \in [Payers -> PayerScreens]
  BY DEF IInv, Shapes
<1>2. payer'[p] = next /\ \A o \in Payers : o # p => payer'[o] = payer[o]
  BY <1>1
<1>3. Shapes'
  BY <1>1 DEF IInv, Shapes, RestStays, Turns
<1>4. TillInv' /\ AcceptedWasAgreed'
  BY DEF IInv, TillInv, AcceptedWasAgreed
<1>5. PayerInv'
  BY <1>2 DEF IInv, PayerInv, Turns, Answers
<1> QED BY <1>3, <1>4, <1>5, RestKeeps DEF IInv

LEMMA ConfirmTurns ==
  ASSUME IInv, NEW intent \in issued, NEW amount \in Amounts,
         intent.amount # NULL => amount = intent.amount,
         NEW next \in ConfirmScreens(intent, amount)
  PROVE  Turns(next)
<1>1. intent \in Intents
  BY DEF IInv, Shapes
<1> QED BY <1>1 DEF ConfirmScreens, Turns, PayerScreens, AtHome

\* What a payer's app decodes as a request was issued, and asks for an amount if
\* and only if it is a printed one.
LEMMA ScansIssued ==
  ASSUME IInv, NEW code \in Displayed, NEW payload \in Readings(code),
         NEW type \in {"INTENT", "STATIC_INTENT"}, HeaderOk(payload, type)
  PROVE  /\ DecodedIntent(payload) \in issued
         /\ type = "STATIC_INTENT" <=> DecodedIntent(payload).amount = NULL
<1>1. type \in Types
  BY DEF Types
<1>2. ASSUME NEW intent \in issued, code = EncodeIntent(intent)
      PROVE  /\ DecodedIntent(payload) \in issued
             /\ type = "STATIC_INTENT" <=> DecodedIntent(payload).amount = NULL
  <2>1. intent \in Intents
    BY DEF IInv, Shapes
  <2> QED BY <1>1, <1>2, <2>1, DecodesRequest
<1>3. ASSUME NEW p \in Payers, payer[p].auth # NULL, code = payer[p].auth
      PROVE  FALSE
  <2>1. payer[p].screen = "shown"
    BY <1>3 DEF IInv, PayerInv
  <2>2. PICK slot \in 1 .. MaxSigned :
               Answers(code, payer[p].intent, p, slot, payer[p].amount)
    BY <1>3, <2>1 DEF IInv, PayerInv
  <2> DEFINE intent == payer[p].intent
             amount == payer[p].amount
  <2>3. intent \in Intents /\ amount \in Amounts
    BY <2>1 DEF IInv, Shapes, PayerInv
  <2>4. code = EncodeAuth(AuthOf(intent, p, slot, amount), AnswerFlags(intent))
        /\ Buildable(intent, slot)
    BY <2>2 DEF Answers
  <2> HIDE DEF intent, amount
  <2> QED BY <1>1, <2>3, <2>4, DecodesAnswer
<1> QED BY <1>2, <1>3 DEF Displayed, IInv, TillInv

LEMMA SignedType ==
  ASSUME NEW intent \in Intents, NEW p \in Payers, NEW slot \in 1 .. MaxSigned,
         NEW amount \in Amounts
  PROVE  /\ Message(intent, p, slot, amount) \in Messages
         /\ EncodeAuth(AuthOf(intent, p, slot, amount), AnswerFlags(intent)) \in AuthCodes
<1>1. Message(intent, p, slot, amount) \in Messages
  BY DEF Message, Messages, Intents
<1>2. EncodeAuth(AuthOf(intent, p, slot, amount), AnswerFlags(intent)) \in AuthCodes
  BY DEF AuthCodes
<1> QED BY <1>1, <1>2

\* The other payers' screens are right if they stay.
PayerIsRight(o) ==
  /\ payer[o].screen # "home" => payer[o].intent \in issued
  /\ payer[o].screen = "amount" => payer[o].intent.amount = NULL
  /\ payer[o].screen \in {"confirm", "shown"} =>
       /\ payer[o].amount \in Amounts
       /\ payer[o].intent.amount # NULL => payer[o].amount = payer[o].intent.amount
  /\ payer[o].auth # NULL => payer[o].screen = "shown"
  /\ payer[o].screen = "shown" =>
       \E slot \in 1 .. MaxSigned :
         Answers(payer[o].auth, payer[o].intent, o, slot, payer[o].amount)

LEMMA SignKeeps ==
  ASSUME IInv, NEW p \in Payers, Sign(p)
  PROVE  IInv'
<1>0. PICK intent, amount, slot :
              intent = payer[p].intent /\ amount = payer[p].amount /\ slot = used[p] + 1
  OBVIOUS
<1> DEFINE auth   == AuthOf(intent, p, slot, amount)
           code   == EncodeAuth(auth, AnswerFlags(intent))
           said   == Message(intent, p, slot, amount)
<1>1. /\ payer \in [Payers -> PayerScreens] /\ payer[p] \in PayerScreens
      /\ payer[p].screen = "confirm" /\ intent \in issued /\ intent \in Intents
      /\ amount \in Amounts
      /\ intent.amount # NULL => amount = intent.amount
  BY <1>0 DEF IInv, Shapes, PayerInv, Sign
<1>2. slot \in 1 .. MaxSigned /\ used' \in [Payers -> 0 .. MaxSigned]
  <2>1. used \in [Payers -> 0 .. MaxSigned] /\ used[p] < MaxSigned
        /\ used' = [used EXCEPT ![p] = @ + 1] /\ MaxSigned \in Nat
    BY ParametersAssumption DEF IInv, Shapes, Sign
  <2>2. used[p] + 1 \in 0 .. MaxSigned /\ used[p] + 1 \in 1 .. MaxSigned
    BY <2>1
  <2> QED BY <1>0, <2>1, <2>2
<1>3. RestStays /\ UNCHANGED <<till, issued>>
  BY DEF Sign, RestStays, chainVars, deviceVars
<1>4. CASE ~Buildable(intent, slot)
  <2>1. payer' = [payer EXCEPT ![p] = AtHome] /\ agreed' = agreed
    BY <1>0, <1>4 DEF Sign
  <2>2. Turns(AtHome)
    BY DEF Turns, PayerScreens, AtHome
  <2> QED BY <1>2, <1>3, <2>1, <2>2, PayerMoves
<1>5. CASE Buildable(intent, slot)
  <2>1. /\ payer' = [payer EXCEPT ![p].screen = "shown", ![p].auth = code]
        /\ agreed' = agreed \cup {said}
    BY <1>0, <1>5 DEF Sign
  <2>2. code \in AuthCodes
    BY <1>1, <1>2, SignedType
  <2>3. said \in Messages
    BY <1>1, <1>2, SignedType
  <2>4. Answers(code, intent, p, slot, amount)'
    BY <1>5, <2>1 DEF Answers, Buildable, EncodeAuth, AuthOf, AnswerFlags
  <2> HIDE DEF code, said
  <2>5. payer'[p] = [payer[p] EXCEPT !.screen = "shown", !.auth = code]
        /\ \A o \in Payers : o # p => payer'[o] = payer[o]
    BY <1>1, <2>1
  <2>6. /\ payer'[p] \in PayerScreens /\ payer'[p].screen = "shown"
        /\ payer'[p].intent = intent /\ payer'[p].amount = amount
        /\ payer'[p].auth = code
    BY <1>0, <1>1, <2>2, <2>5 DEF PayerScreens
  <2>7. payer' \in [Payers -> PayerScreens]
    BY <1>1, <2>1, <2>5, <2>6
  <2>8. Shapes'
    BY <1>2, <1>3, <2>1, <2>3, <2>7 DEF IInv, Shapes, RestStays
  <2>9. PayerInv'
    <3>1. PayerIsRight(p)'
      BY <1>1, <1>2, <1>3, <2>4, <2>6 DEF PayerIsRight, Answers
    <3>2. ASSUME NEW o \in Payers, o # p
          PROVE  PayerIsRight(o)'
      <4>1. payer'[o] = payer[o] /\ agreed \subseteq agreed' /\ issued' = issued
        BY <1>3, <2>1, <2>5, <3>2
      <4>2. PayerIsRight(o)
        BY DEF IInv, PayerInv, PayerIsRight
      <4> QED BY <4>1, <4>2 DEF PayerIsRight, Answers
    <3> QED BY <3>1, <3>2 DEF PayerInv, PayerIsRight
  <2>10. TillInv' /\ AcceptedWasAgreed'
    BY <1>3, <2>1 DEF IInv, TillInv, AcceptedWasAgreed
  <2> QED BY <1>3, <2>8, <2>9, <2>10, RestKeeps DEF IInv
<1> QED BY <1>4, <1>5

LEMMA PayersScreensKeep ==
  ASSUME IInv, NEW p \in Payers, \/ ScanIntent(p) \/ EnterAmount(p) \/ PayerLeaves(p)
  PROVE  IInv'
<1>1. used' \in [Payers -> 0 .. MaxSigned] /\ RestStays /\ UNCHANGED <<till, issued, agreed>>
  BY DEF ScanIntent, EnterAmount, PayerLeaves, RestStays, chainVars, deviceVars, IInv, Shapes
<1>2. CASE ScanIntent(p)
  <2>1. PICK code \in Displayed, type \in {"INTENT", "STATIC_INTENT"} :
          \E payload \in Readings(code) :
            /\ HeaderOk(payload, type)
            /\ LET intent == DecodedIntent(payload)
               IN  \E next \in IF type = "INTENT"
                                THEN ConfirmScreens(intent, intent.amount)
                                ELSE {[screen |-> "amount", intent |-> intent,
                                       amount |-> NULL, auth |-> NULL]} :
                     payer' = [payer EXCEPT ![p] = next]
    BY <1>2 DEF ScanIntent
  <2>2. PICK payload \in Readings(code) :
            /\ HeaderOk(payload, type)
            /\ LET intent == DecodedIntent(payload)
               IN  \E next \in IF type = "INTENT"
                                THEN ConfirmScreens(intent, intent.amount)
                                ELSE {[screen |-> "amount", intent |-> intent,
                                       amount |-> NULL, auth |-> NULL]} :
                     payer' = [payer EXCEPT ![p] = next]
    BY <2>1
  <2> DEFINE intent == DecodedIntent(payload)
  <2>3. intent \in issued /\ (type = "STATIC_INTENT" <=> intent.amount = NULL)
    BY <2>2, ScansIssued
  <2>4. intent \in Intents
    BY <2>3 DEF IInv, Shapes
  <2>5. PICK next \in IF type = "INTENT" THEN ConfirmScreens(intent, intent.amount)
                       ELSE {[screen |-> "amount", intent |-> intent,
                              amount |-> NULL, auth |-> NULL]} :
               payer' = [payer EXCEPT ![p] = next]
    BY <2>2
  <2> HIDE DEF intent
  <2>6. CASE type = "INTENT"
    <3>1. intent.amount \in Amounts
      BY <2>3, <2>4, <2>6 DEF Intents
    <3> QED BY <1>1, <2>3, <2>5, <2>6, <3>1, ConfirmTurns, PayerMoves
  <2>7. CASE type = "STATIC_INTENT"
    <3>1. Turns(next)
      BY <2>3, <2>4, <2>5, <2>7 DEF Turns, PayerScreens
    <3> QED BY <1>1, <2>5, <3>1, PayerMoves
  <2> QED BY <2>6, <2>7
<1>3. CASE EnterAmount(p)
  <2>1. payer[p].screen = "amount" /\ payer[p].intent \in issued
        /\ payer[p].intent.amount = NULL
    BY <1>3 DEF EnterAmount, IInv, PayerInv
  <2>2. PICK amount \in Amounts : \E next \in ConfirmScreens(payer[p].intent, amount) :
               payer' = [payer EXCEPT ![p] = next]
    BY <1>3 DEF EnterAmount
  <2> QED BY <1>1, <2>1, <2>2, ConfirmTurns, PayerMoves
<1>4. CASE PayerLeaves(p)
  <2>1. payer' = [payer EXCEPT ![p] = AtHome]
    BY <1>4 DEF PayerLeaves
  <2>2. Turns(AtHome)
    BY DEF Turns, PayerScreens, AtHome
  <2> QED BY <1>1, <2>1, <2>2, PayerMoves
<1> QED BY <1>2, <1>3, <1>4
------------------------------------------------------------------------------
(* The theorems *)

LEMMA InitInv == Init => IInv
<1> SUFFICES ASSUME Init PROVE IInv
  OBVIOUS
<1>1. /\ mints = FirstMints /\ FirstMints \in [Mints -> RawMints]
      /\ cache = [d \in Devices |-> [mint \in Mints |-> NULL]]
      /\ settings = [m \in Merchants |-> NoSettings]
      /\ till = [m \in Merchants |-> TillAtHome] /\ payer = [p \in Payers |-> AtHome]
      /\ issued = {} /\ used = [p \in Payers |-> 0] /\ agreed = {} /\ changes = 0
      /\ MaxSigned \in Nat /\ MaxChanges \in Nat
  BY ParametersAssumption DEF Init
<1>2. TillAtHome \in Tills /\ AtHome \in PayerScreens
  BY DEF TillAtHome, Tills, AtHome, PayerScreens
<1>3. Shapes
  BY <1>1, <1>2 DEF Shapes, NoSettings
<1>4. CacheInv /\ SettingsInv
  BY <1>1 DEF CacheInv, SettingsInv, NoSettings
<1>5. TillInv /\ PayerInv /\ AcceptedWasAgreed
  BY <1>1 DEF TillInv, PayerInv, AcceptedWasAgreed, TillAtHome, AtHome
<1> QED BY <1>3, <1>4, <1>5 DEF IInv

LEMMA StepInv == IInv /\ [Next]_vars => IInv'
<1> SUFFICES ASSUME IInv, [Next]_vars PROVE IInv'
  OBVIOUS
<1>1. ASSUME NEW m \in Merchants, Till(m)
      PROVE  IInv'
  BY <1>1, DevicesKeep, WorldKeeps, TillsKeep DEF Till, Devices
<1>2. ASSUME NEW p \in Payers, Payer(p)
      PROVE  IInv'
  BY <1>2, DevicesKeep, PayersScreensKeep, SignKeeps DEF Payer, Devices
<1>3. CASE MintChanges
  BY <1>3, WorldKeeps
<1>4. CASE UNCHANGED vars
  <2>1. RestStays /\ ScreensStay
    BY <1>4 DEF vars, RestStays, ScreensStay
  <2>2. Shapes'
    BY <2>1 DEF IInv, Shapes, RestStays, ScreensStay
  <2> QED BY <2>1, <2>2, RestKeeps, ScreensKeep DEF IInv
<1> QED BY <1>1, <1>2, <1>3, <1>4 DEF Next

LEMMA InvHolds == Spec => []IInv
BY InitInv, StepInv, PTL DEF Spec

\* An answer to the very request a till is waiting for is accepted there.
LEMMA AnswerAccepted ==
  ASSUME IInv, NEW m \in Merchants, NEW p \in Payers,
         till[m].screen = "waiting", payer[p].screen = "shown",
         payer[p].intent = till[m].intent, payer[p].amount = till[m].expected
  PROVE  TillAccepts(m, payer[p].auth)
<1>0. PICK intent, amount : intent = payer[p].intent /\ amount = payer[p].amount
  OBVIOUS
<1>1. /\ intent \in Intents /\ amount \in Amounts
      /\ intent.amount # NULL => amount = intent.amount
  BY <1>0 DEF IInv, Shapes, PayerInv
<1>2. PICK slot \in 1 .. MaxSigned : Answers(payer[p].auth, intent, p, slot, amount)
  BY <1>0 DEF IInv, PayerInv
<1> DEFINE auth == AuthOf(intent, p, slot, amount)
           code == EncodeAuth(auth, AnswerFlags(intent))
<1>3. payer[p].auth = code /\ Buildable(intent, slot)
  BY <1>2 DEF Answers
<1>4. code = [version |-> 1, type |-> "AUTH", flags |-> FlagsOf(intent),
              length |-> ExpectedLength("AUTH", FlagsOf(intent)), fields |-> auth]
  BY DEF EncodeAuth, Encoded, AnswerFlags
<1>5. ExpectedLength("AUTH", FlagsOf(intent)) \in Nat
      /\ ExpectedLength("AUTH", FlagsOf(intent)) >= 3
  BY <1>1, FlagsSay, LengthType DEF Types
<1>6. HeaderOk(code, "AUTH") /\ code.flags = FlagsOf(intent)
  <2> HIDE DEF auth
  <2> QED BY <1>1, <1>4, <1>5, FlagsSay DEF HeaderOk, HeaderReads
<1>7. DecodedAuth(code) = auth
  <2>1. code \in Readings(code) /\ "AUTH" \in Types
    BY DEF Readings, Types
  <2> QED BY <1>1, <1>3, <1>6, <2>1, DecodesAnswer
<1>8. Verifies(intent, auth, amount)
  <2>1. /\ auth.payer = p /\ auth.nonceRef = slot
        /\ auth.amount = IF intent.amount = NULL THEN amount ELSE NULL
        /\ auth.signature = [by |-> p, over |-> Message(intent, p, slot, amount)]
    BY DEF AuthOf
  <2> HIDE DEF auth
  <2>2. intent.merchant # p
    BY <1>1, ParametersAssumption DEF Intents
  <2>3. AmountResolves(intent, auth, amount) /\ AmountOf(intent, auth) = amount
    BY <1>1, <2>1, ParametersAssumption DEF AmountResolves, AmountOf
  <2> QED BY <1>3, <2>1, <2>2, <2>3 DEF Verifies
<1> QED BY <1>0, <1>3, <1>6, <1>7, <1>8 DEF TillAccepts, AnswersFlags

LEMMA InvImplies ==
  ASSUME IInv
  PROVE  TypeOK /\ ConfirmsWhatWasIssued /\ AnswerIsAccepted /\ ImmutableVerdictHolds
<1>1. TypeOK
  <2>1. \A d \in Devices, mint \in Mints :
          cache[d][mint] # NULL => cache[d][mint] \in MintRecords
    BY DEF IInv, Shapes
  <2>2. \A m \in Merchants :
          /\ till[m].screen \in {"home", "printed", "waiting", "verified"}
          /\ till[m].intent \in Intents \cup {NULL}
          /\ till[m].expected \in Amounts \cup {NULL}
          /\ till[m].payment \in Messages \cup {NULL}
    BY DEF IInv, Shapes, Tills
  <2>3. \A p \in Payers :
          /\ payer[p].screen \in {"home", "amount", "confirm", "shown"}
          /\ payer[p].intent \in Intents \cup {NULL}
          /\ payer[p].amount \in Amounts \cup {NULL}
    BY DEF IInv, Shapes, PayerScreens
  <2> QED BY <2>1, <2>2, <2>3 DEF IInv, Shapes, TypeOK
<1>2. ConfirmsWhatWasIssued /\ ImmutableVerdictHolds
  BY DEF IInv, PayerInv, ConfirmsWhatWasIssued, CacheInv, StaysTrue, ImmutableVerdictHolds
<1>3. AnswerIsAccepted
  BY AnswerAccepted DEF AnswerIsAccepted
<1> QED BY <1>1, <1>2, <1>3

\* Type correctness: what the devices keep and show is of the shapes that
\* codec.ts, mint.ts and the screens of the two apps define.
THEOREM ExchangeTypeCorrect == Spec => []TypeOK
BY InvHolds, InvImplies, PTL

\* No reading of a code turns a request into another one: what a payer is asked
\* to confirm some till has asked for, field by field (decodeIntent, routeScan).
THEOREM PayerConfirmsARequest == Spec => []ConfirmsWhatWasIssued
BY InvHolds, InvImplies, PTL

\* A payment a till takes for verified was confirmed by its payer, is to that
\* till, and is of the price its merchant set (decodeAuth, verifyAuth).
THEOREM TillAcceptsTheAgreed == Spec => []AcceptedWasAgreed
<1>1. IInv => AcceptedWasAgreed
  BY DEF IInv
<1> QED BY <1>1, InvHolds, PTL

\* The answer a payer shows to the request a till waits for, of the price it
\* expects, is accepted: verifyAuth rebuilds the message that was signed.
THEOREM HonestAnswerAccepted == Spec => []AnswerIsAccepted
BY InvHolds, InvImplies, PTL

\* A record of the mint cache that is not marked mutable never goes stale: no
\* change the token programs allow can change its verdict (evaluateMint).
THEOREM VerdictNeverStale == Spec => []ImmutableVerdictHolds
BY InvHolds, InvImplies, PTL
==============================================================================
