------------------------------ MODULE Exchange ------------------------------
(***************************************************************************)
(* One payment between two devices that are both offline: the merchant's   *)
(* app shows a request, the payer's app decodes it against its mint cache, *)
(* confirms and signs, and the merchant's app decodes the answer and       *)
(* verifies it against a message it rebuilds itself.  packages/wire        *)
(* codec.ts, packages/core canonical.ts and sign.ts, packages/client       *)
(* mint.ts, and the screens around them.                                   *)
(*                                                                         *)
(* A payload is its header, its length and its fields; a flags byte is the *)
(* set of its bits.  Keys, mints and nonce values are model values or      *)
(* numbers.  A signature is who signed and what: it verifies for no other  *)
(* key and no other bytes.                                                 *)
(***************************************************************************)
EXTENDS Naturals, FiniteSets, MintRules

CONSTANTS
  Merchants, Payers, Mints,
  Amounts,     \* of a payment; only compared
  Lifetimes,   \* of the requests shown: subset of {"nonce", "fresh"}
  FirstMints,  \* the mints' accounts at the start, [Mints -> RawMints]
  NULL,
  MaxIssued,   \* bound: requests shown
  MaxSigned,   \* bound: slots a payer uses
  MaxChanges   \* bound: changes to mints and settings

ASSUME ParametersAssumption ==
  /\ NULL \notin Amounts \cup Mints \cup (1 .. MaxSigned)
  /\ Lifetimes \subseteq {"nonce", "fresh"}
  /\ FirstMints \in [Mints -> RawMints]
  /\ {MaxIssued, MaxSigned, MaxChanges} \subseteq Nat
  /\ Merchants \cap Payers = {}

VARIABLES
  mints,    \* the mint accounts on chain
  cache,    \* device -> mint -> the record it last fetched, or NULL
  settings, \* merchant -> the token it takes and whether it creates its account
  till,     \* merchant -> its screen: the request, the price, what was verified
  payer,    \* payer -> its screen, with the request, the amount and the answer
  issued,   \* requests shown so far: a printed one can be scanned at any time
  used,     \* payer -> slots it has used, each with a value of its own
  agreed,   \* messages payers have confirmed on their screens (history)
  changes

vars == <<mints, cache, settings, till, payer, issued, used, agreed, changes>>
------------------------------------------------------------------------------
(* The wire format *)

Flags == {"LIFETIME_FRESH", "INCLUDE_CREATE_ATA", "TOKEN_2022",
          "FEE_PAYER_SEPARATE", "AMOUNT_IN_AUTH", "RESERVED"}

FlagIf(condition, flag) == IF condition THEN {flag} ELSE {}

FlagsOf(intent) ==
  FlagIf(intent.lifetime = "fresh", "LIFETIME_FRESH") \cup
  FlagIf(intent.includeCreateAta, "INCLUDE_CREATE_ATA") \cup
  FlagIf(intent.tokenProgram = "token-2022", "TOKEN_2022") \cup
  FlagIf(intent.amount = NULL, "AMOUNT_IN_AUTH")

ExpectedLength(type, flags) ==
  LET ifSet(flag, bytes) == IF flag \in flags THEN bytes ELSE 0
  IN  CASE type = "INTENT" ->
             76 + ifSet("LIFETIME_FRESH", 32) + ifSet("FEE_PAYER_SEPARATE", 32)
        [] type = "STATIC_INTENT" -> 68
        [] type = "AUTH" -> 132 - ifSet("LIFETIME_FRESH", 33) + ifSet("AMOUNT_IN_AUTH", 8)

Encoded(type, flags, fields) ==
  [version |-> 1, type |-> type, flags |-> flags,
   length |-> ExpectedLength(type, flags), fields |-> fields]

\* encodeIntent and encodeStaticIntent.  The fee payer is the merchant.
EncodeIntent(intent) ==
  Encoded(IF intent.amount = NULL THEN "STATIC_INTENT" ELSE "INTENT", FlagsOf(intent),
          [merchant |-> intent.merchant, mint |-> intent.mint, amount |-> intent.amount])

\* The flags are those the payer's app works out from the request it answers.
EncodeAuth(auth, flags) == Encoded("AUTH", flags, auth)

\* readHeader up to the length; by itself, a mutant that does not look at it.
HeaderReads(payload, type) ==
  /\ payload.length >= 3 /\ payload.version = 1 /\ payload.type = type
  /\ payload.flags \cap {"RESERVED", "FEE_PAYER_SEPARATE"} = {}
  /\ type = "INTENT" => "AMOUNT_IN_AUTH" \notin payload.flags
  /\ type = "STATIC_INTENT" =>
       "LIFETIME_FRESH" \notin payload.flags /\ "AMOUNT_IN_AUTH" \in payload.flags

\* readHeader.  The order of its checks only decides which error is thrown.
HeaderOk(payload, type) ==
  HeaderReads(payload, type) /\ payload.length = ExpectedLength(type, payload.flags)

TokenProgramOf(flags) == IF "TOKEN_2022" \in flags THEN "token-2022" ELSE "spl-token"

\* checkAgainstCache.  Decimals never change and are left out.
AgreesWithCache(device, mint, flags) ==
  /\ cache[device][mint] # NULL
  /\ cache[device][mint].tokenProgram = TokenProgramOf(flags)

DecodedIntent(payload) ==
  [merchant |-> payload.fields.merchant, mint |-> payload.fields.mint,
   amount |-> payload.fields.amount,
   lifetime |-> IF "LIFETIME_FRESH" \in payload.flags THEN "fresh" ELSE "nonce",
   includeCreateAta |-> "INCLUDE_CREATE_ATA" \in payload.flags,
   tokenProgram |-> TokenProgramOf(payload.flags)]

\* decodeAuth's rule 6: the answer repeats the request's flags.
AnswersFlags(flags, intentFlags) == flags = intentFlags

\* decodeAuth: the flags say which fields there are.
DecodedAuth(payload) ==
  [payload.fields EXCEPT
     !.nonceRef = IF "LIFETIME_FRESH" \in payload.flags THEN NULL ELSE @,
     !.amount = IF "AMOUNT_IN_AUTH" \in payload.flags THEN @ ELSE NULL]
------------------------------------------------------------------------------
(* Messages and signatures *)

\* buildMessage: whether the request was printed is not part of the bytes.
Message(intent, by, nonceRef, amount) ==
  [payer |-> by, merchant |-> intent.merchant, mint |-> intent.mint,
   tokenProgram |-> intent.tokenProgram, amount |-> amount,
   includeCreateAta |-> intent.includeCreateAta, nonceRef |-> nonceRef]

\* providerFor: the nonce provider wants a nonce, the other one wants none.
Buildable(intent, nonceRef) == (intent.lifetime = "nonce") <=> (nonceRef # NULL)

\* signAsPayer.  The amount travels for a printed request only.
AuthOf(intent, by, nonceRef, amount) ==
  [payer |-> by, nonceRef |-> nonceRef,
   amount |-> IF intent.amount = NULL THEN amount ELSE NULL,
   signature |-> [by |-> by, over |-> Message(intent, by, nonceRef, amount)]]

\* Mutant: a printed request takes the amount the payer sends.
AmountFromAuth(intent, auth, expected) ==
  IF intent.amount = NULL THEN auth.amount # NULL ELSE auth.amount = NULL

\* resolveAmount
AmountResolves(intent, auth, expected) ==
  IF intent.amount = NULL THEN auth.amount # NULL /\ auth.amount = expected
                          ELSE auth.amount = NULL /\ expected = intent.amount

AmountOf(intent, auth) == IF intent.amount = NULL THEN auth.amount ELSE intent.amount

\* verifyAuth: a rebuilt message, and the signature over it.
Verifies(intent, auth, expected) ==
  /\ intent.merchant # auth.payer
  /\ AmountResolves(intent, auth, expected)
  /\ Buildable(intent, auth.nonceRef)
  /\ auth.signature =
       [by |-> auth.payer,
        over |-> Message(intent, auth.payer, auth.nonceRef, AmountOf(intent, auth))]
------------------------------------------------------------------------------
Devices == Merchants \cup Payers
NoSettings == [mint |-> NULL, includeCreateAta |-> FALSE]
AtHome == [screen |-> "home", intent |-> NULL, amount |-> NULL, auth |-> NULL]
TillAtHome == [screen |-> "home", intent |-> NULL, expected |-> NULL, payment |-> NULL]

Init ==
  /\ mints = FirstMints
  /\ cache = [d \in Devices |-> [mint \in Mints |-> NULL]]
  /\ settings = [m \in Merchants |-> NoSettings]
  /\ till = [m \in Merchants |-> TillAtHome]
  /\ payer = [p \in Payers |-> AtHome]
  /\ issued = {}
  /\ used = [p \in Payers |-> 0]
  /\ agreed = {}
  /\ changes = 0

chainVars == <<mints, changes>>
deviceVars == <<cache, settings>>

\* Mutant: the account is kept as it was fetched.
FetchesRaw(device, mint) == cache' = [cache EXCEPT ![device][mint] = mints[mint]]

\* MintCache.refresh: the record is kept whatever it says.
Fetches(device, mint) ==
  cache' = [cache EXCEPT ![device][mint] = EvaluateMint(mints[mint])]

\* chooseMint: an incompatible mint is not chosen.  The page of a till is not
\* left while a customer is being served.
ChooseMint(m, mint) ==
  /\ till[m].screen = "home"
  /\ Fetches(m, mint)
  /\ settings' = IF EvaluateMint(mints[mint]).compatible
                 THEN [settings EXCEPT ![m].mint = mint] ELSE settings
  /\ UNCHANGED <<chainVars, till, payer, issued, used, agreed>>

\* tokens: "Check this token"
CheckToken(p, mint) ==
  /\ payer[p].screen = "home"
  /\ Fetches(p, mint)
  /\ UNCHANGED <<chainVars, settings, till, payer, issued, used, agreed>>

ToggleCreateAta(m) ==
  /\ till[m].screen = "home" /\ changes < MaxChanges
  /\ settings' = [settings EXCEPT ![m].includeCreateAta = ~@]
  /\ changes' = changes + 1
  /\ UNCHANGED <<mints, cache, till, payer, issued, used, agreed>>

\* intentFor: from the settings and the cached record of the chosen token.
IntentFor(m, amount, lifetime) ==
  [merchant |-> m, mint |-> settings[m].mint, amount |-> amount,
   lifetime |-> lifetime, includeCreateAta |-> settings[m].includeCreateAta,
   tokenProgram |-> cache[m][settings[m].mint].tokenProgram]

Issues(m, intent) ==
  /\ intent \in issued \/ Cardinality(issued) < MaxIssued
  /\ issued' = issued \cup {intent}
  /\ till' = [till EXCEPT ![m] =
                [screen |-> IF intent.amount = NULL THEN "printed" ELSE "waiting",
                 intent |-> intent, expected |-> intent.amount, payment |-> NULL]]
  /\ UNCHANGED <<chainVars, deviceVars, payer, used, agreed>>

ShowIntent(m) ==
  /\ till[m].screen = "home" /\ settings[m].mint # NULL
  /\ \E amount \in Amounts, lifetime \in Lifetimes :
       Issues(m, IntentFor(m, amount, lifetime))

ShowStatic(m) ==
  /\ till[m].screen = "home" /\ settings[m].mint # NULL
  /\ Issues(m, IntentFor(m, NULL, "nonce"))

\* The price is entered before the answer is scanned.
EnterExpected(m) ==
  /\ till[m].screen = "printed"
  /\ \E amount \in Amounts :
       till' = [till EXCEPT ![m].screen = "waiting", ![m].expected = amount]
  /\ UNCHANGED <<chainVars, deviceVars, payer, issued, used, agreed>>

TillCancels(m) ==
  /\ till[m].screen # "home"
  /\ till' = [till EXCEPT ![m] = TillAtHome]
  /\ UNCHANGED <<chainVars, deviceVars, payer, issued, used, agreed>>
------------------------------------------------------------------------------
(* Scanning *)

\* What a camera may be pointed at: the codes on the tills' screens and on paper,
\* and the answers on the payers' screens.
Displayed ==
  {EncodeIntent(till[m].intent) : m \in {m \in Merchants : till[m].intent # NULL}} \cup
  {EncodeIntent(i) : i \in {i \in issued : i.amount = NULL}} \cup
  {payer[p].auth : p \in {p \in Payers : payer[p].auth # NULL}}

\* A code as it is displayed, cut short, or written by an app whose idea of the
\* format is another one.
Readings(payload) ==
  {payload, [payload EXCEPT !.version = 2], [payload EXCEPT !.length = @ - 1],
   [payload EXCEPT !.flags = @ \cup {"RESERVED"}],
   [payload EXCEPT !.flags = @ \cup {"LIFETIME_FRESH"}]}

\* confirm: the request with its amount, to be signed; or, above the payer's own
\* cap or what is left of the allowance, only the refusal and the way back.  Caps
\* are not told apart here: any amount may be one that is refused.
ConfirmScreens(intent, amount) ==
  {[screen |-> "confirm", intent |-> intent, amount |-> amount, auth |-> NULL], AtHome}

\* routeScan: decode, then confirm a priced request or ask for the amount.
\* A code that is refused leaves the payer where the app started.
ScanIntent(p) ==
  /\ payer[p].screen = "home"
  /\ \E code \in Displayed, type \in {"INTENT", "STATIC_INTENT"} :
       \E payload \in Readings(code) :
         /\ HeaderOk(payload, type)
         /\ AgreesWithCache(p, payload.fields.mint, payload.flags)
         /\ LET intent == DecodedIntent(payload)
            IN  \E next \in IF type = "INTENT"
                             THEN ConfirmScreens(intent, intent.amount)
                             ELSE {[screen |-> "amount", intent |-> intent,
                                    amount |-> NULL, auth |-> NULL]} :
                  payer' = [payer EXCEPT ![p] = next]
  /\ UNCHANGED <<chainVars, deviceVars, till, issued, used, agreed>>

EnterAmount(p) ==
  /\ payer[p].screen = "amount"
  /\ \E amount \in Amounts : \E next \in ConfirmScreens(payer[p].intent, amount) :
       payer' = [payer EXCEPT ![p] = next]
  /\ UNCHANGED <<chainVars, deviceVars, till, issued, used, agreed>>

\* Mutant: the answer to a printed request has the flags of a priced one.
AnswerFlagsPriced(intent) == FlagsOf(intent) \ {"AMOUNT_IN_AUTH"}
AnswerFlags(intent) == FlagsOf(intent)

\* sign: a slot is reserved first, whatever the lifetime; then the message is
\* built, signed and shown.  A fresh blockhash and a slot do not go together.
Sign(p) ==
  /\ payer[p].screen = "confirm" /\ used[p] < MaxSigned
  /\ used' = [used EXCEPT ![p] = @ + 1]
  /\ LET intent == payer[p].intent
         slot   == used[p] + 1
         auth   == AuthOf(intent, p, slot, payer[p].amount)
     IN  IF Buildable(intent, slot)
         THEN /\ payer' = [payer EXCEPT ![p].screen = "shown",
                             ![p].auth = EncodeAuth(auth, AnswerFlags(intent))]
              /\ agreed' = agreed \cup {Message(intent, p, slot, payer[p].amount)}
         ELSE /\ payer' = [payer EXCEPT ![p] = AtHome]
              /\ UNCHANGED agreed
  /\ UNCHANGED <<chainVars, deviceVars, till, issued>>

PayerLeaves(p) ==
  /\ payer[p].screen # "home"
  /\ payer' = [payer EXCEPT ![p] = AtHome]
  /\ UNCHANGED <<chainVars, deviceVars, till, issued, used, agreed>>

\* What the till makes of a code: it must answer the request byte for byte.
TillAccepts(m, payload) ==
  /\ HeaderOk(payload, "AUTH")
  /\ AnswersFlags(payload.flags, FlagsOf(till[m].intent))
  /\ Verifies(till[m].intent, DecodedAuth(payload), till[m].expected)

ScanAuth(m) ==
  /\ till[m].screen = "waiting"
  /\ \E code \in Displayed : \E payload \in Readings(code) :
       /\ TillAccepts(m, payload)
       /\ till' = [till EXCEPT ![m].screen = "verified",
                              ![m].payment = payload.fields.signature.over]
  /\ UNCHANGED <<chainVars, deviceVars, payer, issued, used, agreed>>

MintChanges ==
  /\ changes < MaxChanges
  /\ \E mint \in Mints : \E raw \in MintSuccessors(mints[mint]) :
       mints' = [mints EXCEPT ![mint] = raw]
  /\ changes' = changes + 1
  /\ UNCHANGED <<deviceVars, till, payer, issued, used, agreed>>
------------------------------------------------------------------------------
Till(m) ==
  \/ \E mint \in Mints : ChooseMint(m, mint)
  \/ ToggleCreateAta(m) \/ ShowIntent(m) \/ ShowStatic(m) \/ EnterExpected(m)
  \/ TillCancels(m) \/ ScanAuth(m)

Payer(p) ==
  \/ \E mint \in Mints : CheckToken(p, mint)
  \/ ScanIntent(p) \/ EnterAmount(p) \/ Sign(p) \/ PayerLeaves(p)

Next ==
  \/ \E m \in Merchants : Till(m)
  \/ \E p \in Payers : Payer(p)
  \/ MintChanges

Spec == Init /\ [][Next]_vars
------------------------------------------------------------------------------
(* Properties *)

Intents ==
  [merchant : Merchants, mint : Mints, amount : Amounts \cup {NULL},
   lifetime : {"nonce", "fresh"}, includeCreateAta : BOOLEAN,
   tokenProgram : TokenPrograms]
Messages ==
  [payer : Payers, merchant : Merchants, mint : Mints, tokenProgram : TokenPrograms,
   amount : Amounts, includeCreateAta : BOOLEAN, nonceRef : 1 .. MaxSigned]

TypeOK ==
  /\ mints \in [Mints -> RawMints]
  /\ \A d \in Devices, mint \in Mints :
       cache[d][mint] # NULL => cache[d][mint] \in MintRecords
  /\ settings \in [Merchants -> [mint : Mints \cup {NULL}, includeCreateAta : BOOLEAN]]
  /\ \A m \in Merchants :
       /\ till[m].screen \in {"home", "printed", "waiting", "verified"}
       /\ till[m].intent \in Intents \cup {NULL}
       /\ till[m].expected \in Amounts \cup {NULL}
       /\ till[m].payment \in Messages \cup {NULL}
  /\ \A p \in Payers :
       /\ payer[p].screen \in {"home", "amount", "confirm", "shown"}
       /\ payer[p].intent \in Intents \cup {NULL}
       /\ payer[p].amount \in Amounts \cup {NULL}
  /\ issued \subseteq Intents
  /\ used \in [Payers -> 0 .. MaxSigned]
  /\ agreed \subseteq Messages
  /\ changes \in 0 .. MaxChanges

\* What a payer is asked to confirm is, field by field, a request that some till
\* has made: no reading of a code turns it into another request.
ConfirmsWhatWasIssued ==
  \A p \in Payers : payer[p].screen # "home" => payer[p].intent \in issued

\* A payment a till takes for verified was confirmed by its payer, is to that
\* till, and is of the price its merchant set: not another sale's answer, nor an
\* amount the payer chose (verifyAuth, D30).
AcceptedWasAgreed ==
  \A m \in Merchants : till[m].screen = "verified" =>
    /\ till[m].payment \in agreed
    /\ till[m].payment.merchant = m
    /\ till[m].payment.amount = till[m].expected

\* An answer to the very request a till is waiting for, of the price it expects,
\* is accepted there: the payer's slot is not spent for nothing.
AnswerIsAccepted ==
  \A m \in Merchants, p \in Payers :
    (/\ till[m].screen = "waiting" /\ payer[p].screen = "shown"
     /\ payer[p].intent = till[m].intent /\ payer[p].amount = till[m].expected)
      => TillAccepts(m, payer[p].auth)

\* A record that is not marked mutable never goes stale: nothing that the token
\* programs allow can change its verdict (D22, which lets it be used for ever).
ImmutableVerdictHolds ==
  \A d \in Devices, mint \in Mints :
    (cache[d][mint] # NULL /\ ~cache[d][mint].mutable)
      => cache[d][mint].compatible = EvaluateMint(mints[mint]).compatible
==============================================================================
