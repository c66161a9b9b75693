# Vadum — verification project

Vadum lets a payer and a merchant, both offline, exchange a stablecoin payment over two QR codes.
The payer signs a Solana transaction whose lifetime is a *durable nonce*: the transaction can land
at most once, and only while the nonce account still holds the value it was signed against. The
merchant broadcasts it later, as fee payer. Everything that makes this safe is bookkeeping on two
phones that may crash, lose their storage or lose the network at any `await`. These TLA+ modules model
that bookkeeping; TLC checks it on small instances, and TLAPS proves what matters most for every
instance. Paths below are relative to `src/`.

## Inventory

| Part | Code | State it keeps | What it does | What makes it correct |
|---|---|---|---|---|
| Nonce pool | `packages/client/src/pool.ts`, `store.ts` | the ledger: slots (unspent, spent, unknown) with value, record of the payment and release mark; the spend log; a cached copy and a stored one | `create reserveSlot applyNonceReturn refresh reconcile recover close load` | no value is signed twice while the first payment can land; the spend limit holds; a slot comes back only when it is earned, and does come back; no deposit is forgotten |
| Merchant queue | `packages/client/src/queue.ts` | a Map of payments (queued, submitting, settled, failed, voided), a counter of failed sends, both mirrored in the store | `accept drain expire load` | no payment buys goods twice; the exposure cap; the books agree with the chain; every payment is settled or voided in the end |
| Submission | `packages/client/src/submit.ts`, `nonce-check.ts` | none | broadcast, look up, classify the outcome | an outcome never contradicts the chain |
| RPC client | `packages/client/src/rpc.ts` | none | reads with up to five attempts, send and confirm: kit's own confirmer, or a second broadcast and polling up to a deadline | a lost answer, a retry or a second broadcast never makes an outcome out of nothing; a send ends |
| Mint cache and rules | `packages/client/src/mint.ts`, `packages/core/src/validate.ts` | mint → record | `refresh`, `evaluateMint`, staleness | an immutable record never goes stale |
| Canonical message, signing, verification | `packages/core/src/canonical.ts`, `sign.ts`, `nonce-provider.ts`, `derive.ts` | none | both sides build the same bytes; sign, verify, assemble | the till takes only what the payer confirmed, at its own price |
| Nonce return | `packages/core/src/nonce-return.ts` | none | a signed statement that re-arms a slot offline | bound to payer, slot, prior value, new value, merchant |
| Wire format | `packages/wire/src/codec.ts` | none | four payload types, normative check order | decoding never yields a request nobody made |
| Base45 and QR | `packages/wire/src/base45.ts`, `qr-encode.ts`, `qr-scan.ts` | the camera, the scanner's `#aborted` | text, pictures, scanning with one of two engines | round trip, nothing malformed is repaired, the camera is released |
| Payer app | `apps/payer/src/main.ts`, with `apps/shared/src/store.ts`, `standalone.ts`, `keys.ts` | the screen; identity and ledger in IndexedDB; the epoch marker in localStorage | boot, recovery, onboarding, close, sign, scan, tokens | nothing is signed after a loss; no screen is a dead end |
| Merchant app | `apps/merchant/src/main.ts` | the screen; settings (tier, token, create-account) | request, printed code, scan, accept, queue, nonce return | what the screen says of a payment is true |
| Service workers | `apps/*/public/sw.js`, `scripts/build-precache.mjs` | one cache per build, a pointer to the one in use | install, activate, fetch | from the first activation on there is a whole app to start with the radio off, scanner included |
| Copy, formatting, UI | `apps/shared/src/errors.ts`, `ui.ts`, `format.ts` | — | wording, layout | — |
| Fixtures, tests, tools, scripts | `packages/fixtures`, `packages/integration`, `apps/e2e`, `tools`, `scripts` | — | — | — |

How they interact. The merchant's app shows a request (INTENT, or a printed STATIC_INTENT). The
payer's app scans it, decodes it against its mint cache, asks for confirmation, lets the pool reserve
a slot — persisted as spent *before* a signature exists (D32) — signs, and shows an AUTH. The
merchant's app scans that, rebuilds the message, verifies the signature, and hands the payment to the
queue under one of three tiers: T0 waits for the settlement, T1 looks the nonce account up, T2 trusts.
`drain` broadcasts what is queued. The payer's slot comes back by a signed nonce return shown by the
merchant, by `reconcile` when the payer is online and sees that the nonce has moved, or by `reconcile`
when the send window is over. Both apps are installed web apps: their service workers start them with
the radio off, and one of the scanner's two engines is a `.wasm` file those workers must have kept.

What is hard about it:

- Every pool call loads the ledger, awaits chain reads one slot at a time, and writes its *copy* back.
  The chain, the clock and other calls move in between.
- The cached ledger changes before the store does, and the page may go away between the two.
- A send may fail, be unconfirmed, or be confirmed late; the code then looks at the signature and at
  the nonce, in two reads, while the chain moves on.
- The send window ends while a payment may be on its way, on two clocks.
- The browser may delete the ledger; the chain cannot say which slots had been spent.
- A lost answer of the endpoint may stand for a transaction that was broadcast, and it is sent again.
- Cancel may be tapped during any await of a scan, before there is a scanner or while a frame is read.
- An install of a worker fails, is killed or goes offline half way, over a cache that is in use.

`PROJECT.json` lists the places where this bites, line by line.

## Modules

| Module | Models | Of it |
|---|---|---|
| `NoncePool` | the pool, its store, the nonce accounts, the merchants' nonce returns, the clock | every call of `Pool` with each of its awaits |
| `OfflineSigning` | what the pool promises those who cannot look into the device | abstract specification: `signed`, `landed`, `clock` |
| `MCNoncePool` | symmetry of merchants for TLC | |
| `NoncePoolProofs` | TLAPS: `TypeCorrect` | |
| `NoncePoolSafety` | TLAPS: the pool's safety and action properties, and that it implements `OfflineSigning` | |
| `Totals` | the `reduce` of the allowance and of the exposure, as a number of units | functions only |
| `TotalsProofs` | TLAPS: what a total obeys | |
| `MerchantQueue` | the queue, submission inside `drain`, the accept and queue screens, the store, the chain | every call of `Queue` with each of its awaits |
| `MCMerchantQueue` | symmetry of payments and callers, a view without what the merchant was told | |
| `QueueProofs` | TLAPS: the queue's safety and action properties, and that `RpcClient` implements it | |
| `RpcClient` | each network step of a submission as requests that are throttled, lost, retried, given up | extends `MerchantQueue` and implements it |
| `PayerApp` | the payer's screens, the ledger gate, the identity, and what the browser deletes | the pool reduced to one slot |
| `PayerAppProofs` | TLAPS: `PayerTypeCorrect`, `NothingSignedAfterLoss` | |
| `MintRules` | `evaluateMint`; what the token programs let an authority change | |
| `Exchange` | request, answer, verification; both apps' screens for it; the mint caches | extends `MintRules` |
| `MCExchange` | two mints, symmetry | |
| `ExchangeProofs` | TLAPS: every property of `Exchange` that is checked | |
| `Base45` | the text in a code, in both directions | functions only |
| `Base45Proofs` | TLAPS: `RoundTrip`, `NothingRepaired` | |
| `ServiceWorker` | install, activate and fetch of the workers, deployments, the radio | |
| `Scanner` | one scan after the other: camera, video, frames, Cancel | extends `Base45` |
| `OfflineApp` | the installed app: the worker that starts it and the scanner whose engine is a file of it | extends `ServiceWorker`, `Scanner` |
| `MCOfflineApp` | the texts at the codec's boundaries | |
| `OfflineAppProofs` | TLAPS: the safety properties of `OfflineApp` | |

### NoncePool

`disk` is the record in the store, `mem` the cached `current`, `call[c]` a pool call in progress with
its phase, its loaded copy and the slots still to be read. `Begin` is the synchronous start of a call
after `loaded()`; `ReadSlot` is one awaited chain read; `Persist` changes `mem` and issues the write;
`WriteLands` / `WriteFails` end it. `ReserveSlot`, `ApplyNonceReturn`, `ScanFinishes` (refresh,
reconcile), `RecoverFinishes`, `CloseSends`, `CloseFinishes`, `CreateSends`, `CreateFinishes` are the
code between awaits. `signed` is written when `reserveSlot` returns: the app signs immediately then.

The environment: `PaymentLands` (a payment lands only at its own value and moves the value on; an
execution that fails advances the nonce as well, so the two are one action), `MerchantReturns`,
`Tick`, `Crash` (memory and unfinished calls are gone), `StorageLost`.

Abstracted: the epoch, funding and fees, the probe bound of `recover`, a foreign authority found by
`recover`, a wrong payer key. A slot that `recover` did not list is `"unlisted"`. `recover` is
reached only when there is no ledger and `create` only when there is none or every slot is unknown, as
the payer app offers them. The spend log is a set whose entries carry a number.

`SignsAsPromised` says that `NoncePool` implements `OfflineSigning`. The mapping is the identity on
`signed`, `landed` and `clock`; ledger, store, calls, accounts and returns are hidden. So `WriteLands`
of a reservation maps to `Sign`, `PaymentLands` to `Land`, `Tick` to itself, and every other step —
crashes, refused writes, chain reads, reconciliation — to a stutter. It holds as long as the ledger is
not lost, since the spend log is lost with it. `OfflineSigning` takes the total of amounts as a parameter,
which is `Totals`' in the pool: a number of units and no fold, so that TLC can count it and the provers
can reason about it.

### MerchantQueue

`payments` is the Map and `stored` its copy in the store; `writes` is the FIFO of `store.set` calls.
`call[c]` is an accept or drain in progress. `Acceptable` is `accept`'s chain of refusals in one
guard, `MustLookUp`/`PrecheckPasses` T1's look-up, `MarksSubmitting` … `Resolves` one round of
`drain`'s loop, `LooksUp`, `ReadsBack` and `Classifies` `submit`'s reads and its verdict, `Expire`
the queue screen's call of `expire`. The chain: `ChainLands`, and `AccountLeaves` — the customer spent
the nonce elsewhere or closed the account. `handed`, `refused` and `voidedShown` record what the
screens told the merchant.

`sendPayment` is split by what it may answer: `SendRefused` (the simulation objects, nothing was sent),
`SendConfirmed`, `ConfirmerThrows` and `SendUnconfirmed` (it throws after the broadcast); all failures
go through `SendThrows` to the look-up of `submit`'s catch block. `Dropped` is the network forgetting a
transaction. `CallStep` is `LocalStep` (the queue and the store) or `NetworkStep` (the endpoint).

`CommitOnResolve` says when `store.set` resolves. The merchant's app uses the payer's
`createIndexedDbStore`, whose `set` resolves on the request's success (`apps/shared/src/store.ts:45`, 82)
and not on the transaction's completion. With `TRUE` a write that has resolved survives, which is what the
callers of the store rely on. With `FALSE` the caller goes on — hands the goods over — while the write may
still be lost without anyone hearing of it: `WriteLands` and `MetaLands` then may leave the store as it
was. The queue's runs have `TRUE`; what `FALSE` breaks is under *other disagreements*; a theorem about the
queue that needs `TRUE` says so.

Abstracted: order of acceptance is a strictly increasing number (the clock does not step back);
`attempts`, `feeCharged` and `newNonceValue` are not tracked; the branch for an already processed
transaction cannot be reached when chain reads are consistent; the load at boot is part of `Crash`.

### RpcClient

`request[c]` is what call `c` awaits of the endpoint: the stage of `sendPayment`, the attempt of the
`withRetry` in progress, the polls made, and whether this attempt's send has been carried out.
`SendPayment` starts it; `Taken` and `Acknowledged` are the two halves of a send, so that an answer can
be lost between them; `Objected`, `Watched` and `Polled` are how it ends; `Throttled` is an error
`isRetryable` knows — from kit's way it leads to `broadcastAndPoll`, there to the next attempt —
`Unreachable` one it does not know; `Reads` does the same for the look-ups after it. The network steps
of `MerchantQueue` happen inside these; everything else is its own. Kit's confirmers are external and
modelled from how `sendPayment` uses them.

`ImplementsQueue` says that what `MerchantQueue` tells in one step is what all this comes to. The
mapping is the identity on its variables, `request` is hidden: `Taken` maps to `Broadcasts`, a second
one too; the ends map to `SendRefused`, `SendConfirmed`, `SendUnconfirmed`, `ReadFails` and the answered
reads; retries, polls and lost answers map to stutters.

### PayerApp

`page` is what the running page shows and remembers, `job` the asynchronous function a button has
started, at one of its awaits. `record` and `identity` are in IndexedDB, `marker` is the epoch marker
in localStorage. `AssessLedger` and `FirstScreen` are the gate and `boot`; each `Tap…` is a button on
the screens that offer it; `Refresh`/`Reconcile`/`Recover`/`Create…`/`Close…`/`Sign`/`ApplyReturn`
are what they run; `WriteLands` is the store's write and the rest of the function after it. The pool
has one slot, whose value names the account it was read from; everything about several slots and
values is `NoncePool`'s, and so is a resolved write that does not survive: here every one does.

### Exchange and MintRules

`till` and `payer` are the screens with the request they hold; `cache` the mint caches; `issued` the
requests ever shown (a printed one can be scanned at any time). A payload is a header, a length and
fields; a flags byte is the set of its bits, and lengths are the numbers of the format. `Displayed` is
what a camera can be pointed at, `Readings` what a code may be read as: as it is, cut short, or as an
app with another idea of the format would have written it. A signature is who signed and what message;
it verifies for nothing else. Decimals are a constant of a mint and left out; addresses derived from
others are functions of them. `MintChanges` is an authority's change to a mint. `ConfirmScreens` is what
`confirm` may bring up: the request to sign, or a refusal above one of the payer's caps (amounts are
model values there, so any may be refused; the spend limit itself is `NoncePool`'s).

### Base45

A text is a sequence of values of the alphabet, −1 a character outside it; a payload a sequence of
bytes. `ToBase45` and `FromBase45` are functions from places to values, `Decodable` is every rejection
of receive rule 11, and the low eight bits an element of a `Uint8Array` keeps are a `% 256`.

### ServiceWorker, Scanner, OfflineApp

`caches[b]` is the cache of build `b`, `pointer` the entry that names the one in use, `install` and
`takeover` the worker's events at one of their awaits, `page` the app's page with the build it is of and
where it came from. `FetchesManifest … SkipsWaiting` are `install`, `ReadsPointer` and `DeletesOthers`
`activate`, `Served`, `Opens`, `LoadsCode` and `LoadsEngine` `fetch`; `CachedShells` is whose `index.html`
the cache in use may hold, complete or not. A build changes `sw.js` or does
not; only then does the browser install anything.

`session[s]` is one call of `scan`: where it awaits, whether its camera is on, and `#aborted`. `Cancels`
may fall into any of its awaits. `Stop`, `Throws`, `Created`, `CameraOpens`, `Looks`, `SeesNothing` and
`SeesCode` are the code between them; `SeesCode` hands on what the text decodes to.

`OfflineApp` joins the two. A frame can be read if the platform has a detector, or the page has the
zxing engine or can still be served it (`EngineAtHand`); closing the page ends its scans.

## Runs

| Run | Asks | Bounds |
|---|---|---|
| `pool_crash` | `NoDoubleSign`, `OutstandingNeverOffered`, `SpendBounded`, `OnlyTimeRefills`, `RearmIsEarned`, `SignsAsPromised` with crashes, refused writes and RPC failures at every await | 2 slots, amounts 1–2, limit 2, windows 2, clock 2, 2 reservations, 1 merchant |
| `pool_storage_loss` | `NoDoubleSign`, `NoDepositForgotten`, `RearmIsEarned` when the ledger may vanish at any time; `SpentIsReleased` | 1 slot through 4 values, 3 reservations, 1 merchant, send window 2, spend window 3, clock 3, RPC failures |
| `queue_crash` | `ServedOnce`, `SettledHasLanded`, `T0HandsOverSettled`, `FinalStaysFinal` with reloads and RPC failures | 2 payments, T0 and T2, one call at a time, writes that survive once resolved |
| `queue_writes` | `ServedOnce`, `AtRiskBounded`, `NothingHandedIsForgotten` with refused writes, forgotten transactions and reloads | 2 payments, two overlapping T1 calls with their look-ups, cap 1, writes that survive once resolved |
| `queue_liveness` | `SettledHasLanded`, `T1WasBacked`, `EveryPaymentResolves`, `ImplementsQueue`, `SendEnds` over throttling, lost answers, forgotten transactions and reloads | `RpcClient`: 2 payments, one on the fresh path, T1, 3 attempts (the code has 5), 1 poll before the deadline, 2 drains, writes that survive once resolved |
| `payer_screens` | `NeverSignsAfterLoss`, `DepositComesBack`, `PaysAgain` | 3 accounts, 2 faults among crash, RPC failure and loss of the ledger |
| `exchange` | `ConfirmsWhatWasIssued`, `AcceptedWasAgreed`, `AnswerIsAccepted`, `ImmutableVerdictHolds` | 2 tills, 1 payer, 2 mints, 2 amounts, 2 requests, 1 slot, 1 change |
| `offline_app` | `ShellIsWhole`, `ScansOffline`, `CameraIsReleased`, `ReadsExactly`, `BecomesOffline`, `CancelTurnsCameraOff` | 2 builds, 1 killed install, deployments that wait for an install to end, 1 scan, 7 texts |

Why the bounds are enough. A double signature needs one slot, two reservations of the same value and a
window between them; two slots add the choice of slot. The window (2) is longer than one tick, so
inside, at and after the boundary all occur. A spent value, its successor and the next one give every
relation a record and the chain can be in. In the queue two payments are the least at which one call's
outcome can be taken for another's, and the caps of 1 are reached by the first payment. In `exchange`
a wrong acceptance needs two requests and one answer. `payer_screens` affords one fault in the
recovery from another one. In `queue_liveness` three attempts are a first, a middle and a last one, and
one poll is one that finds nothing before the last. In `offline_app` a second build is what a cache can
be confused with, its `sw.js` changed or not; the texts are the empty one, both maxima (255 in a tail,
65535 in a group) and what lies just above them, an unmatched length and a foreign character; a scan
knows nothing of the one before it except by Cancel, and two scans over a single build pass as well.
`CHECK_DEADLOCK FALSE` is set since every bound stops the system: the clock, the reservations, the
requests, the scans and the faults run out.

The passing runs of the pool have one caller: the app disables nothing while a call runs, and what two
overlapping calls do is listed below. `SpendBounded` is not asked where the ledger may be lost, since
the spend log is lost with it; the code says so.

`CommitOnResolve` is `TRUE` in all passing runs. `SettledHasLanded`, `T0HandsOverSettled`, `T1WasBacked`,
`FinalStaysFinal` and `ImplementsQueue` are proved for `FALSE` as well; `EveryPaymentResolves` is not
asked there: a write that is lost every time says nothing about the queue.

### Runs that end in a violation

Each shows one sentence of the repository that the code does not keep.

- `pool_relaxed_writes` / `NoDoubleSign`: the store's `set` resolves on the *request's* success
  (`apps/shared/src/store.ts:82`), before the transaction commits. With `CommitOnResolve = FALSE` a crash
  after the payment is shown brings the unspent slot back, and it is signed with again. The payer app
  says "a crash here costs a slot until reconciliation, never a double-spend" (`main.ts:418`).
- `queue_refused` / `RefusedIsNotSent`: in a T0 sale `submit`'s look-up throws after the broadcast;
  the error is no `VadumError`, and the screen says "Nothing was accepted or sent."
  (`apps/merchant/src/main.ts:120`), while the payment lands.
- `queue_own_landing` / `StaleIsNotSettled`: the payment lands between the look-up of its signature
  and that of its nonce; it is reported as "Not charged — another merchant settled this payment first"
  (`apps/shared/src/errors.ts:193`).
- `payer_recovery` / `RecoveryIsLeft`: IndexedDB is deleted, the device's key with it; the marker in
  localStorage survives, the new identity has no account to recover, and nothing clears the marker.
  The threat model calls RECOVERY "a state the payer can actually leave" (`plan/30-THREAT-MODEL.md:153`).

### Other disagreements met while modelling

Found with these modules or on the way, and kept here rather than as runs:

- `refresh` overlapping `reserveSlot` writes its older copy back, and the spent slot is unspent again
  (`pool.ts:302`; line 103 says "Never changes slot state").
- The merchant's queue over the same store. With `CommitOnResolve = FALSE`, one payment under T1 and one
  call at a time, TLC finds `NothingHandedIsForgotten` violated in four steps: offer, look-up, acceptance,
  and `set` resolving, at which the goods change hands. It finds `ServedOnce` violated in nine: the page
  goes away before the commit, the reload knows nothing of the payment, and the same code is shown, looked
  up, accepted and served again. The queue has no amount for goods it has forgotten, so that the exposure
  cap starts afresh, and `AtRiskBounded` is only asked beside `NothingHandedIsForgotten`. `queue.ts` awaits
  the store before `accept` returns (line 116) and accepts a code once (line 96). A lost commit can
  likewise take back the counter of failed sends.
- `close` interrupted between its transaction and its write leaves closed slots offered (`pool.ts:343`)
  until the payer refreshes or closes again, which `PaysAgain` shows to suffice; if the write of `close` fails and the app then crashes, `reconcile` can report "settled".
- `refresh` keeps `releasedAt` when the value has moved, so a settled slot is still handed out last
  (`pool.ts:301` against 50–54).
- A read that throws in `submit`'s catch block strands the payment as "submitting" until `expire`
  (`submit.ts:100`, `queue.ts:129`).
- `expire` tells the merchant that a payment is voided and awaits none of its writes; a crash or a refused
  write brings the payment back after a reload, and it may be sent and settle until `expire` runs again
  (`queue.ts:148`). `AtRiskBounded` leaves such a payment out, since the merchant has given it up;
  `EveryPaymentResolves` says that it is final again in the end.
- `expire` voids payments that may have landed (`queue.ts:147`); `drain` sends payments past their
  window (`queue.ts:129`, `plan/31-PARAMETERS.md:82`).
- `SUBMIT_EXECUTION_FAILED` also stands for a refusal in simulation, for which no fee was paid
  (`submit.ts:122`, `errors.ts:206`).
- The counter of failed sends stops every tier and is reset by a settlement only: with nothing left to
  settle the till is locked (`queue.ts:105`).
- Two overlapping T0 sales: one takes the other's outcome for its own (`apps/merchant/src/main.ts:343`).
- The first `create` interrupted between send and write: no ledger and no marker, onboarding again,
  where `create` fails for ever and `recover` is not offered (`pool.ts:251`, `apps/payer/src/main.ts:474`).
- A closed pool whose ledger is lost: RECOVERY with nothing on chain to recover, for ever.
- `MintCache.refresh` keeps an incompatible record, and decoding does not look at `compatible`: the
  token screen refuses the mint, and the payer can still sign for it (`mint.ts:38`, `codec.ts:153`,
  `apps/payer/src/main.ts:227`). `assertMintCompatible` is not called by either app.
- A till verifies an answer to a printed code against a request built from its present settings; after
  the create-account setting is changed, codes already printed are refused (`apps/merchant/src/main.ts:240`).
- Cancel on a scan screen does not end the scan (`apps/payer/src/main.ts:271`,
  `apps/merchant/src/main.ts:310`). Pressed before `createScanner` has resolved it stops nothing, and the
  camera opens over the home screen, until a code is seen or the app closed; pressed while a frame is
  being read, `next()` may still resolve (`packages/wire/src/qr-scan.ts:29` says it "rejects on abort")
  and the payer is taken to that request, or the till takes that payment; otherwise the loop throws "the
  scanner was stopped" and the error screen replaces home. A late result can so bring up the confirm
  screen while another pool call runs, which is how two calls of the pool come to overlap. `Scanner`
  has all of this; that the camera is off in the end, Cancel tapped in time, is what it shows.
- An unreadable frame: `qr-scan.ts:132` says "the app simply scans again"; both apps show the error
  screen instead.
- `rpc.ts:286` calls the second send "either the first send or a no-op". Its preflight runs again, and
  may object to what the first one has changed, as an execution failure or an expired lifetime.
  The look-up after it then finds the truth, unless it is too early.
- `isRetryable` knows status codes and Node's socket errors; a browser's own "Failed to fetch" is
  tried once (`rpc.ts:118`).
- kit's durable-nonce confirmer has no deadline: a transaction the network forgot, whose nonce does not
  move, is awaited for as long as the page lives, and with it every payment after it in that drain
  (`rpc.ts:279`; `CONFIRM_TIMEOUT_MS` bounds `broadcastAndPoll` only). `SendEnds` exempts exactly this.
- `build-precache.mjs:48` says a new build replaces the old cache "instead of serving a half-updated
  shell". A build that leaves `sw.js` as it is replaces nothing, since no install begins; and with
  `DeploysAnyTime = TRUE`, a deployment that falls into an install or an activation, `ShellIsWhole` is
  violated in ten steps: files of one build with the `index.html` of the next, or the next cache deleted
  by the last activation.
- The payer's `sw.js:57` says "Navigations: cache first"; the code goes to the network first.
- The payer app reserves a slot and passes it even for a fresh-blockhash request, which then cannot be
  built (`apps/payer/src/main.ts:420`); the merchant app never shows one.

## Fairness

- `NoncePool`: weak fairness on the start of the app, on the clock and on the steps of a call — the
  browser goes on running it — and strong fairness on beginning a `reconcile`: a payer who is online
  again and again refreshes sooner or later. Outages end, which is what being online means. No fairness
  on payments, merchants or losses. Strong, since another call in progress disables it again and again.
- `MerchantQueue`: weak fairness on call steps, on the store, on the clock and on the landing of what
  was broadcast; strong fairness on `Expire`: the merchant opens the queue screen again and again.
- `RpcClient`: the same; the endpoint answers or fails in the end, what was broadcast lands or is
  forgotten, and reloads come to an end. Nobody has to confirm, and throttling need not end.
- `PayerApp`: weak fairness on the running task; strong fairness on opening the installed app, closing
  it, and on each button: a payer who is offered something again and again tries it once.
- `OfflineApp`: weak fairness on the worker's steps and on those of a session while its page is there;
  strong fairness on opening the app, loading its code and registering its worker. Nobody has to allow
  the camera, show a code or close the app.

## What is proved

Every invariant and every action property that a passing run checks, and both refinements, are also
theorems, proved with TLAPS for all values of the constants that the modules' assumptions admit. Each
inductive invariant was checked by TLC on small instances before it was proved. A theorem is about any
number of overlapping calls unless it assumes `OneCallAtATime` (`\A c, d \in Callers : c = d`).

| Theorem | States | Assumes, beyond the modules' assumptions on constants |
|---|---|---|
| `TypeCorrect` (`NoncePoolProofs`) | `TypeOK` of the pool | |
| `NeverDoubleSigns`, `NeverOffersOutstanding` (`NoncePoolSafety`) | `NoDoubleSign`, `OutstandingNeverOffered` | `OneCallAtATime`, `CommitOnResolve = TRUE` |
| `DepositsStayListed`, `RearmingIsEarned`, `OnlyTimeGivesBack` | `NoDepositForgotten`, `RearmIsEarned`, `OnlyTimeRefills` | the same |
| `SpendStaysBounded`, `PoolImplementsPromise` | `SpendBounded`, `SignsAsPromised` | the same, and `"storageLoss" \notin Faults` |
| `EveryPaymentServedOnce`, `ExposureIsBounded`, `HandedIsStored` (`QueueProofs`) | `ServedOnce`, `AtRiskBounded`, `NothingHandedIsForgotten` | `CommitOnResolve = TRUE` |
| `QueueTypeCorrect`, `SettledMeansLanded`, `T1SalesAreBacked` | `TypeOK`, `SettledHasLanded`, `T1WasBacked` | |
| `T0SettlesFirst`, `FinalIsKept` | `T0HandsOverSettled`, `FinalStaysFinal` | `OneCallAtATime` |
| `RpcImplementsQueue` | `RpcSpec => ImplementsQueue` | |
| `PayerTypeCorrect`, `NothingSignedAfterLoss` (`PayerAppProofs`) | `TypeOK`, `NeverSignsAfterLoss` | |
| `ExchangeTypeCorrect`, `PayerConfirmsARequest`, `TillAcceptsTheAgreed`, `HonestAnswerAccepted`, `VerdictNeverStale` (`ExchangeProofs`) | `TypeOK`, `ConfirmsWhatWasIssued`, `AcceptedWasAgreed`, `AnswerIsAccepted`, `ImmutableVerdictHolds` | |
| `RoundTrip`, `NothingRepaired` (`Base45Proofs`) | decoding inverts encoding, and repairs nothing | |
| `OfflineTypes`, `AlwaysReadsExactly`, `AlwaysReleasesCamera` (`OfflineAppProofs`) | `TypeOK`, `ReadsExactly`, `CameraIsReleased` | |
| `ShellStaysWhole`, `ScansWithoutNetwork` | `ShellIsWhole`, `ScansOffline` | deployments wait for installs |

Why they are assumed: two overlapping calls of the pool write old copies back, and two overlapping T0
sales take each other's outcome (other disagreements, above); without `CommitOnResolve`
`pool_relaxed_writes` is a counterexample for the pool, and the one for the queue is under other
disagreements; a lost ledger takes the spend log with it. The assumptions in
the modules say that bounds and amounts are natural numbers, that the sets of slots and payments are
finite, and that `NULL` is none of the values it stands beside.

### The pool

`TypeInv` adds to `TypeOK` what the calls carry. `NoDoubleSign` is not inductive: it looks at the past,
while the next reservation depends on what ledgers offer. `SafetyInv` says that *every copy* a reservation
may ever come from — memory, store, the copy inside a call in progress, a reservation's copy about to be
written — is sound: a value it offers as usable is one no payment younger than the send window is signed
against (`SlotSound`, `LedgerSound`); that a spent slot's record is the last payment signed for its value
(`Recorded`); that signatures never lie ahead of the chain's values or of the clock (`History`); and what
is known in each phase of a call (`SigningSound`, `ReserveSound`, `CallSound`). `MovesOn` is the
environment's step: values only grow, time only passes, nothing is un-signed; each kind of soundness is
shown once to survive it, and once per action to be re-established. The key case is `ReconciledSound`:
reconcile frees a slot because its value has moved, and then no signature on the old value matters, or
because the window is over.

`CopyInv` is what makes it safe to persist a copy taken before so many awaits. The copy is still the
ledger in memory but for what the call has earned (`CopyTracks`, `Earned`), its spend log is the one in
memory, and a call that looks for accounts on chain has found them or is still to ask about them
(`FindsAll`). `MayReplace` sums up what any call may write, and is shown for each of them.
`RearmingIsEarned`, `OnlyTimeGivesBack` and `DepositsStayListed` follow.

`SpendInv` ties the spend logs to what was signed. Every payment in the window is in every log a
reservation may count from (`Covers`); a log on its way to the store counts the payment it is written
for; and what a log counts is within the limit. The limit then holds for the payments themselves, since
each has a log entry of its own (`TotalInjection`). `PoolImplementsPromise` uses all three invariants:
the landing write of a reservation is a `Sign` of `OfflineSigning` and meets its guards, `NonceIsFree`
and the limit on `SpentWith`.

### The queue

`IInv` relates the Map, the store, the FIFO of writes and the snapshot each drain works through. Every
record in any of them is a version of the payment memory knows (`IsVersion`), and memory's, the store's
and the writes' say nothing untrue of how it ended (`SaysTheTruth`): without this a late write followed by
a reload could bring back an outcome that never was. A call serves its sale alone (`SalesDiffer`,
`ServingInv`) and waits for no write but its own (`WriterWaits`). If resolved writes survive, the store
has the payment once that write has landed (`HandedInv`), which is why goods are handed over once, even
when memory is lost. The two parts that need this are implications from `CommitOnResolve`; the rest of
`IInv` holds whatever is lost. Goods change hands in two places only (`OnlyTheseHandOver`), and the step
that hands over names its sale (`HandsOverItsSale`); from this `T1WasBacked` and `T0HandsOverSettled`
follow as properties of that step, for what was handed over need not stay known. What is *owed* is counted from
acceptance on, before anything is handed over (`OwedInv`), and so bounds what is at risk even when two
calls have looked up at the same time.

`SoloInv` is for one call at a time: the sale being accepted is the newest payment, so its drain handles
it last (`SaleIsNewest`, `SnapshotInv`, `LastIsTheSale`), the outcome it then reports is that payment's
(`OutcomeIsTrue`), and nothing a drain still has to send has become final (`TodoNotFinal`).

`RequestInv` says which phase of `MerchantQueue` a request of `RpcClient` belongs to, and that what needs
a failed request is reached only where requests may fail. With it each step of a submission is an action
of `MerchantQueue` or a stutter, so that what is proved of the queue holds over lost answers and retries.

### The screens and the exchange

`PayerAppProofs`: a ledger that the page or the store would sign from belongs to an account that has lost
none (`LossInv`). This survives because a running page has an identity the store still has or has lost
altogether (`PageShape`), accounts are numbered as they are created and no two identities share one
(`AccountsInv`), and an account that is being created is none whose ledger is lost (`SetupInv`). The last
is the delicate one: `create` overwrites the record, and the ledger may be deleted between its
transaction and its write.

`ExchangeProofs`: a request on a payer's screen was issued, and a shown answer is to that very request,
over its amount and one of the payer's slots, and was agreed to (`PayerInv`); a till away from home has a
request of its own that was issued (`TillInv`), whose token is one it has a record of (`SettingsInv`). That
an honest answer is accepted then comes down to both sides building the same message: the payer from the
request it scanned, the till from the request it keeps and what is left of the answer after encoding and
decoding (`DecodesAnswer`). `CacheInv` adds to `ImmutableVerdictHolds` that the mint on chain *stays*
immutable: no change an authority may make leads from an immutable mint to another verdict
(`VerdictStays`), extension by extension.

`Base45Proofs` goes place by place: `Places` divides a place by the size of its group, `TextOf`,
`PairValues` and `GroupValues` say what stands there, `DigitsAddUp` and its kin are the arithmetic of three
digits to base 45 and two bytes, and the sizes of the two sequences decide where a tail is. No induction
is needed, since a group never looks at another.

`OfflineAppProofs`: `OfflineInv` joins the types, what has been handed on (`ReadsExactly`, from
`NothingRepaired`), and `ShellInv`: an install is one of the build the host serves, so that its files and
its `index.html` belong together; past its index its cache is whole; an activation deletes every cache but
the one `pointer` names, and no install is under way meanwhile. `ShellIsWhole` alone does not survive
`PointsAtCache` or `DeletesOthers`. `ScansOffline` then follows, as the cache that has the shell has the
engine.

`TotalsProofs` has what the pool and the queue need of sums over finite sets: a total is a natural number,
one more item adds its amount, fewer or smaller items never make more, and items that go to different
larger ones make no more than those. All of it is about cardinalities of sets of units, from the library's
facts on finite sets.

### Only model-checked

Liveness under fairness is out of the prover's reach and stays with TLC: `SpentIsReleased`,
`EveryPaymentResolves`, `SendEnds`, `DepositComesBack`, `PaysAgain`, `BecomesOffline`,
`CancelTurnsCameraOff`. So do the four runs that end in a violation. The refinements are of the safety
part: `ImplementsQueue` says nothing of `MerchantQueue`'s fairness, and `EveryPaymentResolves` is checked
on `RpcClient` itself.

## Plan

Done, in this order because of what each part carries: the pool, the queue, the screens around the
pool, the exchange; then the endpoint under the queue, the codec, the scanner and the service workers;
then the theorems of all of them. What is left:

1. An abstract specification of the queue: each payment is unknown, owed, paid or given up, and
   `MerchantQueue` implements it but for reloads, which may take back a `voided`. Its proof, from `IInv`,
   belongs in `QueueProofs`.
2. What holds of the pool when calls do overlap: which conjuncts of `SafetyInv` survive, and what the app
   would have to wait for to keep the rest.
3. The nonce return's payload as a code in `Exchange`.
4. Which of the queue's results that assume `OneCallAtATime` hold for two drains without a T0 sale.

## Not modelled

- QR pictures: `qr-encode.ts` and decoding a still image (`decodeImage`) turn text into pixels and back;
  there is no state, and the libraries do the work.
- Cryptography and the byte layout of Solana messages: a signature is ideal, a message is its content,
  derived addresses are functions of what they are derived from.
- Fees, balances and rent beyond "a slot's deposit is on chain or not".
- The projection of a mint account into the record `evaluateMint` judges (`rpc.ts`, `projectMint`), a
  parser of external data; back-off times and endpoint names.
- The age at which a mutable mint's record is called stale: it changes a warning only.
- Wording, formatting and layout (`errors.ts`, `format.ts`, `ui.ts`).
- Fixtures, integration and end-to-end tests, the tools of `tools/` and the experiments of `plan/`: none
  of it runs in the apps.
