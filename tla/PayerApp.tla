------------------------------ MODULE PayerApp ------------------------------
(***************************************************************************)
(* The screens of the payer app around its pool: apps/payer/src/main.ts,   *)
(* with the ledger gate of apps/shared/src/store.ts and standalone.ts and  *)
(* the device identity of keys.ts.  It is about what the screens can still *)
(* reach after a page is reloaded, a call is interrupted, or the browser   *)
(* deletes what the app stored.                                            *)
(*                                                                         *)
(* The pool is NoncePool's, reduced to one slot whose value names the      *)
(* account it was read from, since closing and creating are what matter.   *)
(* A job is the asynchronous function a button has started.                *)
(***************************************************************************)
EXTENDS Naturals

CONSTANTS
  Losses,        \* what the browser may delete, of LossKinds
  MaxIdentities, \* bound: device identities ever generated
  MaxAccounts,   \* bound: nonce accounts ever created
  MaxFaults      \* bound: crashes, losses and RPC failures

LossKinds == {"record", "siteData"}

ASSUME LossAssumption == Losses \subseteq LossKinds
ASSUME BoundAssumption ==
  MaxIdentities \in Nat \ {0} /\ MaxAccounts \in Nat /\ MaxFaults \in Nat

VARIABLES
  identity,   \* the key pair in IndexedDB, numbered; 0 when there is none
  identities, \* key pairs generated so far
  record,     \* identity -> its ledger in IndexedDB, or NoRecord
  marker,     \* the epoch marker in localStorage is set
  account,    \* identity -> its live nonce account, numbered; 0 when none
  accounts,   \* accounts created so far
  page,       \* the running page: its screen, identity and cached ledger
  job,        \* what the page is busy with
  lost,       \* accounts whose ledger has once been lost (history)
  signed,     \* accounts payments have been signed against (history)
  faults

vars == <<identity, identities, record, marker, account, accounts, page, job,
          lost, signed, faults>>

Identities == 1 .. MaxIdentities
Accounts == 0 .. MaxAccounts

\* A ledger of one slot.  Its value is 0 when it is not read yet, or gone.
Records == [state : {"unspent", "spent", "unknown", "missing"}, value : Accounts]
NoRecord == [state |-> "missing", value |-> 0]
\* Mutant: a state of its own for a closed slot.
ClosedSlot(value) == [state |-> "closed", value |-> value]
UnknownSlot(value) == [state |-> "unknown", value |-> value]

Screens == {"app closed", "not-installed", "onboarding", "recovery", "home",
            "recovered", "closed", "tokens", "payment", "failed"}
Tasks == {"none", "refresh", "reconcile", "recover", "create", "first refresh",
          "close", "sign", "return"}
Steps == {"call", "sent", "write"}

NoJob == [task |-> "none", step |-> "call"]
AppClosed == [screen |-> "app closed", me |-> 0, mem |-> NoRecord]

me == page.me
chainVars == <<account, accounts>>
storageVars == <<identity, identities, record, marker>>
historyVars == <<lost, signed>>

Init ==
  /\ identity = 0 /\ identities = 0
  /\ record = [i \in Identities |-> NoRecord]
  /\ marker = FALSE
  /\ account = [i \in Identities |-> 0]
  /\ accounts = 0
  /\ page = AppClosed
  /\ job = NoJob
  /\ lost = {} /\ signed = {}
  /\ faults = 0
------------------------------------------------------------------------------
(* The gate and the start of the app *)

\* Either mismatch is recovery.  The two epochs are never compared.
AssessLedger(epoch, hasPoolState) ==
  CASE epoch /\ hasPoolState   -> "ready"
    [] ~epoch /\ ~hasPoolState -> "empty"
    [] OTHER                   -> "recovery"

Ledger(i) == AssessLedger(marker, record[i] # NoRecord)

FirstScreen(standalone, ledger) ==
  CASE ~standalone         -> "not-installed"
    [] ledger = "empty"    -> "onboarding"
    [] ledger = "recovery" -> "recovery"
    [] OTHER               -> "home"

\* boot: the device identity is loaded, or generated on first run.  home loads
\* the ledger.
Boot(standalone) ==
  LET i == IF identity # 0 THEN identity ELSE identities + 1
      screen == FirstScreen(standalone, Ledger(i))
  IN  /\ page.screen = "app closed"
      /\ i \in Identities
      /\ identity' = i
      /\ identities' = IF identity # 0 THEN identities ELSE i
      /\ page' = [screen |-> screen, me |-> i,
                  mem |-> IF screen = "home" THEN record[i] ELSE NoRecord]
      /\ UNCHANGED <<record, marker, chainVars, job, historyVars, faults>>

\* `current ??= await store.get(key)`
Loaded == IF page.mem # NoRecord THEN page.mem ELSE record[me]

\* home: it throws, and the old screen stays, when there is no ledger to load.
Home ==
  IF Loaded = NoRecord THEN page ELSE [page EXCEPT !.screen = "home", !.mem = Loaded]

Back ==
  /\ job = NoJob
  /\ page.screen \in {"closed", "tokens", "payment", "failed"}
  /\ page' = Home
  /\ UNCHANGED <<storageVars, chainVars, job, historyVars, faults>>

\* Mutant: home offers the setup screen only when there is no ledger, as boot does.
NewSlotsWhenEmpty ==
  /\ job = NoJob
  /\ page.screen = "home" /\ page.mem = NoRecord
  /\ page' = [page EXCEPT !.screen = "onboarding"]
  /\ UNCHANGED <<storageVars, chainVars, job, historyVars, faults>>

\* Offered at home once every slot is unknown.  The setup screen has no way back.
NewSlots ==
  /\ job = NoJob
  /\ page.screen = "home" /\ page.mem.state = "unknown"
  /\ page' = [page EXCEPT !.screen = "onboarding"]
  /\ UNCHANGED <<storageVars, chainVars, job, historyVars, faults>>

\* A button starts a task.
Starts(task) == job' = [task |-> task, step |-> "call"]

Tap(task) ==
  /\ job = NoJob
  /\ Starts(task)
  /\ UNCHANGED <<storageVars, chainVars, page, historyVars, faults>>

TapRestore == page.screen \in {"recovery", "home"} /\ Tap("refresh")
TapClose == page.screen \in {"recovered", "home"} /\ Tap("close")
TapCreate == page.screen = "onboarding" /\ accounts < MaxAccounts /\ Tap("create")
TapPay == page.screen = "home" /\ page.mem.state = "unspent" /\ Tap("sign")
TapReturn == page.screen = "home" /\ Tap("return")
------------------------------------------------------------------------------
(* The tasks *)

Ends(screen) ==
  /\ page' = [page EXCEPT !.screen = screen]
  /\ job' = NoJob

\* The catch block: an error screen, with a way back to home.
Fails == Ends("failed") /\ UNCHANGED <<storageVars, chainVars, historyVars>>

\* persist: the cache changes at once, the store when the write lands.
Persist(ledger) ==
  /\ page' = [page EXCEPT !.mem = ledger]
  /\ job' = [job EXCEPT !.step = "write"]

Calls(task) == job = [task |-> task, step |-> "call"]

\* Mutant: restore as it was before recover existed.
RefreshGivesUp ==
  /\ Calls("refresh") \/ Calls("first refresh")
  /\ IF Loaded = NoRecord THEN Ends("failed")
     ELSE Persist([Loaded EXCEPT !.value = account[me]])
  /\ UNCHANGED <<storageVars, chainVars, historyVars, faults>>

\* refresh: reads the ledger, then the chain.  Without a ledger, restore turns
\* to recoverFromChain.
Refresh ==
  /\ Calls("refresh") \/ Calls("first refresh")
  /\ IF Loaded = NoRecord THEN Starts("recover") /\ UNCHANGED page
     ELSE Persist([Loaded EXCEPT !.value = account[me]])
  /\ UNCHANGED <<storageVars, chainVars, historyVars, faults>>

\* reconcile, after refresh: a spent slot whose account is gone is unknown;
\* otherwise it may have come back.
Reconcile ==
  LET gone == page.mem.state = "spent" /\ account[me] = 0
  IN  /\ Calls("reconcile")
      /\ \E ledger \in {page.mem, [page.mem EXCEPT !.state = "unspent"]} :
           /\ ledger # page.mem => page.mem.state = "spent"
           /\ Persist(IF gone THEN UnknownSlot(0) ELSE ledger)
      /\ UNCHANGED <<storageVars, chainVars, historyVars, faults>>

\* What recover makes of an account it finds, and a mutant that guesses.
RecoveredUsable(value) == [state |-> "unspent", value |-> value]
Recovered(value) == UnknownSlot(value)

\* recover finds the slots on chain by their addresses.
Recover ==
  /\ Calls("recover")
  /\ IF account[me] = 0 THEN Ends("failed") ELSE Persist(Recovered(account[me]))
  /\ UNCHANGED <<storageVars, chainVars, historyVars, faults>>

\* create fails if the account exists.
CreateSends ==
  /\ Calls("create")
  /\ IF account[me] # 0
     THEN Ends("failed") /\ UNCHANGED chainVars
     ELSE /\ accounts' = accounts + 1
          /\ account' = [account EXCEPT ![me] = accounts + 1]
          /\ job' = [job EXCEPT !.step = "sent"]
          /\ UNCHANGED page
  /\ UNCHANGED <<storageVars, historyVars, faults>>

CreateFinishes ==
  /\ job = [task |-> "create", step |-> "sent"]
  /\ Persist([state |-> "unspent", value |-> 0])
  /\ UNCHANGED <<storageVars, chainVars, historyVars, faults>>

\* Mutant: close fails when there is nothing to withdraw.
CloseWithdraws ==
  /\ Calls("close")
  /\ IF account[me] = 0
     THEN Ends("failed") /\ UNCHANGED account
     ELSE /\ account' = [account EXCEPT ![me] = 0]
          /\ page' = [page EXCEPT !.mem = Loaded]
          /\ job' = [job EXCEPT !.step = "sent"]
  /\ UNCHANGED <<accounts, storageVars, historyVars, faults>>

\* close withdraws what there is; there may be nothing.
CloseSends ==
  /\ Calls("close")
  /\ account' = [account EXCEPT ![me] = 0]
  /\ page' = [page EXCEPT !.mem = Loaded]
  /\ job' = [job EXCEPT !.step = "sent"]
  /\ UNCHANGED <<accounts, storageVars, historyVars, faults>>

CloseFinishes ==
  /\ job = [task |-> "close", step |-> "sent"]
  /\ Persist(UnknownSlot(0))
  /\ UNCHANGED <<storageVars, chainVars, historyVars, faults>>

\* sign asks the gate once more, then reserves a slot.
Sign ==
  /\ Calls("sign")
  /\ CASE Ledger(me) # "ready" -> Ends("recovery")
       [] Ledger(me) = "ready" /\ Loaded.state = "unspent" /\ Loaded.value # 0 ->
            Persist([Loaded EXCEPT !.state = "spent"])
       [] OTHER -> Ends("failed")
  /\ UNCHANGED <<storageVars, chainVars, historyVars, faults>>

\* applyNonceReturn: a merchant's recovery code, if it is one for this slot.
ApplyReturn ==
  /\ Calls("return")
  /\ \/ Loaded.state = "spent" /\ Persist([Loaded EXCEPT !.state = "unspent"])
     \/ Ends("failed")
  /\ UNCHANGED <<storageVars, chainVars, historyVars, faults>>

\* The write lands and the task goes on: the marker is written, the payment is
\* signed, the next screen is shown.  A write that resolves is taken to survive;
\* what one that does not costs the pool is NoncePool's CommitOnResolve.
WriteLands ==
  /\ job.step = "write"
  /\ record' = [record EXCEPT ![me] = page.mem]
  /\ marker' = (marker \/ job.task \in {"reconcile", "recover", "first refresh"})
  /\ signed' = IF job.task = "sign" THEN signed \cup {page.mem.value} ELSE signed
  /\ CASE job.task = "refresh"       -> Starts("reconcile") /\ UNCHANGED page
       [] job.task = "create"        -> Starts("first refresh") /\ UNCHANGED page
       [] job.task = "reconcile"     -> Ends("home")
       [] job.task = "recover"       -> Ends("recovered")
       [] job.task = "first refresh" -> Ends("tokens")
       [] job.task = "close"         -> Ends("closed")
       [] OTHER                      -> Ends("payment")
  /\ UNCHANGED <<identity, identities, chainVars, lost, faults>>
------------------------------------------------------------------------------
(* What goes wrong *)

Fault == faults < MaxFaults /\ faults' = faults + 1

\* An endpoint out of reach, or a confirmation that never comes.
RpcFails ==
  /\ Fault
  /\ job.step # "write"
  /\ job.task \in {"refresh", "reconcile", "recover", "create", "first refresh",
                   "close"}
  /\ Fails

\* A ledger is lost with its last copy, in memory or in the store.
Forgets(i, remembered, stored) ==
  lost' = IF remembered = NoRecord \/ stored # NoRecord THEN lost
                                                        ELSE lost \cup ({account[i]} \ {0})

Reload ==
  /\ page' = AppClosed
  /\ job' = NoJob
  /\ Forgets(me, page.mem, record[me])
  /\ UNCHANGED <<storageVars, chainVars, signed>>

\* The payer closes the app between two tasks; the system does at any time.
AppCloses == page.screen # "app closed" /\ job = NoJob /\ Reload /\ UNCHANGED faults
Crash == page.screen # "app closed" /\ job # NoJob /\ Fault /\ Reload

\* The ledger alone is deleted, or all of IndexedDB.  The marker survives, and
\* so does what a running page remembers.
StorageLost ==
  /\ Fault
  /\ identity # 0
  /\ \E kind \in Losses :
       /\ record' = [record EXCEPT ![identity] = NoRecord]
       /\ identity' = IF kind = "siteData" THEN 0 ELSE identity
  /\ Forgets(identity, record[identity], IF me = identity THEN page.mem ELSE NoRecord)
  /\ UNCHANGED <<identities, marker, chainVars, page, job, signed>>
------------------------------------------------------------------------------
TaskStep ==
  \/ Refresh \/ Reconcile \/ Recover \/ CreateSends \/ CreateFinishes
  \/ CloseSends \/ CloseFinishes \/ Sign \/ ApplyReturn \/ WriteLands

Payer ==
  \/ \E standalone \in BOOLEAN : Boot(standalone)
  \/ Back \/ NewSlots \/ TapRestore \/ TapClose \/ TapCreate \/ TapPay \/ TapReturn
  \/ AppCloses

Next == TaskStep \/ Payer \/ RpcFails \/ Crash \/ StorageLost

Spec == Init /\ [][Next]_vars

\* Tasks run on.  The payer opens the installed app again and again, and comes
\* to try each button that is offered again and again.
Fairness ==
  /\ WF_vars(TaskStep)
  /\ SF_vars(Boot(TRUE)) /\ SF_vars(AppCloses)
  /\ SF_vars(Back) /\ SF_vars(NewSlots)
  /\ SF_vars(TapRestore) /\ SF_vars(TapClose) /\ SF_vars(TapCreate)

FairSpec == Spec /\ Fairness
------------------------------------------------------------------------------
(* Properties *)

TypeOK ==
  /\ identity \in 0 .. MaxIdentities /\ identities \in 0 .. MaxIdentities
  /\ record \in [Identities -> Records]
  /\ marker \in BOOLEAN
  /\ account \in [Identities -> Accounts] /\ accounts \in Accounts
  /\ page \in [screen : Screens, me : 0 .. MaxIdentities, mem : Records]
  /\ job \in [task : Tasks, step : Steps]
  /\ lost \subseteq Accounts /\ signed \subseteq Accounts
  /\ faults \in 0 .. MaxFaults

\* Once the ledger of an account is lost nothing is ever signed against it
\* again: the app cannot know which of its values are spent (T4).
NeverSignsAfterLoss ==
  [][\A a \in signed' \ signed : a \notin lost]_vars

\* A payer who has once finished setting up can always get the deposit back,
\* over lost ledgers, crashes and failed calls (REV-16, D26).
DepositComesBack ==
  \A a \in Accounts \ {0} :
    (marker /\ identity # 0 /\ account[identity] = a)
      ~> (\A i \in Identities : account[i] # a)

CanPay == /\ identity # 0 /\ record[identity].state = "unspent"
          /\ record[identity].value # 0
          /\ record[identity].value = account[identity]

\* The ledger of a closed pool is lost: no account is left to recover it from.
NothingLeft ==
  identity # 0 /\ record[identity] = NoRecord /\ account[identity] = 0

\* A pool nothing can be paid from: closed or recovered, or closed by a call
\* that was interrupted before it recorded that.
DeadPool ==
  /\ identity # 0 /\ record[identity] # NoRecord
  /\ record[identity].state = "unknown" \/ account[identity] = 0

\* A dead pool is not a dead end: unless NothingLeft, the payer can pay again,
\* as long as the bounded number of accounts lasts (main.ts, home: "without this
\* the payer would sit on a dead pool").
PaysAgain ==
  (marker /\ DeadPool /\ accounts + (MaxFaults - faults) < MaxAccounts)
    ~> (CanPay \/ NothingLeft)

\* "It is now a state the payer can actually leave" (30-THREAT-MODEL, T4).
RecoveryIsLeft == page.screen = "recovery" ~> page.screen = "home"
==============================================================================
