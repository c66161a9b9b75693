---------------------------- MODULE PayerAppProofs ----------------------------
(***************************************************************************)
(* Type correctness of PayerApp and the property its recovery screens are  *)
(* about: once the ledger of an account is lost, nothing is signed against *)
(* it again.  For every number of identities, accounts and faults, and     *)
(* whatever the browser deletes, in the middle of whichever task.          *)
(***************************************************************************)
EXTENDS PayerApp, TLAPS

\* A running page has an identity, which the store may have lost meanwhile.
PageShape ==
  IF page.screen = "app closed" THEN page = AppClosed /\ job = NoJob
  ELSE me \in Identities /\ identity \in {0, me}

\* Setting up starts without a ledger in the store that the page does not know,
\* so an account that is being created cannot be one whose ledger is lost.
SetupInv ==
  /\ page.screen = "onboarding" => page.mem # NoRecord \/ record[me] = NoRecord
  /\ job.task = "create" => page.screen = "onboarding"
  /\ Calls("create") => accounts < MaxAccounts
  /\ job = [task |-> "create", step |-> "sent"] => account[me] \notin lost

\* Accounts are numbered as they are created: an identity's ledgers never name
\* another identity's account.
AccountsInv ==
  /\ \A a \in lost : a # 0 /\ a <= accounts
  /\ page.mem.value <= accounts
  /\ \A i \in Identities : account[i] <= accounts /\ record[i].value <= accounts
  /\ \A i, j \in Identities :
       (i # j /\ account[i] # 0) =>
         /\ account[i] # account[j] /\ account[i] # record[j].value
         /\ me = j => account[i] # page.mem.value

\* A ledger payments are made from belongs to an account that has lost none.
Trusted(i, ledger) ==
  /\ ledger.state = "missing" => ledger = NoRecord
  /\ ledger.state \in {"unspent", "spent"} =>
       ledger.value \notin lost /\ account[i] \notin lost

LossInv ==
  /\ \A i \in Identities : Trusted(i, record[i])
  /\ Trusted(me, page.mem)
  /\ (job.task = "sign" /\ job.step = "write") => page.mem.state = "spent"

IInv == TypeOK /\ PageShape /\ SetupInv /\ AccountsInv /\ LossInv
------------------------------------------------------------------------------
(* Frames: what the kinds of steps leave alone *)

LEMMA Numbers ==
  ASSUME TypeOK
  PROVE  /\ MaxIdentities \in Nat /\ MaxAccounts \in Nat /\ MaxFaults \in Nat
         /\ identity \in Nat /\ identities \in Nat /\ accounts \in Nat /\ faults \in Nat
         /\ \A i \in Identities : i \in Nat /\ i # 0 /\ account[i] \in Nat /\ record[i].value \in Nat
         /\ page.mem.value \in Nat
         /\ \A a \in lost : a \in Nat
         /\ 0 <= accounts
<1>1. accounts \in 0 .. MaxAccounts /\ MaxAccounts \in Nat
  BY BoundAssumption DEF TypeOK, Accounts
<1> QED BY <1>1, BoundAssumption DEF TypeOK, Identities, Accounts, Records

LEMMA NoRecordType == NoRecord \in Records /\ NoRecord.state = "missing" /\ NoRecord.value = 0
BY BoundAssumption DEF NoRecord, Records, Accounts

LEMMA StartType ==
  /\ AppClosed \in [screen : Screens, me : 0 .. MaxIdentities, mem : Records]
  /\ AppClosed.screen = "app closed" /\ AppClosed.me = 0 /\ AppClosed.mem = NoRecord
  /\ NoJob \in [task : Tasks, step : Steps]
  /\ NoJob.task = "none" /\ NoJob.step = "call"
<1>1. MaxIdentities \in Nat
  BY BoundAssumption
<1>2. 0 \in 0 .. MaxIdentities
  BY <1>1
<1> QED BY <1>2, NoRecordType DEF AppClosed, NoJob, Screens, Tasks, Steps

\* Where a job is not.
LEMMA NotThere ==
  ASSUME NEW k, NEW task, NEW step, k.task # task \/ k.step # step
  PROVE  k # [task |-> task, step |-> step]
OBVIOUS

\* A step of the screens: the store, the chain and the history are as they were.
LEMMA ScreenStep ==
  ASSUME IInv, TypeOK', PageShape', SetupInv',
         record' = record, UNCHANGED <<chainVars, historyVars>>,
         \/ me' = me /\ page'.mem = page.mem
         \/ me' \in Identities /\ page'.mem = record[me']
         \/ page'.mem = NoRecord,
         job'.task # "sign" \/ job'.step # "write"
  PROVE  IInv'
<1>1. AccountsInv'
  BY NoRecordType, Numbers DEF IInv, AccountsInv, chainVars, historyVars, me
<1>2. LossInv'
  BY NoRecordType, Numbers DEF IInv, LossInv, Trusted, chainVars, historyVars, me
<1> QED BY <1>1, <1>2 DEF IInv

\* A step of a task: it may change the ledger the page remembers.
LEMMA TaskFrame ==
  ASSUME IInv, TypeOK', PageShape', SetupInv', me' = me, me \in Identities,
         record' = record, UNCHANGED <<chainVars, historyVars>>,
         Trusted(me, page'.mem),
         page'.mem.value \in {0, page.mem.value, record[me].value, account[me]},
         (job'.task = "sign" /\ job'.step = "write") => page'.mem.state = "spent"
  PROVE  IInv'
<1>1. AccountsInv'
  BY Numbers DEF IInv, AccountsInv, chainVars, historyVars, me
<1>2. LossInv'
  BY Numbers DEF IInv, LossInv, Trusted, chainVars, historyVars, me
<1> QED BY <1>1, <1>2 DEF IInv

\* A page that is busy, or shows a screen, has an identity.
LEMMA PageRuns ==
  ASSUME IInv, job # NoJob \/ page.screen # "app closed"
  PROVE  /\ me \in Identities /\ me # 0 /\ page.screen # "app closed"
         /\ identity \in {0, me} /\ page.mem \in Records /\ record[me] \in Records
         /\ Loaded \in Records /\ Trusted(me, page.mem) /\ Trusted(me, Loaded)
         /\ Loaded.value \in {page.mem.value, record[me].value}
BY Numbers DEF IInv, PageShape, TypeOK, LossInv, Loaded

LEMMA TaskType ==
  ASSUME IInv, NEW ledger \in Records, Persist(ledger), page.screen # "app closed"
  PROVE  /\ page' \in [screen : Screens, me : 0 .. MaxIdentities, mem : Records]
         /\ job' \in [task : Tasks, step : Steps]
         /\ page'.mem = ledger /\ page'.screen = page.screen /\ page'.me = me
         /\ job'.task = job.task /\ job'.step = "write"
BY DEF IInv, TypeOK, Persist, Steps, me

LEMMA EndsType ==
  ASSUME IInv, NEW screen \in Screens, Ends(screen)
  PROVE  /\ page' \in [screen : Screens, me : 0 .. MaxIdentities, mem : Records]
         /\ job' \in [task : Tasks, step : Steps] /\ job' = NoJob
         /\ page'.mem = page.mem /\ page'.screen = screen /\ page'.me = me
         /\ job'.task = "none" /\ job'.step = "call"
BY DEF IInv, TypeOK, Ends, NoJob, Tasks, Steps, me

\* A task ends on another screen, and remembers what it remembered.
LEMMA EndsKeeps ==
  ASSUME IInv, NEW screen \in Screens \ {"app closed", "onboarding"}, Ends(screen),
         job # NoJob, UNCHANGED <<storageVars, chainVars, historyVars>>,
         faults' \in 0 .. MaxFaults
  PROVE  IInv'
<1>1. TypeOK'
  BY EndsType DEF IInv, TypeOK, storageVars, chainVars, historyVars
<1>2. PageShape'
  BY EndsType, PageRuns DEF PageShape, storageVars, me
<1>3. SetupInv'
  <2>1. job'.task = "none" /\ page'.screen = screen
    BY EndsType
  <2>2. ~Calls("create")' /\ job' # [task |-> "create", step |-> "sent"]
    BY <2>1, NotThere DEF Calls
  <2> QED BY <2>1, <2>2 DEF SetupInv
<1>4. /\ me' = me /\ page'.mem = page.mem /\ job'.task = "none" /\ record' = record
  BY EndsType DEF storageVars, me
<1> QED BY <1>1, <1>2, <1>3, <1>4, ScreenStep

\* A task persists a ledger: the cache is the new ledger already.
LEMMA PersistKeeps ==
  ASSUME IInv, NEW ledger \in Records, Persist(ledger),
         job # NoJob, UNCHANGED <<storageVars, chainVars, historyVars, faults>>,
         job.task = "create" => ledger # NoRecord,
         ledger = NoRecord => page.mem = NoRecord,
         Trusted(me, ledger),
         ledger.value \in {0, page.mem.value, record[me].value, account[me]},
         job.task = "sign" => ledger.state = "spent"
  PROVE  IInv'
<1>0. /\ page' \in [screen : Screens, me : 0 .. MaxIdentities, mem : Records]
      /\ job' \in [task : Tasks, step : Steps]
      /\ page'.mem = ledger /\ page'.screen = page.screen /\ page'.me = me
      /\ job'.task = job.task /\ job'.step = "write"
      /\ page.screen # "app closed" /\ me \in Identities /\ identity \in {0, me}
  BY TaskType, PageRuns
<1>1. TypeOK'
  BY <1>0 DEF IInv, TypeOK, storageVars, chainVars, historyVars
<1>2. PageShape'
  BY <1>0 DEF PageShape, storageVars, me
<1>3. SetupInv'
  <2>1. ~Calls("create")' /\ job' # [task |-> "create", step |-> "sent"]
    BY <1>0, NotThere DEF Calls
  <2>2. record' = record /\ me' = me
    BY <1>0 DEF storageVars, me
  <2> QED BY <1>0, <2>1, <2>2 DEF IInv, SetupInv
<1> QED BY <1>0, <1>1, <1>2, <1>3, TaskFrame DEF storageVars, me
------------------------------------------------------------------------------
(* The screens *)

LEMMA Boots ==
  ASSUME IInv, NEW standalone \in BOOLEAN, Boot(standalone)
  PROVE  IInv'
<1>1. PICK i, screen :
        /\ i = IF identity # 0 THEN identity ELSE identities + 1
        /\ screen = FirstScreen(standalone, Ledger(i))
  OBVIOUS
<1>2. /\ page.screen = "app closed" /\ i \in Identities /\ identity' = i
      /\ identities' = IF identity # 0 THEN identities ELSE i
      /\ page' = [screen |-> screen, me |-> i,
                  mem |-> IF screen = "home" THEN record[i] ELSE NoRecord]
      /\ UNCHANGED <<record, marker, chainVars, job, historyVars, faults>>
  BY <1>1 DEF Boot
<1>3. screen \in Screens /\ screen # "app closed"
  BY <1>1 DEF FirstScreen, Screens
<1>4. job = NoJob
  BY <1>2 DEF IInv, PageShape
<1>5. i \in 0 .. MaxIdentities /\ record[i] \in Records
  <2>1. record[i] \in Records
    BY <1>2 DEF IInv, TypeOK
  <2>2. i \in 1 .. MaxIdentities
    BY <1>2 DEF Identities
  <2> QED BY <2>1, <2>2
<1>6. TypeOK'
  BY <1>2, <1>3, <1>5, NoRecordType DEF IInv, TypeOK, chainVars, historyVars
<1>7. PageShape'
  BY <1>2, <1>3 DEF PageShape, me
<1>8. SetupInv'
  <2>1. screen = "onboarding" => record[i] = NoRecord
    BY <1>1 DEF FirstScreen, Ledger, AssessLedger
  <2>2. job'.task = "none"
    BY <1>2, <1>4 DEF NoJob
  <2>3. ~Calls("create")' /\ job' # [task |-> "create", step |-> "sent"]
    BY <2>2, NotThere DEF Calls
  <2> QED BY <1>2, <2>1, <2>2, <2>3 DEF SetupInv, me
<1>9. /\ \/ me' \in Identities /\ page'.mem = record[me']
         \/ page'.mem = NoRecord
      /\ job'.task # "sign"
  BY <1>2, <1>4 DEF NoJob, me
<1> QED BY <1>2, <1>6, <1>7, <1>8, <1>9, ScreenStep

\* Buttons.
LEMMA Taps ==
  ASSUME IInv, TapRestore \/ TapClose \/ TapCreate \/ TapPay \/ TapReturn
  PROVE  IInv'
<1>1. PICK task \in {"refresh", "close", "create", "sign", "return"} :
        /\ Tap(task) /\ page.screen # "app closed"
        /\ task = "create" => page.screen = "onboarding" /\ accounts < MaxAccounts
  BY DEF TapRestore, TapClose, TapCreate, TapPay, TapReturn
<1>2. /\ job' = [task |-> task, step |-> "call"] /\ page' = page
      /\ UNCHANGED <<storageVars, chainVars, historyVars, faults>>
  BY <1>1 DEF Tap, Starts
<1>3. job' \in [task : Tasks, step : Steps] /\ job'.task = task /\ job'.step = "call"
  BY <1>1, <1>2 DEF Tasks, Steps
<1>4. TypeOK'
  BY <1>2, <1>3 DEF IInv, TypeOK, storageVars, chainVars, historyVars
<1>5. PageShape'
  BY <1>1, <1>2 DEF IInv, PageShape, storageVars, me
<1>6. SetupInv'
  <2>1. job' # [task |-> "create", step |-> "sent"]
    BY <1>3, NotThere
  <2>2. Calls("create")' => task = "create"
    BY <1>3, NotThere DEF Calls
  <2> QED BY <1>1, <1>2, <1>3, <2>1, <2>2 DEF IInv, SetupInv, storageVars, chainVars, me
<1> QED BY <1>2, <1>3, <1>4, <1>5, <1>6, ScreenStep DEF storageVars, me

LEMMA Leaves ==
  ASSUME IInv, Back \/ NewSlots
  PROVE  IInv'
<1>1. /\ job = NoJob /\ page.screen # "app closed"
      /\ UNCHANGED <<storageVars, chainVars, job, historyVars, faults>>
  BY DEF Back, NewSlots
<1>2. /\ page' \in [screen : Screens, me : 0 .. MaxIdentities, mem : Records]
      /\ page'.me = me /\ page'.screen # "app closed"
      /\ page'.mem \in {page.mem, record[me]}
      /\ page'.screen = "onboarding" => page'.mem # NoRecord
  <2>1. CASE Back
    <3>1. page' = Home /\ page.screen # "onboarding"
      BY <2>1 DEF Back
    <3>2. page \in [screen : Screens, me : 0 .. MaxIdentities, mem : Records]
      BY DEF IInv, TypeOK
    <3>3. CASE Loaded = NoRecord
      BY <1>1, <3>1, <3>2, <3>3 DEF Home, me
    <3>4. CASE Loaded # NoRecord
      <4>1. page' = [page EXCEPT !.screen = "home", !.mem = Loaded]
        BY <3>1, <3>4 DEF Home
      <4>2. Loaded \in Records /\ Loaded \in {page.mem, record[me]}
        BY <1>1, PageRuns DEF Loaded
      <4> QED BY <3>2, <4>1, <4>2 DEF Screens, me
    <3> QED BY <3>3, <3>4
  <2>2. CASE NewSlots
    BY <2>2, NoRecordType DEF NewSlots, IInv, TypeOK, Screens, me
  <2> QED BY <2>1, <2>2
<1>3. me \in Identities /\ identity \in {0, me}
  BY <1>1, PageRuns
<1>4. TypeOK'
  BY <1>1, <1>2 DEF IInv, TypeOK, storageVars, chainVars, historyVars
<1>5. PageShape'
  BY <1>1, <1>2, <1>3 DEF PageShape, storageVars, me
<1>6. job'.task = "none"
  BY <1>1 DEF NoJob
<1>7. SetupInv'
  <2>1. ~Calls("create")' /\ job' # [task |-> "create", step |-> "sent"]
    BY <1>6, NotThere DEF Calls
  <2> QED BY <1>2, <1>6, <2>1 DEF SetupInv
<1>8. /\ \/ me' = me /\ page'.mem = page.mem
         \/ me' \in Identities /\ page'.mem = record[me']
      /\ record' = record
  BY <1>1, <1>2, <1>3 DEF storageVars, me
<1> QED BY <1>1, <1>4, <1>5, <1>6, <1>7, <1>8, ScreenStep
------------------------------------------------------------------------------
(* The tasks *)

LEMMA Busy ==
  ASSUME NEW task \in Tasks \ {"none"}, Calls(task)
  PROVE  job # NoJob /\ job.task = task /\ job.step = "call"
BY DEF Calls, NoJob

\* No payment is made from an unknown slot.
LEMMA UnknownIsTrusted ==
  ASSUME NEW value \in Accounts
  PROVE  /\ UnknownSlot(value) \in Records /\ UnknownSlot(value) # NoRecord
         /\ UnknownSlot(value).value = value /\ Trusted(me, UnknownSlot(value))
BY NoRecordType DEF UnknownSlot, Records, Trusted

\* Calls that read the ledger, and perhaps the chain, and persist what they make of it.
LEMMA Reads ==
  ASSUME IInv, Refresh \/ Reconcile \/ Recover \/ Sign \/ ApplyReturn
  PROVE  IInv'
<1>0. UNCHANGED <<storageVars, chainVars, historyVars, faults>>
  BY DEF Refresh, Reconcile, Recover, Sign, ApplyReturn
<1>1. PICK task \in {"refresh", "first refresh", "reconcile", "recover", "sign", "return"} :
        Calls(task)
  BY DEF Refresh, Reconcile, Recover, Sign, ApplyReturn
<1>2. job # NoJob /\ job.task = task /\ job.step = "call"
  BY <1>1, Busy DEF Tasks
<1>3. /\ me \in Identities /\ page.screen # "app closed" /\ page.mem \in Records
      /\ Loaded \in Records /\ Trusted(me, page.mem) /\ Trusted(me, Loaded)
      /\ Loaded.value \in {page.mem.value, record[me].value} /\ account[me] \in Accounts
  BY <1>2, PageRuns DEF IInv, TypeOK
<1>4. faults' \in 0 .. MaxFaults
  BY <1>0 DEF IInv, TypeOK
<1>5. Loaded = NoRecord => page.mem = NoRecord
  BY DEF Loaded
<1>6. CASE Refresh
  <2>1. job.task # "sign" /\ job.task # "create"
    <3>1. PICK reread \in {"refresh", "first refresh"} : Calls(reread)
      BY <1>6 DEF Refresh
    <3>2. job.task = reread
      BY <3>1, Busy DEF Tasks
    <3> QED BY <3>2
  <2>2. CASE Loaded = NoRecord
    <3>1. job' = [task |-> "recover", step |-> "call"] /\ page' = page
      BY <1>6, <2>2 DEF Refresh, Starts
    <3>2. /\ job'.task = "recover" /\ job'.step = "call"
          /\ job' \in [task : Tasks, step : Steps]
      BY <3>1 DEF Tasks, Steps
    <3>3. TypeOK'
      BY <1>0, <3>1, <3>2 DEF IInv, TypeOK, storageVars, chainVars, historyVars
    <3>4. PageShape'
      BY <1>0, <1>3, <3>1 DEF IInv, PageShape, storageVars, me
    <3>5. SetupInv'
      <4>1. ~Calls("create")' /\ job' # [task |-> "create", step |-> "sent"]
        BY <3>2, NotThere DEF Calls
      <4> QED BY <1>0, <3>1, <3>2, <4>1 DEF IInv, SetupInv, storageVars, me
    <3> QED BY <1>0, <3>1, <3>2, <3>3, <3>4, <3>5, ScreenStep DEF storageVars, me
  <2>3. CASE Loaded # NoRecord
    <3>1. PICK ledger : ledger = [Loaded EXCEPT !.value = account[me]]
      OBVIOUS
    <3>2. /\ ledger \in Records /\ ledger.value = account[me]
          /\ ledger.state = Loaded.state
      BY <1>3, <3>1 DEF Records
    <3>3. Trusted(me, ledger)
      BY <1>3, <2>3, <3>2 DEF Trusted
    <3>4. Persist(ledger)
      BY <1>6, <2>3, <3>1 DEF Refresh
    <3>5. ledger # NoRecord
      BY <1>3, <2>3, <3>2, NoRecordType DEF Trusted
    <3> QED BY <1>0, <1>2, <2>1, <3>2, <3>3, <3>4, <3>5, PersistKeeps
  <2> QED BY <2>2, <2>3
<1>7. CASE Reconcile
  <2>1. PICK ledger \in {page.mem, [page.mem EXCEPT !.state = "unspent"]} :
          /\ ledger # page.mem => page.mem.state = "spent"
          /\ Persist(IF page.mem.state = "spent" /\ account[me] = 0
                     THEN UnknownSlot(0) ELSE ledger)
    BY <1>7 DEF Reconcile
  <2>2. job.task = "reconcile"
    BY <1>7, Busy DEF Reconcile, Tasks
  <2>3. CASE page.mem.state = "spent" /\ account[me] = 0
    <3>1. 0 \in Accounts
      BY NoRecordType DEF Records
    <3>2. Persist(UnknownSlot(0))
      BY <2>1, <2>3
    <3> QED BY <1>0, <1>2, <2>2, <3>1, <3>2, UnknownIsTrusted, PersistKeeps
  <2>4. CASE ~(page.mem.state = "spent" /\ account[me] = 0)
    <3>1. /\ ledger \in Records /\ ledger.value = page.mem.value
          /\ ledger = NoRecord => page.mem = NoRecord
          /\ Trusted(me, ledger)
      BY <1>3, <2>1, NoRecordType DEF Records, Trusted
    <3>2. Persist(ledger)
      BY <2>1, <2>4
    <3> QED BY <1>0, <1>2, <2>2, <3>1, <3>2, PersistKeeps
  <2> QED BY <2>3, <2>4
<1>8. CASE Recover
  <2>1. job.task = "recover"
    BY <1>8, Busy DEF Recover, Tasks
  <2>2. CASE account[me] = 0
    BY <1>0, <1>2, <1>4, <1>8, <2>2, EndsKeeps DEF Recover, Screens
  <2>3. CASE account[me] # 0
    <3>1. Persist(UnknownSlot(account[me]))
      BY <1>8, <2>3 DEF Recover, Recovered
    <3> QED BY <1>0, <1>2, <1>3, <2>1, <3>1, UnknownIsTrusted, PersistKeeps
  <2> QED BY <2>2, <2>3
<1>9. CASE Sign
  <2>1. job.task = "sign"
    BY <1>9, Busy DEF Sign, Tasks
  <2>2. CASE \E screen \in {"recovery", "failed"} : Ends(screen)
    BY <1>0, <1>2, <1>4, <2>2, EndsKeeps DEF Screens
  <2>3. CASE Loaded.state = "unspent" /\ Persist([Loaded EXCEPT !.state = "spent"])
    <3>1. PICK ledger : ledger = [Loaded EXCEPT !.state = "spent"]
      OBVIOUS
    <3>2. /\ ledger \in Records /\ ledger.value = Loaded.value /\ ledger.state = "spent"
          /\ ledger # NoRecord
      BY <1>3, <3>1, NoRecordType DEF Records
    <3>3. Trusted(me, ledger)
      BY <1>3, <2>3, <3>2 DEF Trusted
    <3> QED BY <1>0, <1>2, <1>3, <2>1, <2>3, <3>1, <3>2, <3>3, PersistKeeps
  <2> QED BY <1>9, <2>2, <2>3 DEF Sign
<1>10. CASE ApplyReturn
  <2>1. job.task = "return"
    BY <1>10, Busy DEF ApplyReturn, Tasks
  <2>2. CASE Ends("failed")
    BY <1>0, <1>2, <1>4, <2>2, EndsKeeps DEF Screens
  <2>3. CASE Loaded.state = "spent" /\ Persist([Loaded EXCEPT !.state = "unspent"])
    <3>1. PICK ledger : ledger = [Loaded EXCEPT !.state = "unspent"]
      OBVIOUS
    <3>2. /\ ledger \in Records /\ ledger.value = Loaded.value /\ ledger.state = "unspent"
          /\ ledger # NoRecord
      BY <1>3, <3>1, NoRecordType DEF Records
    <3>3. Trusted(me, ledger)
      BY <1>3, <2>3, <3>2 DEF Trusted
    <3> QED BY <1>0, <1>2, <1>3, <2>1, <2>3, <3>1, <3>2, <3>3, PersistKeeps
  <2> QED BY <1>10, <2>2, <2>3 DEF ApplyReturn
<1> QED BY <1>6, <1>7, <1>8, <1>9, <1>10

LEMMA Creates ==
  ASSUME IInv, CreateSends
  PROVE  IInv'
<1>1. job # NoJob /\ job.task = "create" /\ job.step = "call" /\ Calls("create")
  BY Busy DEF CreateSends, Tasks
<1>2. /\ me \in Identities /\ page.screen = "onboarding" /\ identity \in {0, me}
      /\ accounts < MaxAccounts
  BY <1>1, PageRuns DEF IInv, SetupInv
<1>3. CASE account[me] # 0
  <2>1. Ends("failed") /\ UNCHANGED <<storageVars, chainVars, historyVars>>
    BY <1>3 DEF CreateSends
  <2>2. faults' \in 0 .. MaxFaults
    BY DEF CreateSends, IInv, TypeOK
  <2> QED BY <1>1, <2>1, <2>2, EndsKeeps DEF Screens
<1>4. CASE account[me] = 0
  <2>1. /\ accounts' = accounts + 1 /\ account' = [account EXCEPT ![me] = accounts + 1]
        /\ job' = [job EXCEPT !.step = "sent"] /\ page' = page
        /\ UNCHANGED <<storageVars, historyVars, faults>>
    BY <1>4 DEF CreateSends
  <2>2. accounts \in Nat /\ MaxAccounts \in Nat
    BY Numbers DEF IInv
  <2>3. accounts + 1 \in Accounts
    BY <1>2, <2>2 DEF Accounts
  <2>4. job' \in [task : Tasks, step : Steps] /\ job'.task = "create" /\ job'.step = "sent"
    BY <1>1, <2>1 DEF IInv, TypeOK, Steps
  <2>5. TypeOK'
    BY <1>2, <2>1, <2>3, <2>4 DEF IInv, TypeOK, storageVars, historyVars
  <2>6. PageShape'
    BY <1>2, <2>1 DEF PageShape, storageVars, me
  <2>7. account' \in [Identities -> Accounts] /\ account'[me] = accounts + 1
        /\ \A i \in Identities : i # me => account'[i] = account[i]
    BY <1>2, <2>1, <2>5 DEF IInv, TypeOK
  <2>8. \A a \in lost : a # accounts + 1
    BY <2>2, Numbers DEF IInv, AccountsInv
  <2>9. SetupInv'
    <3>1. ~Calls("create")'
      BY <2>4, NotThere DEF Calls
    <3>2. account'[me] \notin lost
      BY <2>7, <2>8
    <3> QED BY <1>2, <2>1, <3>1, <3>2 DEF IInv, SetupInv, storageVars, historyVars, me
  <2>10. AccountsInv'
    <3>1. \A i \in Identities : account[i] \in Nat /\ record[i].value \in Nat
      BY Numbers DEF IInv
    <3>2. page.mem.value \in Nat /\ \A a \in lost : a \in Nat
      BY Numbers DEF IInv
    <3>3. \A i \in Identities : account'[i] <= accounts + 1 /\ record[i].value <= accounts + 1
      BY <2>2, <2>7, <3>1 DEF IInv, AccountsInv
    <3>4. page.mem.value <= accounts + 1 /\ \A a \in lost : a # 0 /\ a <= accounts + 1
      BY <2>2, <3>2 DEF IInv, AccountsInv
    <3>5. ASSUME NEW i \in Identities, NEW j \in Identities, i # j, account'[i] # 0
          PROVE  /\ account'[i] # account'[j] /\ account'[i] # record[j].value
                 /\ me = j => account'[i] # page.mem.value
      <4>1. CASE i = me
        BY <2>2, <2>7, <3>1, <3>2, <3>5, <4>1 DEF IInv, AccountsInv
      <4>2. CASE i # me
        BY <2>2, <2>7, <3>1, <3>2, <3>5, <4>2 DEF IInv, AccountsInv
      <4> QED BY <4>1, <4>2
    <3> QED BY <2>1, <3>3, <3>4, <3>5 DEF AccountsInv, storageVars, historyVars, me
  <2>11. LossInv'
    <3>1. ASSUME NEW i \in Identities, NEW ledger, Trusted(i, ledger)
          PROVE  Trusted(i, ledger)'
      BY <2>1, <2>7, <2>8, <3>1 DEF Trusted, historyVars
    <3> QED BY <1>2, <2>1, <2>4, <3>1 DEF IInv, LossInv, Trusted, storageVars, historyVars, me
  <2> QED BY <2>5, <2>6, <2>9, <2>10, <2>11 DEF IInv
<1> QED BY <1>3, <1>4

LEMMA Closes ==
  ASSUME IInv, CloseSends
  PROVE  IInv'
<1>1. job # NoJob /\ job.task = "close" /\ job.step = "call"
  BY Busy DEF CloseSends, Tasks
<1>2. /\ me \in Identities /\ page.screen # "app closed" /\ identity \in {0, me}
      /\ Loaded \in Records /\ Trusted(me, Loaded)
      /\ Loaded.value \in {page.mem.value, record[me].value}
  BY <1>1, PageRuns
<1>3. /\ account' = [account EXCEPT ![me] = 0]
      /\ page' = [page EXCEPT !.mem = Loaded] /\ job' = [job EXCEPT !.step = "sent"]
      /\ UNCHANGED <<accounts, storageVars, historyVars, faults>>
  BY DEF CloseSends
<1>4. /\ job' \in [task : Tasks, step : Steps] /\ job'.task = "close" /\ job'.step = "sent"
      /\ page' \in [screen : Screens, me : 0 .. MaxIdentities, mem : Records]
      /\ page'.mem = Loaded /\ page'.me = me /\ page'.screen = page.screen
  BY <1>1, <1>2, <1>3 DEF IInv, TypeOK, Steps, me
<1>5. /\ account' \in [Identities -> Accounts] /\ account'[me] = 0
      /\ \A i \in Identities : i # me => account'[i] = account[i]
  <2>1. 0 \in Accounts
    BY NoRecordType DEF Records
  <2> QED BY <1>2, <1>3, <2>1 DEF IInv, TypeOK
<1>6. TypeOK'
  BY <1>3, <1>4, <1>5 DEF IInv, TypeOK, storageVars, historyVars
<1>7. PageShape'
  BY <1>2, <1>3, <1>4 DEF PageShape, storageVars, me
<1>8. SetupInv'
  <2>1. ~Calls("create")' /\ job' # [task |-> "create", step |-> "sent"]
    BY <1>4, NotThere DEF Calls
  <2>2. page.screen = "onboarding" => Loaded # NoRecord \/ record[me] = NoRecord
    BY DEF Loaded
  <2> QED BY <1>3, <1>4, <2>1, <2>2 DEF SetupInv, storageVars, me
<1>9. AccountsInv'
  <2>1. /\ \A i \in Identities : account[i] \in Nat /\ record[i].value \in Nat
        /\ page.mem.value \in Nat /\ accounts \in Nat
    BY Numbers DEF IInv
  <2>2. \A i \in Identities : account'[i] <= accounts
    BY <1>5, <2>1 DEF IInv, AccountsInv
  <2>3. Loaded.value <= accounts
    BY <1>2 DEF IInv, AccountsInv
  <2>4. ASSUME NEW i \in Identities, NEW j \in Identities, i # j, account'[i] # 0
        PROVE  /\ account'[i] # account'[j] /\ account'[i] # record[j].value
               /\ me = j => account'[i] # Loaded.value
    <3>1. i # me /\ account'[i] = account[i]
      BY <1>5, <2>4
    <3> QED BY <1>2, <1>5, <2>4, <3>1 DEF IInv, AccountsInv
  <2> QED BY <1>3, <1>4, <2>2, <2>3, <2>4 DEF IInv, AccountsInv, storageVars, historyVars, me
<1>10. LossInv'
  <2>1. 0 \notin lost
    BY DEF IInv, AccountsInv
  <2>2. ASSUME NEW i \in Identities, NEW ledger, Trusted(i, ledger)
        PROVE  Trusted(i, ledger)'
    BY <1>3, <1>5, <2>1, <2>2 DEF Trusted, historyVars
  <2> QED BY <1>2, <1>3, <1>4, <2>2 DEF IInv, LossInv, Trusted, storageVars, historyVars, me
<1> QED BY <1>6, <1>7, <1>8, <1>9, <1>10 DEF IInv

\* The transaction is confirmed: create and close persist what they made.
LEMMA Confirmed ==
  ASSUME IInv, CreateFinishes \/ CloseFinishes
  PROVE  IInv'
<1>0. UNCHANGED <<storageVars, chainVars, historyVars, faults>>
  BY DEF CreateFinishes, CloseFinishes
<1>2. 0 \in Accounts
  BY NoRecordType DEF Records
<1>3. 0 \notin lost
  BY DEF IInv, AccountsInv
<1>4. CASE CreateFinishes
  <2>1. PICK ledger : ledger = [state |-> "unspent", value |-> 0]
    OBVIOUS
  <2>2. /\ ledger \in Records /\ ledger.state = "unspent" /\ ledger.value = 0
        /\ ledger # NoRecord
    BY <1>2, <2>1, NoRecordType DEF Records
  <2>3. Persist(ledger) /\ job = [task |-> "create", step |-> "sent"]
    BY <1>4, <2>1 DEF CreateFinishes
  <2>4. job # NoJob /\ job.task = "create"
    BY <2>3 DEF NoJob
  <2>5. Trusted(me, ledger)
    BY <1>3, <2>2, <2>3 DEF IInv, SetupInv, Trusted
  <2> QED BY <1>0, <2>2, <2>3, <2>4, <2>5, PersistKeeps
<1>5. CASE CloseFinishes
  <2>1. Persist(UnknownSlot(0)) /\ job = [task |-> "close", step |-> "sent"]
    BY <1>5 DEF CloseFinishes
  <2>2. job # NoJob /\ job.task = "close"
    BY <2>1 DEF NoJob
  <2> QED BY <1>0, <1>2, <2>1, <2>2, UnknownIsTrusted, PersistKeeps
<1> QED BY <1>4, <1>5

\* The write: the store holds what the page remembers, and the task goes on.
LEMMA Writes ==
  ASSUME IInv, WriteLands
  PROVE  IInv'
<1>1. job # NoJob /\ job.step = "write"
  BY StartType DEF WriteLands
<1>2. /\ me \in Identities /\ page.screen # "app closed" /\ identity \in {0, me}
      /\ page.mem \in Records /\ Trusted(me, page.mem)
  BY <1>1, PageRuns
<1>3. /\ record' = [record EXCEPT ![me] = page.mem]
      /\ marker' = (marker \/ job.task \in {"reconcile", "recover", "first refresh"})
      /\ signed' = IF job.task = "sign" THEN signed \cup {page.mem.value} ELSE signed
      /\ UNCHANGED <<identity, identities, chainVars, lost, faults>>
  BY DEF WriteLands
<1>4. /\ record' \in [Identities -> Records] /\ record'[me] = page.mem
      /\ \A i \in Identities : i # me => record'[i] = record[i]
  BY <1>2, <1>3 DEF IInv, TypeOK
<1>5. /\ page' \in [screen : Screens, me : 0 .. MaxIdentities, mem : Records]
      /\ page'.mem = page.mem /\ page'.me = me /\ page'.screen # "app closed"
      /\ page'.screen = "onboarding" => page' = page
      /\ job' \in [task : Tasks, step : Steps]
      /\ job'.task # "create" /\ job'.step = "call"
  <2>1. page \in [screen : Screens, me : 0 .. MaxIdentities, mem : Records]
    BY DEF IInv, TypeOK
  <2>2. CASE \E task \in {"reconcile", "first refresh"} : Starts(task) /\ UNCHANGED page
    <3>1. PICK task \in {"reconcile", "first refresh"} : Starts(task) /\ page' = page
      BY <2>2
    <3>2. job' = [task |-> task, step |-> "call"] /\ task \in Tasks /\ task # "create"
      BY <3>1 DEF Starts, Tasks
    <3>3. job' \in [task : Tasks, step : Steps] /\ job'.task # "create" /\ job'.step = "call"
      BY <3>2 DEF Steps
    <3> QED BY <1>2, <2>1, <3>1, <3>3 DEF me
  <2>3. CASE \E screen \in {"home", "recovered", "tokens", "closed", "payment"} : Ends(screen)
    <3>1. PICK screen \in {"home", "recovered", "tokens", "closed", "payment"} : Ends(screen)
      BY <2>3
    <3>2. screen \in Screens
      BY DEF Screens
    <3> QED BY <3>1, <3>2, EndsType
  <2> QED BY <2>2, <2>3 DEF WriteLands
<1>6. TypeOK'
  BY <1>2, <1>3, <1>4, <1>5 DEF IInv, TypeOK, chainVars, Records
<1>7. PageShape'
  BY <1>2, <1>3, <1>5 DEF PageShape, me
<1>8. SetupInv'
  <2>1. ~Calls("create")' /\ job' # [task |-> "create", step |-> "sent"]
    BY <1>5, NotThere DEF Calls
  <2>2. page'.screen = "onboarding" => page'.mem # NoRecord \/ record'[me] = NoRecord
    BY <1>4, <1>5
  <2> QED BY <1>5, <2>1, <2>2 DEF SetupInv, me
<1>9. AccountsInv'
  <2>1. /\ account' = account /\ accounts' = accounts /\ lost' = lost
        /\ me' = me /\ page'.mem = page.mem
    BY <1>3, <1>5 DEF chainVars, me
  <2>2. \A i \in Identities : record'[i].value <= accounts
    BY <1>2, <1>4 DEF IInv, AccountsInv
  <2>3. ASSUME NEW i \in Identities, NEW j \in Identities, i # j, account[i] # 0
        PROVE  account[i] # record'[j].value
    <3>1. CASE j = me
      BY <1>4, <2>3, <3>1 DEF IInv, AccountsInv
    <3>2. CASE j # me
      BY <1>4, <2>3, <3>2 DEF IInv, AccountsInv
    <3> QED BY <3>1, <3>2
  <2> QED BY <2>1, <2>2, <2>3 DEF IInv, AccountsInv
<1>10. LossInv'
  BY <1>2, <1>3, <1>4, <1>5 DEF IInv, LossInv, Trusted, chainVars, me
<1> QED BY <1>6, <1>7, <1>8, <1>9, <1>10 DEF IInv
------------------------------------------------------------------------------
(* What goes wrong *)

LEMMA FaultType ==
  ASSUME IInv, Fault
  PROVE  faults' \in 0 .. MaxFaults
<1>1. faults \in 0 .. MaxFaults /\ MaxFaults \in Nat
  BY BoundAssumption DEF IInv, TypeOK
<1> QED BY <1>1 DEF Fault

\* The last copy of a ledger goes: its account has lost its ledger, and no other
\* identity's ledger is about that account.
LEMMA Reloads ==
  ASSUME IInv, Reload, page.screen # "app closed", faults' \in 0 .. MaxFaults
  PROVE  IInv'
<1>1. /\ page' = AppClosed /\ job' = NoJob
      /\ UNCHANGED <<storageVars, chainVars, signed>>
      /\ lost' = IF page.mem = NoRecord \/ record[me] # NoRecord THEN lost
                 ELSE lost \cup ({account[me]} \ {0})
  BY DEF Reload, Forgets
<1>2. me \in Identities
  BY PageRuns
<1>3. lost' \subseteq Accounts
  BY <1>1, <1>2 DEF IInv, TypeOK
<1>4. /\ page' \in [screen : Screens, me : 0 .. MaxIdentities, mem : Records]
      /\ job' \in [task : Tasks, step : Steps]
      /\ page'.screen = "app closed" /\ page'.mem = NoRecord
      /\ job'.task = "none"
  BY <1>1, StartType
<1>5. TypeOK'
  BY <1>1, <1>3, <1>4 DEF IInv, TypeOK, storageVars, chainVars
<1>6. PageShape'
  BY <1>1, <1>4 DEF PageShape
<1>7. SetupInv'
  <2>1. ~Calls("create")' /\ job' # [task |-> "create", step |-> "sent"]
    BY <1>4, NotThere DEF Calls
  <2> QED BY <1>4, <2>1 DEF SetupInv
<1>8. AccountsInv'
  <2>1. \A a \in lost' : a # 0 /\ a <= accounts
    BY <1>1, <1>2 DEF IInv, AccountsInv
  <2>2. page'.mem.value = 0 /\ accounts \in Nat
    BY <1>4, NoRecordType, Numbers DEF IInv
  <2>3. 0 <= accounts
    BY Numbers DEF IInv
  <2> QED BY <1>1, <2>1, <2>2, <2>3 DEF IInv, AccountsInv, storageVars, chainVars, me
<1>9. LossInv'
  <2>1. Trusted(me, page.mem)'
    BY <1>4, NoRecordType DEF Trusted
  <2>2. ASSUME NEW i \in Identities PROVE Trusted(i, record[i])'
    <3>1. Trusted(i, record[i]) /\ record' = record /\ account' = account
      BY <1>1 DEF IInv, LossInv, storageVars, chainVars
    <3>2. CASE lost' = lost
      BY <3>1, <3>2 DEF Trusted
    <3>3. CASE lost' # lost
      <4>1. record[me] = NoRecord /\ lost' = lost \cup ({account[me]} \ {0})
        BY <1>1, <3>3
      <4>2. CASE i = me
        BY <3>1, <4>1, <4>2, NoRecordType DEF Trusted
      <4>3. CASE i # me
        <5>1. account[me] # 0 => account[me] # account[i] /\ account[me] # record[i].value
          BY <1>2, <4>3 DEF IInv, AccountsInv
        <5> QED BY <3>1, <4>1, <5>1 DEF Trusted
      <4> QED BY <4>2, <4>3
    <3> QED BY <3>2, <3>3
  <2> QED BY <1>4, <2>1, <2>2 DEF LossInv
<1> QED BY <1>5, <1>6, <1>7, <1>8, <1>9 DEF IInv

\* The browser deletes the ledger, or everything but the marker.  The page may
\* be in the middle of a task, and remembers the ledger if it has loaded it.
LEMMA Deletes ==
  ASSUME IInv, StorageLost
  PROVE  IInv'
<1>1. /\ identity # 0
      /\ record' = [record EXCEPT ![identity] = NoRecord]
      /\ identity' \in {0, identity}
      /\ UNCHANGED <<identities, marker, chainVars, page, job, signed>>
      /\ faults' \in 0 .. MaxFaults
  BY FaultType DEF StorageLost
<1>2. identity \in Identities
  BY <1>1, BoundAssumption DEF IInv, TypeOK, Identities
<1>3. /\ record' \in [Identities -> Records] /\ record'[identity] = NoRecord
      /\ \A i \in Identities : i # identity => record'[i] = record[i]
  BY <1>1, <1>2, NoRecordType DEF IInv, TypeOK
<1>4. IF page.screen = "app closed" THEN me = 0 /\ page.mem = NoRecord ELSE me = identity
  BY <1>1, StartType DEF IInv, PageShape, me
<1>5. lost' = IF record[identity] = NoRecord \/ page.mem # NoRecord THEN lost
              ELSE lost \cup ({account[identity]} \ {0})
  BY <1>1, <1>4 DEF StorageLost, Forgets
<1>6. TypeOK'
  <2>1. lost' \subseteq Accounts
    BY <1>2, <1>5 DEF IInv, TypeOK
  <2> QED BY <1>1, <1>3, <2>1, BoundAssumption DEF IInv, TypeOK, chainVars
<1>7. PageShape'
  BY <1>1 DEF IInv, PageShape, me
<1>8. SetupInv'
  <2>1. page.screen = "onboarding" => page.mem # NoRecord \/ record'[me] = NoRecord
    BY <1>3, <1>4 DEF IInv, SetupInv
  <2>2. ASSUME job = [task |-> "create", step |-> "sent"]
        PROVE  account[me] \notin lost'
    <3>1. page.screen = "onboarding" /\ account[me] \notin lost
      BY <2>2 DEF IInv, SetupInv
    <3>2. me = identity /\ lost' = lost
      BY <1>4, <1>5, <3>1 DEF IInv, SetupInv
    <3> QED BY <3>1, <3>2
  <2> QED BY <1>1, <2>1, <2>2 DEF IInv, SetupInv, Calls, chainVars, me
<1>9. AccountsInv'
  BY <1>1, <1>2, <1>3, <1>5, NoRecordType, Numbers DEF IInv, AccountsInv, chainVars, me
<1>10. LossInv'
  <2>1. ASSUME NEW i \in Identities PROVE Trusted(i, record[i])'
    <3>1. account' = account /\ Trusted(i, record[i])
      BY <1>1 DEF IInv, LossInv, chainVars
    <3>2. CASE i = identity
      BY <1>3, <3>2, NoRecordType DEF Trusted
    <3>3. CASE i # identity
      <4>1. /\ record'[i] = record[i]
            /\ account[identity] # 0 => /\ account[identity] # account[i]
                                        /\ account[identity] # record[i].value
        BY <1>2, <1>3, <3>3 DEF IInv, AccountsInv
      <4> QED BY <1>5, <3>1, <4>1 DEF Trusted
    <3> QED BY <3>2, <3>3
  <2>2. Trusted(me, page.mem)'
    <3>1. page' = page /\ account' = account /\ Trusted(me, page.mem)
      BY <1>1 DEF IInv, LossInv, chainVars
    <3>2. CASE page.mem = NoRecord
      BY <3>1, <3>2, NoRecordType DEF Trusted
    <3>3. CASE page.mem # NoRecord
      BY <1>5, <3>1, <3>3 DEF Trusted, me
    <3> QED BY <3>2, <3>3
  <2> QED BY <1>1, <2>1, <2>2 DEF IInv, LossInv
<1> QED BY <1>6, <1>7, <1>8, <1>9, <1>10 DEF IInv
------------------------------------------------------------------------------
(* The theorems *)

LEMMA IInit == Init => IInv
<1> SUFFICES ASSUME Init PROVE IInv
  OBVIOUS
<1>1. /\ \A i \in Identities : record[i] = NoRecord /\ account[i] = 0
      /\ page = AppClosed /\ page.mem = NoRecord /\ page.screen = "app closed" /\ page.me = 0
      /\ job = NoJob /\ job.task = "none"
      /\ identity = 0 /\ accounts = 0 /\ lost = {}
  BY StartType DEF Init
<1>2. TypeOK
  <2>1. 0 \in Accounts
    BY NoRecordType DEF Records
  <2>2. MaxIdentities \in Nat /\ MaxFaults \in Nat
    BY BoundAssumption
  <2>3. 0 \in 0 .. MaxIdentities /\ 0 \in 0 .. MaxFaults
    BY <2>2
  <2> QED BY <2>1, <2>3, NoRecordType, StartType DEF Init, TypeOK
<1>3. SetupInv
  <2>1. ~Calls("create") /\ job # [task |-> "create", step |-> "sent"]
    <3>1. job.task # "create"
      BY <1>1
    <3> QED BY <3>1, NotThere DEF Calls
  <2> QED BY <1>1, <2>1 DEF SetupInv
<1>4. AccountsInv
  <2>1. \A i \in Identities : record[i].value = 0
    BY <1>1, NoRecordType
  <2>2. page.mem.value = 0
    BY <1>1, NoRecordType
  <2>3. 0 <= accounts
    BY <1>2, Numbers
  <2> QED BY <1>1, <2>1, <2>2, <2>3 DEF AccountsInv
<1>5. LossInv
  BY <1>1, NoRecordType DEF LossInv, Trusted
<1> QED BY <1>1, <1>2, <1>3, <1>4, <1>5 DEF IInv, PageShape

LEMMA IStep ==
  ASSUME IInv, [Next]_vars
  PROVE  IInv'
<1>1. CASE TaskStep
  BY <1>1, Reads, Creates, Closes, Confirmed, Writes DEF TaskStep
<1>2. CASE Payer \/ Crash
  <2>1. CASE AppCloses \/ Crash
    <3>1. Reload /\ page.screen # "app closed"
      BY <2>1 DEF AppCloses, Crash
    <3>2. faults' \in 0 .. MaxFaults
      BY <2>1, FaultType DEF AppCloses, Crash, IInv, TypeOK
    <3> QED BY <3>1, <3>2, Reloads
  <2> QED BY <1>2, <2>1, Boots, Taps, Leaves DEF Payer
<1>3. CASE RpcFails
  <2>1. /\ Ends("failed") /\ UNCHANGED <<storageVars, chainVars, historyVars>>
        /\ job # NoJob /\ faults' \in 0 .. MaxFaults
    BY <1>3, FaultType, StartType DEF RpcFails, Fails
  <2> QED BY <2>1, EndsKeeps DEF Screens
<1>4. CASE StorageLost
  BY <1>4, Deletes
<1>5. CASE UNCHANGED vars
  BY <1>5 DEF IInv, TypeOK, PageShape, SetupInv, AccountsInv, LossInv, Trusted, Calls,
              vars, me
<1> QED BY <1>1, <1>2, <1>3, <1>4, <1>5 DEF Next

\* Every variable keeps its type: no screen, task or deletion leaves the page, the
\* store or the chain in a shape the code does not know (apps/payer/src/main.ts).
THEOREM PayerTypeCorrect == Spec => []TypeOK
<1>1. IInv /\ [Next]_vars => IInv'
  BY IStep
<1>2. IInv => TypeOK
  BY DEF IInv
<1> QED BY <1>1, <1>2, IInit, PTL DEF Spec

\* Once the ledger of an account is lost nothing is ever signed against it again,
\* whichever screen the payer is on and whichever task was running (T4: boot and
\* the gate of store.ts, recover's "unknown", create's fresh account).
THEOREM NothingSignedAfterLoss == Spec => NeverSignsAfterLoss
<1>1. IInv /\ [Next]_vars => \A a \in signed' \ signed : a \notin lost
  <2> SUFFICES ASSUME IInv, [Next]_vars, NEW a \in signed', a \notin signed
               PROVE  a \notin lost
    OBVIOUS
  <2>1. WriteLands
    BY DEF Next, TaskStep, Payer, Refresh, Reconcile, Recover, CreateSends, CreateFinishes,
           CloseSends, CloseFinishes, Sign, ApplyReturn, Boot, Back, NewSlots, TapRestore,
           TapClose, TapCreate, TapPay, TapReturn, Tap, AppCloses, Reload, RpcFails, Fails,
           Crash, StorageLost, historyVars, vars
  <2>2. job.task = "sign" /\ job.step = "write" /\ a = page.mem.value
    BY <2>1 DEF WriteLands
  <2> QED BY <2>2 DEF IInv, LossInv, Trusted
<1>2. IInv /\ [Next]_vars => IInv'
  BY IStep
<1> QED BY <1>1, <1>2, IInit, PTL DEF Spec, NeverSignsAfterLoss
==============================================================================
