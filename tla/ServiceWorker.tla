---------------------------- MODULE ServiceWorker ----------------------------
(***************************************************************************)
(* The service worker that starts an app with the radio off:               *)
(* apps/payer/public/sw.js, the merchant's sw.js of the same shape, and    *)
(* scripts/build-precache.mjs, which lists what it keeps.                  *)
(*                                                                         *)
(* A build is one index.html, whose URL never changes, and files whose     *)
(* URLs are hashed, the scanner's .wasm among them.  A host serves the     *)
(* latest build only.                                                      *)
(***************************************************************************)
EXTENDS Naturals

CONSTANTS
  MaxBuilds,      \* bound: builds ever deployed
  DeploysAnyTime, \* a deployment may fall into an install or activation
  MaxKills        \* bound: workers the browser kills while they install

ASSUME BuildAssumption ==
  MaxBuilds \in Nat \ {0} /\ DeploysAnyTime \in BOOLEAN /\ MaxKills \in Nat

VARIABLES
  online,
  server,   \* the build the host serves
  script,   \* the build in which its sw.js was last changed
  caches,   \* build -> its cache: one per precache manifest
  pointer,  \* 'active-cache': the build whose cache is used, 0 for none
  install,  \* the worker that is installing
  active,   \* the script of the active worker, 0 for none
  takeover, \* the activate event
  page,     \* the app's page
  kills

workerVars == <<caches, pointer, install, active, takeover, kills>>
hostVars == <<online, server, script>>
swVars == <<hostVars, workerVars, page>>

Builds == 1 .. MaxBuilds

\* A mixed cache holds the files of its build and the index.html of a later one.
CacheStates == {"absent", "empty", "full", "mixed"}

Installs == [step : {"none", "manifest", "files", "index", "point", "skip"},
             build : 0 .. MaxBuilds, script : 0 .. MaxBuilds]
Takeovers == [step : {"none", "read", "delete"}, keep : 0 .. MaxBuilds]
Pages == [stage : {"closed", "opening", "running", "white"},
          build : 0 .. MaxBuilds, from : {"none", "network", "cache"},
          registered : BOOLEAN, \* sw.js, by this page's boot
          engine : BOOLEAN]     \* the .wasm is in memory

NoInstall == [step |-> "none", build |-> 0, script |-> 0]
NoTakeover == [step |-> "none", keep |-> 0]
NoPage == [stage |-> "closed", build |-> 0, from |-> "none",
           registered |-> FALSE, engine |-> FALSE]

SwTypeOK ==
  /\ online \in BOOLEAN /\ server \in Builds /\ script \in Builds
  /\ caches \in [Builds -> CacheStates] /\ pointer \in 0 .. MaxBuilds
  /\ install \in Installs /\ active \in 0 .. MaxBuilds
  /\ takeover \in Takeovers /\ page \in Pages /\ kills \in 0 .. MaxKills

SwInit ==
  /\ online = TRUE
  /\ server = 1 /\ script = 1
  /\ caches = [b \in Builds |-> "absent"]
  /\ pointer = 0
  /\ install = NoInstall
  /\ active = 0
  /\ takeover = NoTakeover
  /\ page = NoPage
  /\ kills = 0
------------------------------------------------------------------------------
(* install *)

\* boot registers sw.js, once a page: a script the browser has not installed yet
\* is, and an install that has failed is tried again by the next page only.
StartsInstall ==
  /\ page.stage = "running" /\ ~page.registered /\ online
  /\ install = NoInstall /\ script # active
  /\ install' = [NoInstall EXCEPT !.step = "manifest", !.script = script]
  /\ page' = [page EXCEPT !.registered = TRUE]
  /\ UNCHANGED <<hostVars, caches, pointer, active, takeover, kills>>

\* Mutant: a worker whose install has failed is not tried again.
InstallGivesUp == install' = [install EXCEPT !.step = "none"]

\* The promise of waitUntil rejects, and the worker is thrown away.
InstallFails == install' = NoInstall

\* Mutant: the new cache is named before it is filled.
FetchesManifestAndPoints ==
  /\ install.step = "manifest"
  /\ IF online
     THEN /\ install' = [install EXCEPT !.step = "files", !.build = server]
          /\ caches' = [caches EXCEPT ![server] = IF @ = "absent" THEN "empty" ELSE @]
          /\ pointer' = server
     ELSE InstallFails /\ UNCHANGED <<caches, pointer>>
  /\ UNCHANGED <<hostVars, active, takeover, page, kills>>

\* The list of files names the cache that is opened for them.
FetchesManifest ==
  /\ install.step = "manifest"
  /\ IF online
     THEN /\ install' = [install EXCEPT !.step = "files", !.build = server]
          /\ caches' = [caches EXCEPT ![server] = IF @ = "absent" THEN "empty" ELSE @]
     ELSE InstallFails /\ UNCHANGED caches
  /\ UNCHANGED <<hostVars, pointer, active, takeover, page, kills>>

\* addAll: a single file that cannot be had fails it, and it puts all or nothing.
AddsFiles ==
  /\ install.step = "files"
  /\ IF online /\ server = install.build
     THEN install' = [install EXCEPT !.step = "index"]
     ELSE InstallFails
  /\ UNCHANGED <<hostVars, caches, pointer, active, takeover, page, kills>>

AddsIndex ==
  /\ install.step = "index"
  /\ IF online
     THEN /\ install' = [install EXCEPT !.step = "point"]
          /\ caches' = [caches EXCEPT ![install.build] =
                          IF server = install.build THEN "full" ELSE "mixed"]
     ELSE InstallFails /\ UNCHANGED caches
  /\ UNCHANGED <<hostVars, pointer, active, takeover, page, kills>>

PointsAtCache ==
  /\ install.step = "point"
  /\ pointer' = install.build
  /\ install' = [install EXCEPT !.step = "skip"]
  /\ UNCHANGED <<hostVars, caches, active, takeover, page, kills>>

\* skipWaiting: the worker is installed and takes over at once.
SkipsWaiting ==
  /\ install.step = "skip"
  /\ takeover.step = "none"
  /\ active' = install.script
  /\ takeover' = [NoTakeover EXCEPT !.step = "read"]
  /\ install' = NoInstall
  /\ UNCHANGED <<hostVars, caches, pointer, page, kills>>

\* The browser may kill a worker in the middle of its install.
InstallKilled ==
  /\ install.step # "none"
  /\ kills < MaxKills
  /\ kills' = kills + 1
  /\ InstallFails
  /\ UNCHANGED <<hostVars, caches, pointer, active, takeover, page>>
------------------------------------------------------------------------------
(* activate *)

ReadsPointer ==
  /\ takeover.step = "read"
  /\ takeover' = [step |-> "delete", keep |-> pointer]
  /\ UNCHANGED <<hostVars, caches, pointer, install, active, page, kills>>

DeletesOthers ==
  /\ takeover.step = "delete"
  /\ caches' = [b \in Builds |-> IF b = takeover.keep THEN caches[b] ELSE "absent"]
  /\ takeover' = NoTakeover
  /\ UNCHANGED <<hostVars, pointer, install, active, page, kills>>
------------------------------------------------------------------------------
(* fetch, and the pages it serves *)

\* A hashed file comes from the cache, or from the network if the host has it.
Served(b) ==
  \/ active # 0 /\ pointer = b /\ caches[b] \in {"full", "mixed"}
  \/ online /\ server = b

\* Mutant: the engine comes from the CDN whose URL is baked into zxing-wasm.
EngineFromNetwork(b) == online

\* The scanner asks for the .wasm among the page's own files.
EngineServed(b) == Served(b)

\* The builds whose index.html the cache in use may hold: a mixed one has that of
\* a later build.
CachedShells ==
  {b \in Builds : /\ active # 0 /\ pointer # 0
                  /\ \/ caches[pointer] = "full" /\ b = pointer
                     \/ caches[pointer] = "mixed" /\ b \in pointer + 1 .. server}

\* A navigation goes to the network first, and to the cached shell after that.
\* Without either the browser shows its own error page.
Opens ==
  /\ page.stage = "closed"
  /\ \E b \in IF online THEN {server} ELSE CachedShells :
       page' = [NoPage EXCEPT !.stage = "opening", !.build = b,
                              !.from = IF online THEN "network" ELSE "cache"]
  /\ UNCHANGED <<hostVars, workerVars>>

\* The page asks for its code.
LoadsCode ==
  /\ page.stage = "opening"
  /\ page' = [page EXCEPT !.stage = IF Served(page.build) THEN "running" ELSE "white"]
  /\ UNCHANGED <<hostVars, workerVars>>

\* preloadScannerEngine, and the scanner's own request for the .wasm.
LoadsEngine ==
  /\ page.stage = "running" /\ ~page.engine
  /\ EngineServed(page.build)
  /\ page' = [page EXCEPT !.engine = TRUE]
  /\ UNCHANGED <<hostVars, workerVars>>

Closes ==
  /\ page.stage # "closed"
  /\ page' = NoPage
  /\ UNCHANGED <<hostVars, workerVars>>
------------------------------------------------------------------------------
(* The host and the radio *)

\* sw.js is copied as it is, so most builds do not change it.
Deploys ==
  /\ server < MaxBuilds
  /\ DeploysAnyTime \/ (install = NoInstall /\ takeover = NoTakeover)
  /\ server' = server + 1
  /\ script' \in {script, server + 1}
  /\ UNCHANGED <<online, workerVars, page>>

RadioSwitches ==
  /\ online' = ~online
  /\ UNCHANGED <<server, script, workerVars, page>>

WorkerStep ==
  \/ FetchesManifest \/ AddsFiles \/ AddsIndex \/ PointsAtCache \/ SkipsWaiting
  \/ ReadsPointer \/ DeletesOthers
==============================================================================
