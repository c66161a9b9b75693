-------------------------- MODULE OfflineAppProofs --------------------------
(***************************************************************************)
(* The invariants of OfflineApp, for every number of builds, scans, killed *)
(* workers and codes.  Those about the shell hold as long as a deployment  *)
(* waits for an install or an activation to end.                           *)
(***************************************************************************)
EXTENDS OfflineApp, Base45Proofs

\* The cache of the build that is pointed at is whole, and what an install or
\* an activation is about to do keeps it so.
ShellInv ==
  /\ install.step # "none" => install.script = script
  /\ install.step \in {"files", "index", "point", "skip"} => install.build = server
  /\ install.step \in {"point", "skip"} => caches[server] = "full"
  /\ install.step = "skip" => pointer = server
  /\ takeover.step # "none" => install.step = "none" /\ active = script
  /\ takeover.step = "delete" => takeover.keep = pointer
  /\ pointer # 0 => caches[pointer] = "full"
  /\ active # 0 => pointer # 0
  /\ page.from = "cache" => active # 0

\* A session that is over has let go of the camera, and what was handed on is
\* what was read.
ScanInv == CameraIsReleased /\ ReadsExactly
------------------------------------------------------------------------------
(* The scanner *)

\* Stopping a session keeps its type and turns its camera off.
LEMMA StopIs ==
  ASSUME NEW k \in Sessions
  PROVE  /\ Stop(k) \in Sessions /\ ~Stop(k).stream
         /\ [Stop(k) EXCEPT !.at = "done"] \in Sessions
         /\ ~[Stop(k) EXCEPT !.at = "done"].stream
BY DEF Stop, Sessions

\* A step of one session that leaves it running, or over with its camera off.
LEMMA BecomesKeeps ==
  ASSUME NEW s \in Scans, NEW k \in Sessions, Becomes(s, k), ScanTypeOK,
         CameraIsReleased, k.at = "done" => ~k.stream
  PROVE  session' \in [Scans -> Sessions] /\ CameraIsReleased'
BY DEF Becomes, ScanTypeOK, CameraIsReleased

\* Every step of a scan keeps the types, the cameras and what was read.
LEMMA ScanStep ==
  ASSUME NEW s \in Scans, Scanning(s), ScanTypeOK, ScanInv
  PROVE  ScanTypeOK' /\ ScanInv'
<1>1. session[s] \in Sessions
  BY DEF ScanTypeOK
<1>2. CASE StartsScan(s)
  <2>1. [Unused EXCEPT !.at = "creating"] \in Sessions
    BY DEF Unused, Sessions
  <2>2. [Unused EXCEPT !.at = "creating"].at # "done"
    BY DEF Unused
  <2>3. [screen |-> "scan", scan |-> s] \in Screens
    BY ScansAssumption DEF Screens, Scans
  <2> QED
    BY <1>2, <2>1, <2>2, <2>3, BecomesKeeps
       DEF StartsScan, ScanTypeOK, ScanInv, ReadsExactly
<1>3. \A name \in {"home", "result", "failed"} : Screen(name) \in Screens
  BY ScansAssumption DEF Screen, Screens
<1>4. CASE Cancels(s)
  <2>1. CASE session[s].at = "creating"
    BY <1>3, <1>4, <2>1
       DEF Cancels, ScanTypeOK, ScanInv, ReadsExactly, CameraIsReleased
  <2>2. CASE session[s].at # "creating"
    BY <1>1, <1>3, <1>4, <2>2, StopIs, BecomesKeeps
       DEF Cancels, ScanTypeOK, ScanInv, ReadsExactly
  <2> QED
    BY <2>1, <2>2
<1>5. CASE Throws(s)
  BY <1>1, <1>3, <1>5, StopIs, BecomesKeeps
     DEF Throws, ScanTypeOK, ScanInv, ReadsExactly
<1>6. ASSUME Created(s) \/ CameraOpens(s) \/ VideoPlays(s) \/ SeesNothing(s)
             \/ (Looks(s) /\ ~Throws(s))
      PROVE  ScanTypeOK' /\ ScanInv'
  <2> DEFINE Goal == \E k \in Sessions : Becomes(s, k) /\ k.at # "done"
  <2>1. ASSUME Created(s) PROVE Goal
    <3> DEFINE k == [session[s] EXCEPT !.at = "camera", !.aborted = FALSE]
    <3>1. k \in Sessions /\ k.at # "done"
      BY <1>1 DEF Sessions
    <3> QED
      BY <3>1, <2>1 DEF Created
  <2>2. ASSUME CameraOpens(s) PROVE Goal
    <3> DEFINE k == [session[s] EXCEPT !.at = "video", !.stream = TRUE]
    <3>1. k \in Sessions /\ k.at # "done"
      BY <1>1 DEF Sessions
    <3> QED
      BY <3>1, <2>2 DEF CameraOpens
  <2>3. ASSUME VideoPlays(s) \/ SeesNothing(s) PROVE Goal
    <3> DEFINE k == [session[s] EXCEPT !.at = "loop"]
    <3>1. k \in Sessions /\ k.at # "done"
      BY <1>1 DEF Sessions
    <3> QED
      BY <3>1, <2>3 DEF VideoPlays, SeesNothing
  <2>4. ASSUME Looks(s) /\ ~Throws(s) PROVE Goal
    <3> DEFINE k == [session[s] EXCEPT !.at = "frame"]
    <3>1. k \in Sessions /\ k.at # "done"
      BY <1>1 DEF Sessions
    <3> QED
      BY <3>1, <2>4 DEF Looks
  <2>5. PICK k \in Sessions : Becomes(s, k) /\ k.at # "done"
    BY <1>6, <2>1, <2>2, <2>3, <2>4
  <2> QED
    BY <1>6, <2>5, BecomesKeeps
       DEF Created, CameraOpens, VideoPlays, SeesNothing, Looks, OnlySession,
           ScanTypeOK, ScanInv, ReadsExactly
<1>7. ASSUME NEW code \in Codes, SeesCode(s, code), Decodable(code)
      PROVE  ScanTypeOK' /\ ScanInv'
  <2>1. FromBase45(code) \in Seq(Bytes) /\ ToBase45(FromBase45(code)) = code
    BY <1>7, CodesAssumption, NothingRepaired
  <2>2. /\ session' \in [Scans -> Sessions] /\ CameraIsReleased'
        /\ routed' = routed \cup {[text |-> code, bytes |-> FromBase45(code)]}
        /\ shown' \in Screens /\ engine' = engine /\ cancelled' = cancelled
    BY <1>1, <1>3, <1>7, StopIs, BecomesKeeps DEF SeesCode, ScanInv
  <2>3. ReadsExactly'
    BY <2>1, <2>2 DEF ReadsExactly, ScanInv
  <2>4. routed' \subseteq [text : Codes, bytes : Seq(Bytes)]
    BY <2>1, <2>2 DEF ScanTypeOK
  <2> QED
    BY <2>2, <2>3, <2>4 DEF ScanTypeOK, ScanInv
<1>8. Scanning(s) => \/ StartsScan(s) \/ Cancels(s) \/ Throws(s)
                     \/ Created(s) \/ CameraOpens(s) \/ VideoPlays(s)
                     \/ SeesNothing(s) \/ (Looks(s) /\ ~Throws(s))
                     \/ \E code \in Codes : SeesCode(s, code) /\ Decodable(code)
  BY DEF Scanning, CameraDenied, SessionRuns, VideoFails, CannotRead, SeesCode
<1> QED
  BY <1>2, <1>4, <1>5, <1>6, <1>7, <1>8
------------------------------------------------------------------------------
(* The shell *)

\* The steps of the worker, of the page and of the host keep their types.
LEMMA SwTypeStep ==
  ASSUME SwTypeOK, Browser \/ InstallKilled \/ Deploys \/ RadioSwitches \/ Closes
  PROVE  SwTypeOK'
<1>1. 0 \in 0 .. MaxBuilds /\ \A b \in Builds : b \in 0 .. MaxBuilds
  BY BuildAssumption DEF Builds
<1>2. NoInstall \in Installs /\ NoTakeover \in Takeovers /\ NoPage \in Pages
  BY <1>1 DEF NoInstall, Installs, NoTakeover, Takeovers, NoPage, Pages
<1>3. CASE StartsInstall
  BY <1>1, <1>3 DEF StartsInstall, SwTypeOK, hostVars, Installs, NoInstall, Pages
<1>4. CASE FetchesManifest
  BY <1>1, <1>2, <1>4
     DEF FetchesManifest, InstallFails, SwTypeOK, hostVars, Installs, CacheStates
<1>5. CASE AddsFiles \/ SkipsWaiting
  BY <1>1, <1>2, <1>5
     DEF AddsFiles, SkipsWaiting, InstallFails, SwTypeOK, hostVars, Installs,
         Takeovers, NoTakeover
<1>6. CASE AddsIndex
  BY <1>1, <1>2, <1>6
     DEF AddsIndex, InstallFails, SwTypeOK, hostVars, Installs, CacheStates
<1>7. CASE PointsAtCache
  BY <1>1, <1>7 DEF PointsAtCache, SwTypeOK, hostVars, Installs
<1>8. CASE ReadsPointer
  BY <1>8 DEF ReadsPointer, SwTypeOK, hostVars, Takeovers
<1>9. CASE DeletesOthers
  BY <1>2, <1>9 DEF DeletesOthers, SwTypeOK, hostVars, CacheStates
<1>10. CASE Opens
  <2>1. PICK b \in Builds :
          page' = [NoPage EXCEPT !.stage = "opening", !.build = b,
                                 !.from = IF online THEN "network" ELSE "cache"]
    BY <1>10 DEF Opens, CachedShells, SwTypeOK
  <2>2. page' \in Pages
    BY <1>1, <1>2, <2>1 DEF NoPage, Pages
  <2> QED BY <1>10, <2>2 DEF Opens, SwTypeOK, hostVars, workerVars
<1>11. CASE LoadsCode \/ LoadsEngine \/ Closes
  BY <1>2, <1>11
     DEF LoadsCode, LoadsEngine, Closes, SwTypeOK, hostVars, workerVars, Pages
<1>12. CASE InstallKilled
  BY <1>2, <1>12, BuildAssumption
     DEF InstallKilled, InstallFails, SwTypeOK, hostVars
<1>13. CASE Deploys
  <2>1. server + 1 \in Builds
    BY <1>13, BuildAssumption DEF Deploys, SwTypeOK, Builds
  <2> QED
    BY <1>13, <2>1 DEF Deploys, SwTypeOK, workerVars
<1>14. CASE RadioSwitches
  BY <1>14 DEF RadioSwitches, SwTypeOK, workerVars
<1> QED
  BY <1>3, <1>4, <1>5, <1>6, <1>7, <1>8, <1>9, <1>10, <1>11, <1>12, <1>13,
     <1>14 DEF Browser, WorkerStep

\* They keep the shell whole, if no deployment falls into an install or an
\* activation.
LEMMA ShellStep ==
  ASSUME DeploysAnyTime = FALSE, SwTypeOK, ShellInv,
         Browser \/ InstallKilled \/ Deploys \/ RadioSwitches \/ Closes
  PROVE  ShellInv'
<1>1. CASE StartsInstall
  BY <1>1 DEF StartsInstall, ShellInv, hostVars, NoInstall, SwTypeOK, Pages
<1>2. CASE FetchesManifest
  <2>1. \A b \in Builds : caches[b] = "full" => caches'[b] = "full"
    BY <1>2 DEF FetchesManifest, SwTypeOK
  <2>2. \/ install' = NoInstall
        \/ install' = [install EXCEPT !.step = "files", !.build = server]
    BY <1>2 DEF FetchesManifest, InstallFails
  <2>3. UNCHANGED <<script, server, pointer, active, takeover, page>>
    BY <1>2 DEF FetchesManifest, hostVars
  <2>4. takeover.step = "none" /\ install.script = script
    BY <1>2 DEF FetchesManifest, ShellInv
  <2>5. pointer # 0 => caches'[pointer] = "full"
    BY <2>1, BuildAssumption DEF ShellInv, SwTypeOK, Builds
  <2>6. /\ install'.step \in {"none", "files"}
        /\ install'.step = "files" => install'.script = script /\ install'.build = server
    <3>1. CASE install' = NoInstall
      BY <3>1 DEF NoInstall
    <3>2. CASE install' = [install EXCEPT !.step = "files", !.build = server]
      <4>1. /\ install'.step = "files" /\ install'.build = server
            /\ install'.script = install.script
        BY <3>2 DEF SwTypeOK, Installs
      <4> QED
        BY <4>1, <2>4
    <3> QED
      BY <2>2, <3>1, <3>2
  <2> QED
    BY <2>3, <2>4, <2>5, <2>6 DEF ShellInv
<1>3. CASE AddsFiles
  BY <1>3
     DEF AddsFiles, InstallFails, NoInstall, ShellInv, SwTypeOK, hostVars, Installs
<1>4. CASE AddsIndex
  <2>1. install.build = server /\ takeover.step = "none" /\ install.script = script
    BY <1>4 DEF AddsIndex, ShellInv
  <2>2. \A b \in Builds : caches[b] = "full" => caches'[b] = "full"
    BY <1>4, <2>1 DEF AddsIndex, SwTypeOK
  <2>3. \/ install' = NoInstall
        \/ install' = [install EXCEPT !.step = "point"] /\ caches'[server] = "full"
    BY <1>4, <2>1 DEF AddsIndex, InstallFails, SwTypeOK
  <2>4. UNCHANGED <<script, server, pointer, active, takeover, page>>
    BY <1>4 DEF AddsIndex, hostVars
  <2>5. pointer # 0 => pointer \in Builds
    BY BuildAssumption DEF SwTypeOK, Builds
  <2> QED
    BY <2>1, <2>2, <2>3, <2>4, <2>5 DEF ShellInv, SwTypeOK, NoInstall, Installs
<1>5. CASE PointsAtCache
  BY <1>5, BuildAssumption
     DEF PointsAtCache, ShellInv, SwTypeOK, hostVars, Installs, Builds
<1>6. CASE SkipsWaiting
  BY <1>6, BuildAssumption
     DEF SkipsWaiting, NoInstall, NoTakeover, ShellInv, SwTypeOK, hostVars,
         Installs, Builds
<1>7. CASE ReadsPointer
  BY <1>7 DEF ReadsPointer, ShellInv, SwTypeOK, hostVars
<1>8. CASE DeletesOthers
  BY <1>8, BuildAssumption
     DEF DeletesOthers, NoTakeover, ShellInv, SwTypeOK, hostVars, Builds
<1>9. CASE Opens \/ LoadsCode \/ LoadsEngine \/ Closes
  <2>1. page'.from = "cache" => active # 0
    <3>1. CASE Opens
      <4>1. online => page'.from # "cache"
        BY <3>1 DEF Opens, NoPage
      <4>2. ~online => active # 0
        BY <3>1 DEF Opens, CachedShells
      <4> QED BY <4>1, <4>2
    <3>2. CASE LoadsCode \/ LoadsEngine
      BY <3>2 DEF LoadsCode, LoadsEngine, ShellInv, SwTypeOK, Pages
    <3>3. CASE Closes
      BY <3>3 DEF Closes, NoPage
    <3> QED
      BY <1>9, <3>1, <3>2, <3>3
  <2>2. UNCHANGED <<hostVars, workerVars>>
    BY <1>9 DEF Opens, LoadsCode, LoadsEngine, Closes
  <2> QED
    BY <2>1, <2>2 DEF ShellInv, hostVars, workerVars
<1>10. CASE InstallKilled
  BY <1>10 DEF InstallKilled, InstallFails, NoInstall, ShellInv, hostVars
<1>11. CASE Deploys \/ RadioSwitches
  BY <1>11
     DEF Deploys, RadioSwitches, NoInstall, NoTakeover, ShellInv, workerVars
<1> QED
  BY <1>1, <1>2, <1>3, <1>4, <1>5, <1>6, <1>7, <1>8, <1>9, <1>10, <1>11
     DEF Browser, WorkerStep
------------------------------------------------------------------------------
(* The composition *)

\* All of it together.
OfflineInv ==
  /\ SwTypeOK /\ ScanTypeOK /\ ScanInv
  /\ DeploysAnyTime = FALSE => ShellInv

\* It holds in the first state.
LEMMA OfflineStart == OfflineInit => OfflineInv
<1> SUFFICES ASSUME OfflineInit PROVE OfflineInv
  OBVIOUS
<1>1. SwTypeOK
  BY BuildAssumption
     DEF OfflineInit, SwInit, SwTypeOK, Builds, CacheStates, Installs, NoInstall,
         Takeovers, NoTakeover, Pages, NoPage
<1>2. ScanTypeOK /\ ScanInv
  BY ScansAssumption
     DEF OfflineInit, ScannerInit, ScanTypeOK, ScanInv, CameraIsReleased,
         ReadsExactly, Sessions, Unused, Screens, Screen
<1>3. ShellInv
  BY DEF OfflineInit, SwInit, ShellInv, NoInstall, NoTakeover, NoPage
<1> QED
  BY <1>1, <1>2, <1>3 DEF OfflineInv

\* And every step keeps it.
LEMMA OfflineStep == OfflineInv /\ [OfflineNext]_allVars => OfflineInv'
<1> SUFFICES ASSUME OfflineInv, [OfflineNext]_allVars PROVE OfflineInv'
  OBVIOUS
<1>1. ASSUME Browser \/ InstallKilled \/ Deploys \/ RadioSwitches \/ Closes
      PROVE  SwTypeOK' /\ (DeploysAnyTime = FALSE => ShellInv')
  BY <1>1, SwTypeStep, ShellStep DEF OfflineInv
<1>2. CASE /\ Browser \/ InstallKilled \/ Deploys \/ RadioSwitches
          /\ UNCHANGED scanVars
  <2>1. ScanTypeOK' /\ ScanInv'
    BY <1>2 DEF OfflineInv, scanVars, ScanTypeOK, ScanInv, CameraIsReleased, ReadsExactly
  <2> QED
    BY <1>1, <1>2, <2>1 DEF OfflineInv
<1>3. CASE PageCloses
  <2>1. SwTypeOK' /\ (DeploysAnyTime = FALSE => ShellInv')
    BY <1>1, <1>3 DEF PageCloses
  <2>2. \A s \in Scans : /\ session'[s] \in Sessions
                         /\ session'[s].at = "done" => ~session'[s].stream
    BY <1>3, StopIs DEF PageCloses, OfflineInv, ScanTypeOK, Unused, Sessions
  <2>3. session' \in [Scans -> Sessions]
    BY <1>3, <2>2 DEF PageCloses
  <2>4. Screen("home") \in Screens
    BY ScansAssumption DEF Screen, Screens
  <2> QED
    BY <1>3, <2>1, <2>2, <2>3, <2>4
       DEF PageCloses, OfflineInv, ScanTypeOK, ScanInv, CameraIsReleased, ReadsExactly
<1>4. ASSUME NEW s \in Scans, Scanning(s)
      PROVE  OfflineInv'
  <2>1. ScanTypeOK' /\ ScanInv'
    BY <1>4, ScanStep DEF OfflineInv
  <2>2. /\ UNCHANGED <<hostVars, workerVars>>
        /\ \/ page' = page
           \/ page' = [page EXCEPT !.engine = page.engine \/ engine = "zxing-wasm"]
    BY <1>4 DEF Scanning, swVars, FetchesEngine
  <2>3. page' \in Pages /\ page'.from = page.from
    BY <2>2 DEF OfflineInv, SwTypeOK, Pages
  <2> QED
    BY <2>1, <2>2, <2>3 DEF OfflineInv, SwTypeOK, ShellInv, hostVars, workerVars
<1>5. CASE UNCHANGED allVars
  BY <1>5
     DEF allVars, swVars, scanVars, hostVars, workerVars, OfflineInv, SwTypeOK,
         ScanTypeOK, ScanInv, CameraIsReleased, ReadsExactly, ShellInv
<1> QED
  BY <1>2, <1>3, <1>4, <1>5 DEF OfflineNext

\* Every variable keeps its type: what a scan hands on are bytes.
THEOREM OfflineTypes == OfflineSpec => []TypeOK
<1>1. OfflineInv => TypeOK
  BY DEF OfflineInv, TypeOK
<1> QED
  BY <1>1, OfflineStart, OfflineStep, PTL DEF OfflineSpec

\* Whatever codes are held before the camera, and however scans are cancelled,
\* what is handed on encodes to exactly the text that was read (qr-scan.ts).
THEOREM AlwaysReadsExactly == OfflineSpec => []ReadsExactly
<1>1. OfflineInv => ReadsExactly
  BY DEF OfflineInv, ScanInv
<1> QED
  BY <1>1, OfflineStart, OfflineStep, PTL DEF OfflineSpec

\* A scan that has returned or thrown has turned its camera off, in whatever
\* order Cancel and the camera's answers come (the scan screens' catch blocks).
THEOREM AlwaysReleasesCamera == OfflineSpec => []CameraIsReleased
<1>1. OfflineInv => CameraIsReleased
  BY DEF OfflineInv, ScanInv
<1> QED
  BY <1>1, OfflineStart, OfflineStep, PTL DEF OfflineSpec

\* If no deployment falls into an install or an activation, an app whose worker
\* was activated once has a whole shell to start from (sw.js).
THEOREM ShellStaysWhole ==
  ASSUME DeploysAnyTime = FALSE
  PROVE  OfflineSpec => []ShellIsWhole
<1>1. OfflineInv => ShellIsWhole
  BY DEF OfflineInv, ShellInv, ShellIsWhole
<1> QED
  BY <1>1, OfflineStart, OfflineStep, PTL DEF OfflineSpec

\* Under the same condition an app started from the cache can scan, until another
\* build takes its cache away.
THEOREM ScansWithoutNetwork ==
  ASSUME DeploysAnyTime = FALSE
  PROVE  OfflineSpec => []ScansOffline
<1>1. OfflineInv => ScansOffline
  <2> SUFFICES ASSUME OfflineInv, page.from = "cache", pointer = page.build
               PROVE  EngineAtHand
    BY DEF ScansOffline
  <2>1. active # 0 /\ caches[pointer] = "full"
    BY DEF OfflineInv, ShellInv
  <2> QED
    BY <2>1 DEF EngineAtHand, EngineServed, Served
<1> QED
  BY <1>1, OfflineStart, OfflineStep, PTL DEF OfflineSpec
==============================================================================
