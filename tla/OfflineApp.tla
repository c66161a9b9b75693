------------------------------ MODULE OfflineApp ------------------------------
(***************************************************************************)
(* An installed app with the radio off: the service worker that starts it, *)
(* and the scanner, whose zxing engine is a file the worker must have      *)
(* kept (apps/payer/src/main.ts, boot).                                    *)
(***************************************************************************)
EXTENDS ServiceWorker, Scanner

allVars == <<swVars, scanVars>>

OfflineInit == SwInit /\ ScannerInit

\* A frame can be read if the engine is there, or can still be fetched.
EngineAtHand == engine = "barcode-detector" \/ page.engine \/ EngineServed(page.build)

\* readBarcodes fetches the engine if preloadScannerEngine has not.
FetchesEngine ==
  page' = [page EXCEPT !.engine = page.engine \/ engine = "zxing-wasm"]

Scanning(s) ==
  \/ /\ StartsScan(s) \/ Cancels(s) \/ CameraOpens(s) \/ CameraDenied(s)
        \/ SessionRuns(s)
     /\ UNCHANGED swVars
  \/ /\ EngineAtHand
     /\ \E code \in Codes : SeesCode(s, code)
     /\ FetchesEngine
     /\ UNCHANGED <<hostVars, workerVars>>
  \/ ~EngineAtHand /\ CannotRead(s) /\ UNCHANGED swVars

\* Closing the page ends what was running in it, the camera included.
PageCloses ==
  /\ Closes
  /\ session' = [s \in Scans |-> IF session[s] = Unused THEN Unused
                                 ELSE [Stop(session[s]) EXCEPT !.at = "done"]]
  /\ shown' = Screen("home")
  /\ UNCHANGED <<engine, cancelled, routed>>

Browser == StartsInstall \/ WorkerStep \/ Opens \/ LoadsCode \/ LoadsEngine

OfflineNext ==
  \/ (Browser \/ InstallKilled \/ Deploys \/ RadioSwitches) /\ UNCHANGED scanVars
  \/ PageCloses
  \/ page.stage = "running" /\ \E s \in Scans : Scanning(s)

\* Install and activation run on, an app that is closed is opened again and its
\* boot registers the worker, and a session's own steps are taken while its page
\* is there.  Nobody has to allow the camera, or to close the app.
OfflineFairness ==
  /\ WF_allVars(WorkerStep /\ UNCHANGED scanVars)
  /\ SF_allVars(StartsInstall /\ UNCHANGED scanVars)
  /\ SF_allVars(Opens /\ UNCHANGED scanVars)
  /\ SF_allVars(LoadsCode /\ UNCHANGED scanVars)
  /\ \A s \in Scans :
       WF_allVars(page.stage = "running" /\ SessionRuns(s) /\ UNCHANGED swVars)

OfflineSpec == OfflineInit /\ [][OfflineNext]_allVars /\ OfflineFairness
------------------------------------------------------------------------------
(* Properties *)

\* Every variable keeps its type: what a scan hands on are bytes.
TypeOK == SwTypeOK /\ ScanTypeOK

\* "A cold start in airplane mode needs the shell already cached and this worker
\* already activated" (sw.js): from the first activation on there is a whole
\* shell to start from, over installs that fail, are killed or go offline half
\* way, and over takeovers.
ShellIsWhole ==
  active # 0 => pointer # 0 /\ caches[pointer] = "full"

\* An app started from the cache can scan, without the network, for as long as no
\* other build has taken its cache away (D10: "the scanner's .wasm must be served
\* from here rather than from the network").
ScansOffline ==
  (page.stage = "running" /\ page.from = "cache")
    => EngineAtHand \/ pointer # page.build

\* An app that is opened again and again with the radio on becomes one that starts
\* without it: no install that failed or was killed stands in the way for ever.
BecomesOffline ==
  (<>[]online /\ []<>(page.stage = "closed")) => <>(active # 0)

\* The camera is on only for a scan that is still running: every way out of it,
\* thrown or returned, turns it off.
CameraIsReleased == \A s \in Scans : session[s].at = "done" => ~session[s].stream

\* A camera that opens after Cancel has stopped the scanner goes off by itself,
\* without the app having to be closed.  A Cancel tapped before there is a scanner
\* to stop is not counted: that camera stays on.
CancelTurnsCameraOff ==
  \A s \in Scans : (s \in cancelled /\ session[s].stream) ~> ~session[s].stream

\* What a scan hands on encodes to exactly the text that was read: no length,
\* group or tail is repaired (base45.ts, D37).
ReadsExactly == \A r \in routed : ToBase45(r.bytes) = r.text
==============================================================================
