------------------------------- MODULE Scanner -------------------------------
(***************************************************************************)
(* Scanning a code: packages/wire/src/qr-scan.ts and the scan screens of   *)
(* both apps (scan and scanAuth in their main.ts).  A session is one call  *)
(* of scan: it awaits the camera, the video and one frame after the other, *)
(* and Cancel may be tapped during any of those awaits.                    *)
(***************************************************************************)
EXTENDS Base45

CONSTANTS
  Codes,     \* texts that QR codes before the camera hold
  MaxScans   \* bound: sessions

ASSUME CodesAssumption == Codes \subseteq Seq(Characters)
ASSUME ScansAssumption == MaxScans \in Nat

VARIABLES
  engine,    \* ScanEngine
  session,   \* scan -> its session
  shown,     \* the page's screen
  cancelled, \* scans whose scanner Cancel has stopped, which it cannot do before
             \* createScanner has resolved (history)
  routed     \* payloads handed on by a scan, with the text read (history)

scanVars == <<engine, session, shown, cancelled, routed>>

Scans == 1 .. MaxScans

Sessions ==
  [at      : {"unused", "creating", "camera", "video", "loop", "frame", "done"},
   stream  : BOOLEAN,   \* the camera is on for it
   aborted : BOOLEAN]   \* #aborted

Unused == [at |-> "unused", stream |-> FALSE, aborted |-> FALSE]

\* What the page shows; scan is the session of a scan screen, 0 on the others.
Screens == [screen : {"home", "scan", "result", "failed"}, scan : 0 .. MaxScans]

Screen(name) == [screen |-> name, scan |-> 0]

ScanTypeOK ==
  /\ engine \in {"barcode-detector", "zxing-wasm"}
  /\ session \in [Scans -> Sessions] /\ shown \in Screens
  /\ cancelled \subseteq Scans
  /\ routed \subseteq [text : Codes, bytes : Seq(Bytes)]

ScannerInit ==
  /\ engine \in {"barcode-detector", "zxing-wasm"}
  /\ session = [s \in Scans |-> Unused]
  /\ shown = Screen("home")
  /\ cancelled = {}
  /\ routed = {}

Becomes(s, new) == session' = [session EXCEPT ![s] = new]
------------------------------------------------------------------------------
(* The screen *)

StartsScan(s) ==
  /\ shown.screen # "scan"
  /\ session[s] = Unused
  /\ \A t \in Scans : t < s => session[t] # Unused
  /\ Becomes(s, [Unused EXCEPT !.at = "creating"])
  /\ shown' = [screen |-> "scan", scan |-> s]
  /\ UNCHANGED <<engine, cancelled, routed>>

\* Mutant: the tracks are left to the video element.
StopForgetsTracks(k) == [k EXCEPT !.aborted = TRUE]

\* stop: sets #aborted and turns the camera off, as far as there is one.
Stop(k) == [k EXCEPT !.aborted = TRUE, !.stream = FALSE]

\* Cancel stops the scanner and goes home.  While createScanner is still asking
\* the platform's detector for its formats there is nothing to stop yet.
Cancels(s) ==
  /\ shown.scan = s
  /\ shown' = Screen("home")
  /\ IF session[s].at = "creating"
     THEN UNCHANGED <<session, cancelled>>
     ELSE /\ Becomes(s, Stop(session[s]))
          /\ cancelled' = cancelled \cup {s}
  /\ UNCHANGED <<engine, routed>>

\* The catch block: stop again, and show what went wrong.
Throws(s) ==
  /\ Becomes(s, [Stop(session[s]) EXCEPT !.at = "done"])
  /\ shown' = Screen("failed")
  /\ UNCHANGED <<engine, cancelled, routed>>
------------------------------------------------------------------------------
(* start *)

OnlySession == UNCHANGED <<engine, shown, cancelled, routed>>

\* createScanner resolves; start clears #aborted and asks for the camera.
Created(s) ==
  /\ session[s].at = "creating"
  /\ Becomes(s, [session[s] EXCEPT !.at = "camera", !.aborted = FALSE])
  /\ OnlySession

\* Mutant: #aborted is cleared once the camera is open.
OpensAfresh(s) ==
  /\ session[s].at = "camera"
  /\ Becomes(s, [session[s] EXCEPT !.at = "video", !.stream = TRUE,
                                   !.aborted = FALSE])
  /\ OnlySession

\* The payer allows the camera, or does not.
CameraOpens(s) ==
  /\ session[s].at = "camera"
  /\ Becomes(s, [session[s] EXCEPT !.at = "video", !.stream = TRUE])
  /\ OnlySession

CameraDenied(s) == session[s].at = "camera" /\ Throws(s)

VideoPlays(s) ==
  /\ session[s].at = "video"
  /\ Becomes(s, [session[s] EXCEPT !.at = "loop"])
  /\ OnlySession

VideoFails(s) == session[s].at = "video" /\ Throws(s)
------------------------------------------------------------------------------
(* next *)

\* The loop looks at the next frame unless it was stopped.
Looks(s) ==
  /\ session[s].at = "loop"
  /\ IF session[s].aborted
     THEN Throws(s)
     ELSE /\ Becomes(s, [session[s] EXCEPT !.at = "frame"])
          /\ OnlySession

SeesNothing(s) ==
  /\ session[s].at = "frame"
  /\ Becomes(s, [session[s] EXCEPT !.at = "loop"])
  /\ OnlySession

\* A frame is not abandoned when the scanner is stopped: a code in it is handed
\* on all the same.  The platform detector's empty text is no code; zxing's is,
\* and it decodes to no bytes.  A text that does not decode throws, and so may
\* routeScan.
SeesCode(s, code) ==
  /\ session[s].at = "frame"
  /\ code = <<>> => engine = "zxing-wasm"
  /\ IF Decodable(code)
     THEN /\ Becomes(s, [Stop(session[s]) EXCEPT !.at = "done"])
          /\ routed' = routed \cup {[text |-> code, bytes |-> FromBase45(code)]}
          /\ shown' \in {Screen("result"), Screen("failed")}
          /\ UNCHANGED <<engine, cancelled>>
     ELSE Throws(s)

CannotRead(s) == session[s].at = "frame" /\ Throws(s)

\* Everything but the answer to the camera's permission prompt.
SessionRuns(s) ==
  \/ Created(s) \/ VideoPlays(s) \/ VideoFails(s) \/ Looks(s) \/ SeesNothing(s)
==============================================================================
