\* Two builds, one scan, one killed install; a deployment waits for an install to end.
SPECIFICATION OfflineSpec
CONSTANTS
  MaxBuilds = 2
  DeploysAnyTime = FALSE
  MaxKills = 1
  Codes <- BoundaryCodes
  MaxScans = 1
INVARIANTS TypeOK ShellIsWhole ScansOffline CameraIsReleased ReadsExactly
PROPERTIES BecomesOffline CancelTurnsCameraOff
CHECK_DEADLOCK FALSE
