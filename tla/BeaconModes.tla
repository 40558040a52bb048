------------------------------ MODULE BeaconModes ------------------------------
(****************************************************************************)
(* What the beacon promises about its modes, with no timers, no radio and no *)
(* handlers: when it can be connected to, who may ask it for a firmware      *)
(* upload, and which mode may follow which.  BeaconState and GattGlue        *)
(* implement it.                                                             *)
(****************************************************************************)

VARIABLES
  mode,      \* the State of the state machine
  session,   \* nobody connected, somebody, or somebody who may change settings
  asked      \* a firmware upload was asked for

vars == <<mode, session, asked>>

Modes == {"Initializing", "Broadcasting", "SettingsMode", "FirmwareUpload", "ShuttingDown"}
Listening == mode \in {"SettingsMode", "FirmwareUpload"}

Init == mode = "Initializing" /\ session = "none" /\ asked = FALSE

(* Power up ends in broadcasting, or in system off with the switch off. *)
Start ==
  /\ mode = "Initializing"
  /\ mode' \in {"Broadcasting", "ShuttingDown"}
  /\ session' = "none"
  /\ UNCHANGED asked

OpenWindow ==
  /\ mode = "Broadcasting"
  /\ mode' = "SettingsMode"
  /\ session' = "none"
  /\ UNCHANGED asked

(* Connecting, authorizing, being refused and leaving happen in a window or  *)
(* during an upload only.  A request can be withdrawn by anybody, and is     *)
(* made by an owner only.                                                    *)
SessionStep ==
  /\ Listening
  /\ session' \in {"none", "guest", "owner"}
  /\ session' = "owner" => session # "none"
  /\ asked' => asked \/ session = "owner"
  /\ UNCHANGED mode

Withdraw ==
  /\ asked' = FALSE
  /\ UNCHANGED <<mode, session>>

CloseWindow ==
  /\ mode = "SettingsMode"
  /\ mode' = "Broadcasting"
  /\ session' = "none"
  /\ UNCHANGED asked

Upload ==
  /\ mode = "SettingsMode" /\ asked
  /\ mode' = "FirmwareUpload"
  /\ session' \in {session, "none"}
  /\ UNCHANGED asked

ShutDown ==
  /\ mode = "Broadcasting"
  /\ mode' = "ShuttingDown"
  /\ session' = "none"
  /\ UNCHANGED asked

(* A reset, a crash, or the power coming back. *)
Restart ==
  /\ mode' = "Initializing" /\ session' = "none" /\ asked' = FALSE

Next ==
  \/ Start \/ OpenWindow \/ SessionStep \/ Withdraw \/ CloseWindow \/ Upload
  \/ ShutDown \/ Restart

Spec == Init /\ [][Next]_vars

================================================================================
