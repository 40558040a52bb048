------------------------------- MODULE MCMovement -------------------------------
(* Movement with short arrays: readings every two or three seconds, slots of *)
(* four, one bit for the first two slots as in the firmware.                 *)
EXTENDS Movement

MCEdges == <<0, 2, 3, 4>>

\* The default (telemetry, battery level), and voltage only with the cycle on FMDN.
MCFlags == {4554752, 3342336}
MCVoltages == {3000}
MCChanges == {300}
================================================================================
