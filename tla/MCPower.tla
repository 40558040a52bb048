-------------------------------- MODULE MCPower --------------------------------
(* BeaconState on a board with a button and a charger, the battery anything: *)
(* good, or not readable (which reads as 0).                                *)
EXTENDS BeaconState

CONSTANTS k1

MCKey == {k1}

Base == [airtag |-> TRUE, fmdn |-> FALSE, keys |-> <<k1>>, txPower |-> 1, mult |-> 1,
         changeInterval |-> 4, settingsMac |-> FALSE, accel |-> FALSE]

MCConfigs == {Base, [Base EXCEPT !.airtag = FALSE], [Base EXCEPT !.mult = 2]}
MCVoltages == {0, 3000}
MCJitter == {0, 1}
================================================================================
