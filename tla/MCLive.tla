-------------------------------- MODULE MCLive ---------------------------------
(* BeaconState for liveness: few configurations, a client that may come and   *)
(* go for ever, one crash or failed advertising start.                        *)
EXTENDS BeaconState

CONSTANTS k1, k2

MCKey == {k1, k2}

Base == [airtag |-> TRUE, fmdn |-> TRUE, keys |-> <<k1, k2>>, txPower |-> 2, mult |-> 1,
         changeInterval |-> 3, settingsMac |-> FALSE, accel |-> FALSE]

MCConfigs == {Base, [Base EXCEPT !.fmdn = FALSE], [Base EXCEPT !.airtag = FALSE],
    [Base EXCEPT !.txPower = 1]}
MCVoltages == {3000}
MCJitter == {0}
================================================================================
