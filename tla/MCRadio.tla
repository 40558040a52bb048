-------------------------------- MODULE MCRadio --------------------------------
(* BeaconState on a board without button and charger, battery good. *)
EXTENDS BeaconState

CONSTANTS k1, k2, k3

MCKey == {k1, k2, k3}

Base == [airtag |-> TRUE, fmdn |-> TRUE, keys |-> <<k1, k2>>, txPower |-> 1, mult |-> 1,
         changeInterval |-> 3, settingsMac |-> TRUE, accel |-> FALSE]

\* Each is one characteristic away from another one, so a client can reach them all.
MCConfigs == {Base, [Base EXCEPT !.airtag = FALSE], [Base EXCEPT !.fmdn = FALSE],
    [Base EXCEPT !.airtag = FALSE, !.fmdn = FALSE],
    [Base EXCEPT !.keys = <<k3>>], [Base EXCEPT !.keys = <<>>],
    [Base EXCEPT !.settingsMac = FALSE], [Base EXCEPT !.txPower = 2],
    [Base EXCEPT !.mult = 2], [Base EXCEPT !.accel = TRUE]}
MCVoltages == {3000}
MCJitter == {0}
================================================================================
