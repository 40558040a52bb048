------------------------------- MODULE MCDevices -------------------------------
(* Devices on a board with the charger (WB_20241125) and on one with button  *)
(* and accelerometer (KKM_K4P), with the times of the code.                  *)
EXTENDS Devices

MCBoards == {[button |-> FALSE, charger |-> TRUE, sensor |-> FALSE],
             [button |-> TRUE, charger |-> FALSE, sensor |-> TRUE]}

\* A low battery (2520 mV) and a full one.
MCCodes == {[range |-> 0, th |-> 0], [range |-> 3, th |-> 7]}
MCRegs == {"buvlo", "ldo", "sys", "fchg", "pchg"}
MCMults == {1, 8}
MCDelays == {0, 40}
================================================================================
