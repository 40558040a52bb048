-------------------------------- MODULE Charger --------------------------------
(****************************************************************************)
(* The driver of the BQ25121A (bq2512x.c): its operations, as steps of the   *)
(* main thread that Devices composes, and the chip as the driver sees it.    *)
(* Where an operation reads a register, and acts on what it read, the chip   *)
(* may change in between.                                                    *)
(*                                                                           *)
(* The chip answers on the bus while its CD pin is high or a supply is       *)
(* connected.  The TS flag is set while it runs on its defaults, and stands  *)
(* for it until the driver clears it.                                        *)
(****************************************************************************)
EXTENDS Integers, FiniteSets

CONSTANTS
  Regs,       \* the registers bq2512x_reinit programs
  Codes,      \* what the battery monitor may read
  MaxFaults   \* bound on failures

\* Two bits of the monitor's register and three.
ASSUME CodesAssumption == Codes \subseteq [range : 0..3, th : 0..7]
ASSUME MaxFaultsAssumption == MaxFaults \in Nat

VARIABLES
  chip,         \* set: the programmed registers; ts; vin: supply; stat; ship: in ship mode
  bus,          \* the I2C controller: "active" or "suspended"
  lastVoltage,  \* bq2512x_lastVoltage
  aux           \* history: the last operation; whether the TS flag of a chip on
                \* its defaults was cleared by an operation that did not program
                \* it; whether ship mode goes by a status that was lost or is old;
                \* and the failures so far

chargerVars == <<chip, bus, lastVoltage, aux>>

(* The top bits of the status register; "done" stands for a fault too, which *)
(* the driver does not tell from it.                                         *)
Stats == {"ready", "charging", "done"}

ChargerInit ==
  /\ chip = [set |-> {}, ts |-> TRUE, vin |-> FALSE, stat |-> "ready", ship |-> FALSE]
  /\ bus = "active" /\ lastVoltage = 0
  /\ aux = [last |-> "none", taken |-> FALSE, unsure |-> FALSE, faults |-> 0]

\* The transfers, out of ops, that fail in an operation.
Failures(ops) == IF aux.faults < MaxFaults THEN {{}} \cup {{o} : o \in ops} ELSE {{}}

Did(op, failed) ==
  [aux EXCEPT !.last = op, !.unsure = FALSE, !.faults = @ + Cardinality(failed)]

(* bq2512x_gauge(): percents of 4200 mV from the monitor's range and threshold. *)
Threshold == [code \in 0..7 |-> CASE code = 7 -> 9 [] code = 6 -> 7 [] code = 3 -> 5
                                  [] code = 2 -> 3 [] code = 1 -> 1 [] OTHER -> 0]
Percent(code) == 60 + 10 * code.range + Threshold[code.th]
Gauge(code) == (4200 * Percent(code)) \div 100

--------------------------------------------------------------------------------
(* bq2512x_ts_disable(), with CD up if need be: the flag is read and then     *)
(* cleared.  If the chip fell back to its defaults in between, the flag is   *)
(* cleared before anybody saw it.                                            *)
TsAfter(fell, failed) == (chip.ts \/ fell) /\ "ts" \in failed
Programmed(fell) == IF fell THEN {} ELSE chip.set

(* The writes of the registers, bq2512x_set_buvlo() and the others: one that *)
(* fails leaves its register as it is.                                       *)
Written(failed) == Regs \ failed

(* bq2512x_reinit(): clear the TS flag, read the voltage, and program the    *)
(* registers if the flag was set, could not be read, or force asks for it.   *)
RewrittenNever(force, failed) == force  \* mutant: the TS flag is not looked at
Rewritten(force, failed) == force \/ chip.ts \/ "ts" \in failed

VoltageOrError(failed, code) == IF "gauge" \in failed THEN -1 ELSE Gauge(code)  \* mutant
VoltageAfter(failed, code) == IF "gauge" \in failed THEN lastVoltage ELSE Gauge(code)

BusLeftActive == "active"  \* mutant: the bus is not suspended
BusAfter == "suspended"

Reinit(force) ==
  \E failed \in Failures({"ts", "gauge"} \cup Regs), code \in Codes, fell \in BOOLEAN :
    LET rewritten == Rewritten(force, failed) IN
    /\ chip' = [chip EXCEPT !.ts = TsAfter(fell, failed),
                            !.set = Programmed(fell) \cup
                                    IF rewritten THEN Written(failed) ELSE {}]
    /\ lastVoltage' = VoltageAfter(failed, code)
    /\ bus' = BusAfter
    /\ aux' = [Did("reinit", failed) EXCEPT !.taken = (@ \/ fell) /\ ~rewritten]

(* With CD low, as every operation leaves it, the chip answers only if a     *)
(* supply is connected.                                                      *)
Answers(op, failed) == chip.vin /\ op \notin failed

(* bq2512x_is_charging(): the TS flag is cleared on the way, and the bus is  *)
(* left active.                                                              *)
ChargingSeen(failed) ==
  Answers("ts", failed) /\ Answers("status", failed) /\ chip.stat = "charging"

IsCharging(failed) ==
  /\ chip' = [chip EXCEPT !.ts = @ /\ ~Answers("ts", failed)]
  /\ bus' = "active"
  /\ aux' = [Did("charging", failed) EXCEPT
               !.taken = @ \/ (Answers("ts", failed) /\ chip.ts)]
  /\ UNCHANGED lastVoltage

(* bq2512x_shipmode(): refused while charging, and also when charging is     *)
(* done; then the bus stays active.  Otherwise it sleeps before it writes.   *)
NeverRefused(failed) == FALSE  \* mutant
Refused(failed) == Answers("status", failed) /\ chip.stat # "ready"

AskShipMode(refused) ==
  \E failed \in Failures({"status"}) :
    /\ refused = Refused(failed)
    /\ bus' = "active"
    /\ aux' = [Did(IF refused THEN "refused" ELSE "asked", failed) EXCEPT
                 !.unsure = failed # {}]
    /\ UNCHANGED <<chip, lastVoltage>>

WriteShipMode ==
  \E failed \in Failures({"ship"}) :
    /\ chip' = [chip EXCEPT !.ship = "ship" \notin failed]
    /\ bus' = "suspended"
    /\ aux' = Did("ship", failed)
    /\ UNCHANGED lastVoltage

--------------------------------------------------------------------------------
(* The chip by itself (external): the supply comes and goes, charging ends,  *)
(* and the chip falls back to its defaults.                                  *)
Supply ==
  /\ chip' = [chip EXCEPT !.vin = ~@, !.stat = IF chip.vin THEN "ready" ELSE "charging"]
  /\ aux' = [aux EXCEPT !.unsure = @ \/ (aux.last = "asked" /\ ~chip.vin)]
  /\ UNCHANGED <<bus, lastVoltage>>

ChargeDone ==
  /\ chip.stat = "charging"
  /\ chip' = [chip EXCEPT !.stat = "done"]
  /\ UNCHANGED <<bus, lastVoltage, aux>>

Fallback ==
  /\ chip' = [chip EXCEPT !.set = {}, !.ts = TRUE]
  /\ UNCHANGED <<bus, lastVoltage, aux>>

Chip == Supply \/ ChargeDone \/ Fallback

================================================================================
