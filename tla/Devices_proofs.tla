----------------------------- MODULE Devices_proofs -----------------------------
(* Theorems about Devices, for every set of boards and every Work that fits  *)
(* the watchdog's window; and about the charger, for every set of registers. *)
EXTENDS Devices, FiniteSetTheorems, TLAPS

(* What the proof needs of the types. *)
TimeType ==
  /\ board \in Boards /\ mult \in 1..8 /\ unfed \in Nat /\ round \in 0..15

(* How long the watchdog may be unfed at each place. *)
Budgets ==
  /\ at \in {"start", "lit", "switch", "unlit", "reinit", "ready", "exit", "authorized",
             "leave", "upload", "battery", "blink"} => unfed = 0
  /\ at = "feed" => unfed < Window /\ then \in {"switch", "ready", "release", "exit",
                       "battery", "authorized", "leave", "upload", "blink", "held"}
  /\ at = "reinit2" => unfed <= 42 + Work
  /\ at = "devices" => unfed <= 74 + 2 * Work
  /\ at = "release" => unfed <= 1800 + Work
  /\ at = "sleep" => unfed <= 1800 + Work \/ unfed <= 1053 + 4 * Work
  /\ at \in {"uvlo", "nokeys", "settings"} => unfed <= 32 + Work
  /\ at = "button" => unfed <= 32 + 2 * Work
  /\ at = "sensor" => unfed <= 1032 + 3 * Work
  /\ at = "held" => unfed <= 650 + Work
  /\ at = "ship" => unfed <= 682 + 2 * Work
  /\ at = "shipping" => unfed <= 684 + 3 * Work
  /\ at = "poweroff" => unfed <= 1150 + 3 * Work
  /\ at = "off" => unfed <= 1650 + 4 * Work

(* On the way to a reset a round is paid for by the rounds already done.     *)
RebootBudget ==
  at = "reboot" => round \in 0..9 /\ unfed + round * (1000 + Work) <= 9000 + 10 * Work

TInv == TimeType /\ at \in Places /\ Budgets /\ RebootBudget

--------------------------------------------------------------------------------
LEMMA BoardParts ==
  ASSUME board \in Boards
  PROVE  /\ ReinitPause \in Nat /\ ReinitPause <= 32
         /\ BatteryPause \in Nat /\ BatteryPause <= 32
         /\ AccelInitPause \in Nat /\ AccelInitPause <= 21
  BY BoardsAssumption DEF ReinitPause, BatteryPause, AccelInitPause

LEMMA InitTimes == Init => TInv
  BY TimingAssumption DEF Init, TInv, TimeType, Budgets, RebootBudget, Places

LEMMA StartupStep ==
  ASSUME TInv, Startup
  PROVE  TInv'
<1> USE TimingAssumption, BudgetAssumption DEF TInv, TimeType, own, Go
<1>0. BatteryPause \in Nat /\ BatteryPause <= 32 /\ ReinitPause \in Nat /\ ReinitPause <= 32
      /\ AccelInitPause \in Nat /\ AccelInitPause <= 21
  BY BoardParts
<1>1. CASE Start
  BY <1>1 DEF Start, WatchdogStarted, Budgets, RebootBudget, Places
<1>2. CASE Lit
  <2>1. unfed' \in Nat /\ unfed' <= unfed + 450 + Work
    BY <1>2 DEF Lit, PauseThenFeed, Lasts, Blink
  <2> QED BY <1>2, <2>1 DEF Lit, PauseThenFeed, Budgets, RebootBudget, Places
<1>3. CASE Switch
  BY <1>3 DEF Switch, Budgets, RebootBudget, Places
<1>4. CASE StayOff
  <2>1. unfed' \in Nat /\ unfed' <= unfed + 500 + Work
    BY <1>4 DEF StayOff, Lasts, Blink
  <2> QED BY <1>4, <2>1 DEF StayOff, Budgets, RebootBudget, Places
<1>5. CASE FirstReinit
  <2>1. unfed' \in Nat /\ unfed' <= unfed + (ReinitPause + 10) + Work
    BY <1>0, <1>5 DEF FirstReinit, Lasts, Blink
  <2> QED BY <1>0, <1>5, <2>1 DEF FirstReinit, Budgets, RebootBudget, Places
<1>6. CASE SecondReinit
  <2>1. unfed' \in Nat /\ unfed' <= unfed + ReinitPause + Work
    BY <1>0, <1>6 DEF SecondReinit, Lasts, Blink
  <2> QED BY <1>0, <1>6, <2>1 DEF SecondReinit, Budgets, RebootBudget, Places
<1>7. CASE InitDevices
  <2>1. unfed' \in Nat /\ unfed' <= unfed + (3 * AccelInitPause + BatteryPause) + Work
    BY <1>0, <1>7 DEF InitDevices, PauseThenFeed, Lasts, Blink
  <2> QED BY <1>0, <1>7, <2>1 DEF InitDevices, PauseThenFeed, Budgets, RebootBudget, Places
<1>8. CASE Ready
  <2>1. unfed' \in Nat /\ unfed' <= unfed + 1800 + Work
    BY <1>8 DEF Ready, Lasts, Blink
  <2> QED BY <1>8, <2>1 DEF Ready, Budgets, RebootBudget, Places
<1>9. CASE StillPressed
  <2>1. unfed' \in Nat /\ unfed' <= unfed + 1000 + Work
    BY <1>9 DEF StillPressed, PauseThenFeed, Lasts, Blink
  <2> QED BY <1>9, <2>1 DEF StillPressed, PauseThenFeed, Budgets, RebootBudget, Places
<1>10. CASE Released
  BY <1>10 DEF Released, Budgets, RebootBudget, Places
<1> QED
  BY <1>1, <1>2, <1>3, <1>4, <1>5, <1>6, <1>7, <1>8, <1>9, <1>10 DEF Startup

LEMMA InSettingsStep ==
  ASSUME TInv, InSettings
  PROVE  TInv'
<1> USE TimingAssumption, BudgetAssumption DEF TInv, TimeType, own, Go
<1>1. CASE Exit
  BY <1>1 DEF Exit, PauseThenFeed, Lasts, Budgets, RebootBudget, Places
<1>2. CASE AuthorizedWait
  BY <1>2 DEF AuthorizedWait, PauseThenFeed, Lasts, Budgets, RebootBudget, Places
<1>3. CASE Leave
  BY <1>3 DEF Leave, Lasts, Budgets, RebootBudget, Places
<1>4. CASE LeaveForUpload
  BY <1>4 DEF LeaveForUpload, Budgets, RebootBudget, Places
<1>5. CASE LeaveForReset
  BY <1>5 DEF LeaveForReset, Lasts, Budgets, RebootBudget, Places
<1>6. CASE UploadRound
  BY <1>6 DEF UploadRound, PauseThenFeed, Lasts, Budgets, RebootBudget, Places
<1>7. CASE UploadOver
  BY <1>7 DEF UploadOver, Budgets, RebootBudget, Places
<1>8. CASE RebootRound
  BY <1>8 DEF RebootRound, Lasts, Budgets, RebootBudget, Places
<1>9. CASE Reset
  BY <1>9 DEF Reset, Restarted, Budgets, RebootBudget, Places
<1> QED
  BY <1>1, <1>2, <1>3, <1>4, <1>5, <1>6, <1>7, <1>8, <1>9 DEF InSettings

LEMMA ShipTimes ==
  ASSUME Ship, unfed \in Nat
  PROVE  /\ at = "ship" /\ UNCHANGED <<board, mult, round>>
         /\ at' \in {"poweroff", "shipping"}
         /\ unfed' \in Nat /\ unfed' <= unfed + 2 + Work
<1> USE TimingAssumption
<1>1. at = "ship" /\ UNCHANGED <<board, mult, round>>
  BY DEF Ship, own
<1>2. at' \in {"poweroff", "shipping"}
  BY DEF Ship
<1>3. unfed' = unfed \/ \E w \in Delays : unfed' = unfed + 2 + w
  BY DEF Ship, Lasts
<1> QED
  BY <1>1, <1>2, <1>3

LEMMA TickStep ==
  ASSUME TInv, Tick
  PROVE  TInv'
<1> USE TimingAssumption, BudgetAssumption DEF TInv, TimeType, own, Go
<1>0. BatteryPause \in Nat /\ BatteryPause <= 32 /\ ReinitPause \in Nat /\ ReinitPause <= 32
      /\ AccelInitPause \in Nat /\ AccelInitPause <= 21
  BY BoardParts
<1>1. CASE BatteryNotDue
  BY <1>1 DEF BatteryNotDue, Budgets, RebootBudget, Places
<1>2. CASE BatteryCheck
  BY <1>0, <1>2 DEF BatteryCheck, Lasts, Budgets, RebootBudget, Places
<1>3. CASE VoltageGood
  BY <1>3 DEF VoltageGood, Budgets, RebootBudget, Places
<1>4. CASE VoltageLow
  BY <1>4 DEF VoltageLow, Budgets, RebootBudget, Places
<1>5. CASE Nokeys
  BY <1>5 DEF Nokeys, Lasts, Blink, Budgets, RebootBudget, Places
<1>6. CASE HasProtocol
  BY <1>6 DEF HasProtocol, Budgets, RebootBudget, Places
<1>7. CASE Ship
  BY <1>7, ShipTimes DEF Budgets, RebootBudget, Places
<1>8. CASE SettingsEntry
  BY <1>8 DEF SettingsEntry, Lasts, Budgets, RebootBudget, Places
<1>9. CASE NoSettingsEntry
  BY <1>9 DEF NoSettingsEntry, Lasts, Budgets, RebootBudget, Places
<1>10. CASE NotPressed
  BY <1>10 DEF NotPressed, Budgets, RebootBudget, Places
<1>11. CASE ShortPress
  BY <1>11 DEF ShortPress, Lasts, Budgets, RebootBudget, Places
<1>12. CASE LongPress
  BY <1>12 DEF LongPress, PauseThenFeed, Lasts, Budgets, RebootBudget, Places
<1>13. CASE LongPressSeen
  BY <1>13 DEF LongPressSeen, Lasts, Blink, Budgets, RebootBudget, Places
<1>14. CASE StillHeld
  BY <1>14 DEF StillHeld, PauseThenFeed, Lasts, Budgets, RebootBudget, Places
<1>15. CASE SwitchOff
  BY <1>15 DEF SwitchOff, Lasts, Budgets, RebootBudget, Places
<1>16. CASE Sensor
  BY <1>0, <1>16 DEF Sensor, Lasts, Budgets, RebootBudget, Places
<1>17. CASE PowerOff
  BY <1>17 DEF PowerOff, Lasts, Budgets, RebootBudget, Places
<1>18. CASE ShipWrite
  BY <1>18 DEF ShipWrite, Budgets, RebootBudget, Places
<1> QED
  BY <1>1, <1>2, <1>3, <1>4, <1>5, <1>6, <1>7, <1>8, <1>9, <1>10, <1>11,
     <1>12, <1>13, <1>14, <1>15, <1>16, <1>17, <1>18 DEF Tick

(* Every step keeps the budgets: the main thread's from place to place, the  *)
(* environment's because a reset starts with a window of its own.            *)
LEMMA TimesStep ==
  ASSUME TInv, [Next]_vars
  PROVE  TInv'
<1> USE TimingAssumption, BudgetAssumption DEF TInv, TimeType, own, Go
<1>1. CASE Feed
  BY <1>1 DEF Feed, Budgets, RebootBudget, Places
<1>2. CASE Sleep
  BY <1>2 DEF Sleep, PauseThenFeed, Lasts, Budgets, RebootBudget, Places
<1>3. CASE Startup
  BY <1>3, StartupStep
<1>4. CASE InSettings
  BY <1>4, InSettingsStep
<1>5. CASE Tick
  BY <1>5, TickStep
<1>6. CASE Wait
  BY <1>6 DEF Wait, Budgets, RebootBudget, Places
<1>7. CASE Bite \/ PowerOn
  BY <1>7 DEF Bite, PowerOn, Restarted, Budgets, RebootBudget, Places
<1>8. CASE ChipAlone
  BY <1>8 DEF ChipAlone, Budgets, RebootBudget, Places
<1>9. CASE UNCHANGED vars
  BY <1>9 DEF vars, Budgets, RebootBudget, Places
<1> QED
  BY <1>1, <1>2, <1>3, <1>4, <1>5, <1>6, <1>7, <1>8, <1>9 DEF Next, Main

LEMMA BudgetsFit == TInv => FedInTime
<1> USE TimingAssumption, BudgetAssumption
<1>1. TInv /\ at = "reboot" => unfed < Window
  BY DEF TInv, TimeType, RebootBudget
<1> QED
  BY <1>1 DEF TInv, TimeType, Budgets, Places, FedInTime

(* Whatever boards, mult_period and Work the assumptions leave: the watchdog *)
(* is fed in time on every way through main(), initialize(), tick() and      *)
(* reboot().                                                                 *)
THEOREM WatchdogFed == Spec => []FedInTime
<1>1. Spec => []TInv
  BY InitTimes, TimesStep, PTL DEF Spec
<1> QED
  BY <1>1, BudgetsFit, PTL

--------------------------------------------------------------------------------
(* The charger.                                                              *)

ChargerType ==
  /\ chip \in [set : SUBSET Regs, ts : BOOLEAN, vin : BOOLEAN, stat : Stats, ship : BOOLEAN]
  /\ aux \in [last : Operations, taken : BOOLEAN, unsure : BOOLEAN, faults : Nat]

(* Where a board with the charger can be with the bus resumed: before its    *)
(* first reinit, anywhere after a question for charging, in the pause of the *)
(* ship mode, and switched off after a refusal.                              *)
BusInv ==
  board.charger /\ bus = "active" =>
    \/ aux.last = "none" /\ (\/ at \in {"start", "dead", "lit", "switch", "unlit", "reinit",
                                       "poweroff", "off"}
                             \/ at = "feed" /\ then = "switch")
    \/ aux.last = "charging"
    \/ aux.last = "asked" /\ at = "shipping"
    \/ aux.last = "refused" /\ at \in {"poweroff", "off"}

CInv == ChargerType /\ DefaultsNoticed /\ BusInv

LEMMA DidType ==
  ASSUME ChargerType, NEW op \in Operations, NEW failed, IsFiniteSet(failed)
  PROVE  /\ Did(op, failed) \in
              [last : Operations, taken : BOOLEAN, unsure : BOOLEAN, faults : Nat]
         /\ Did(op, failed).last = op /\ Did(op, failed).taken = aux.taken
         /\ aux.faults > 0 => Did(op, failed).faults > 0
         /\ failed # {} => Did(op, failed).faults > 0
<1>1. Cardinality(failed) \in Nat /\ (failed # {} => Cardinality(failed) # 0)
  BY FS_CardinalityType, FS_EmptySet
<1> DEFINE n == Cardinality(failed)
<1>2. Did(op, failed) = [aux EXCEPT !.last = op, !.unsure = FALSE, !.faults = @ + n]
  BY DEF Did
<1>3. n \in Nat /\ (failed # {} => n > 0)
  BY <1>1
<1> HIDE DEF n
<1>4. aux.faults \in Nat /\ aux.taken \in BOOLEAN
  BY DEF ChargerType
<1>5. Did(op, failed) =
        [last |-> op, taken |-> aux.taken, unsure |-> FALSE, faults |-> aux.faults + n]
  BY <1>2 DEF ChargerType
<1> QED
  BY <1>3, <1>4, <1>5

LEMMA FailuresFinite ==
  ASSUME NEW ops, NEW failed \in Failures(ops)
  PROVE  IsFiniteSet(failed)
  BY FS_EmptySet, FS_Singleton DEF Failures

(* What an operation of the driver and the chip itself keep.                 *)
ChargerKept == ChargerType' /\ DefaultsNoticed'

LEMMA ReinitKeeps ==
  ASSUME ChargerType, DefaultsNoticed, NEW force \in BOOLEAN, Reinit(force)
  PROVE  ChargerKept /\ bus' = "suspended"
<1>1. PICK failed \in Failures({"ts", "gauge"} \cup Regs), fell \in BOOLEAN :
        /\ chip' = [chip EXCEPT !.ts = (chip.ts \/ fell) /\ "ts" \in failed,
                     !.set = Programmed(fell) \cup
                             IF Rewritten(force, failed) THEN Regs \ failed ELSE {}]
        /\ bus' = BusAfter
        /\ aux' = [Did("reinit", failed) EXCEPT !.taken = (@ \/ fell) /\ ~Rewritten(force, failed)]
  BY DEF Reinit, TsAfter, Written
<1>2. IsFiniteSet(failed)
  BY FailuresFinite
<1>3. /\ Did("reinit", failed) \in
           [last : Operations, taken : BOOLEAN, unsure : BOOLEAN, faults : Nat]
      /\ Did("reinit", failed).taken = aux.taken
      /\ aux.faults > 0 => Did("reinit", failed).faults > 0
      /\ failed # {} => Did("reinit", failed).faults > 0
  BY <1>2, DidType DEF Operations
<1>4. ChargerType'
  BY <1>1, <1>3 DEF ChargerType, Rewritten, Programmed
<1>5. DefaultsNoticed'
  <2>1. CASE failed # {} \/ aux.faults > 0
    BY <1>1, <1>3, <2>1 DEF DefaultsNoticed
  <2>2. CASE failed = {} /\ Rewritten(force, failed)
    BY <1>1, <2>2 DEF DefaultsNoticed, ChargerType, Programmed
  <2>3. CASE failed = {} /\ ~(aux.faults > 0) /\ ~Rewritten(force, failed)
    BY <1>1, <1>3, <2>3 DEF DefaultsNoticed, ChargerType, Rewritten, Programmed
  <2> QED BY <2>1, <2>2, <2>3
<1> QED
  BY <1>1, <1>4, <1>5 DEF ChargerKept, BusAfter

LEMMA IsChargingKeeps ==
  ASSUME ChargerType, DefaultsNoticed, NEW failed, IsFiniteSet(failed), IsCharging(failed)
  PROVE  ChargerKept /\ aux'.last = "charging"
<1>1. /\ Did("charging", failed) \in
           [last : Operations, taken : BOOLEAN, unsure : BOOLEAN, faults : Nat]
      /\ Did("charging", failed).last = "charging"
      /\ Did("charging", failed).taken = aux.taken
      /\ aux.faults > 0 => Did("charging", failed).faults > 0
  BY DidType DEF Operations
<1>2. Answers("ts", failed) \in BOOLEAN
  BY DEF Answers, ChargerType
<1>3. ChargerType'
  BY <1>1, <1>2 DEF IsCharging, ChargerType
<1>4. DefaultsNoticed'
  BY <1>1, <1>2 DEF IsCharging, ChargerType, DefaultsNoticed
<1> QED
  BY <1>1, <1>3, <1>4 DEF ChargerKept, IsCharging

LEMMA AskKeeps ==
  ASSUME ChargerType, DefaultsNoticed, NEW refused \in BOOLEAN, AskShipMode(refused)
  PROVE  ChargerKept /\ aux'.last = IF refused THEN "refused" ELSE "asked"
<1> DEFINE op == IF refused THEN "refused" ELSE "asked"
<1>1. PICK failed \in Failures({"status"}) :
        aux' = [Did(op, failed) EXCEPT !.unsure = failed # {}] /\ UNCHANGED chip
  BY DEF AskShipMode
<1>2. IsFiniteSet(failed) /\ op \in Operations
  BY FailuresFinite DEF Operations
<1> HIDE DEF op
<1>3. /\ Did(op, failed) \in [last : Operations, taken : BOOLEAN, unsure : BOOLEAN, faults : Nat]
      /\ Did(op, failed).last = op /\ Did(op, failed).taken = aux.taken
      /\ aux.faults > 0 => Did(op, failed).faults > 0
  BY <1>2, DidType
<1>4. /\ aux' \in [last : Operations, taken : BOOLEAN, unsure : BOOLEAN, faults : Nat]
      /\ aux'.last = op /\ aux'.taken = aux.taken
      /\ aux.faults > 0 => aux'.faults > 0
  BY <1>1, <1>3
<1> QED
  BY <1>1, <1>4 DEF ChargerKept, ChargerType, DefaultsNoticed, op

LEMMA WriteKeeps ==
  ASSUME ChargerType, DefaultsNoticed, WriteShipMode
  PROVE  ChargerKept /\ bus' = "suspended" /\ (chip'.ship \/ aux'.faults > 0)
<1>1. PICK failed \in Failures({"ship"}) :
        /\ chip' = [chip EXCEPT !.ship = "ship" \notin failed]
        /\ bus' = "suspended" /\ aux' = Did("ship", failed)
  BY DEF WriteShipMode
<1>2. IsFiniteSet(failed)
  BY FailuresFinite
<1>3. /\ aux' \in [last : Operations, taken : BOOLEAN, unsure : BOOLEAN, faults : Nat]
      /\ aux'.taken = aux.taken
      /\ aux.faults > 0 \/ failed # {} => aux'.faults > 0
  BY <1>1, <1>2, DidType DEF Operations
<1> QED
  BY <1>1, <1>3 DEF ChargerKept, ChargerType, DefaultsNoticed

LEMMA QuietKeeps ==
  ASSUME ChargerType, DefaultsNoticed, UNCHANGED <<chip, aux>>
  PROVE  ChargerKept
  BY DEF ChargerKept, ChargerType, DefaultsNoticed

LEMMA ResetKeeps ==
  ASSUME CInv, Restarted, \/ UNCHANGED chip
                          \/ chip' = [chip EXCEPT !.ship = FALSE]
  PROVE  CInv'
<1>1. aux' = Did("none", {}) /\ IsFiniteSet({})
  BY FS_EmptySet DEF Restarted
<1>2. /\ aux' \in [last : Operations, taken : BOOLEAN, unsure : BOOLEAN, faults : Nat]
      /\ aux'.last = "none" /\ aux'.taken = aux.taken
      /\ aux.faults > 0 => aux'.faults > 0
  BY <1>1, DidType DEF CInv, Operations
<1>3. ChargerType' /\ DefaultsNoticed'
  BY <1>2 DEF CInv, ChargerType, DefaultsNoticed
<1> QED
  BY <1>2, <1>3 DEF CInv, BusInv, Restarted

LEMMA ChipKeeps ==
  ASSUME CInv, ChipAlone
  PROVE  CInv'
<1> USE DEF CInv, ChargerType, DefaultsNoticed, BusInv, ChipAlone, own, Stats
<1>1. CASE Supply
  BY <1>1 DEF Supply
<1>2. CASE ChargeDone
  BY <1>2 DEF ChargeDone
<1>3. CASE Fallback
  BY <1>3 DEF Fallback
<1> QED
  BY <1>1, <1>2, <1>3 DEF Chip

LEMMA ReinitStep ==
  ASSUME CInv, FirstReinit \/ SecondReinit \/ InitDevices \/ BatteryCheck
  PROVE  CInv'
<1>1. at \in {"reinit", "reinit2", "devices", "battery"} /\ board' = board
  BY DEF FirstReinit, SecondReinit, InitDevices, BatteryCheck, PauseThenFeed, Go, own
<1>2. PICK force \in BOOLEAN : BqReinit(force)
  BY DEF FirstReinit, SecondReinit, InitDevices, BatteryCheck
<1>3. CASE board.charger
  <2>1. ChargerKept /\ bus' = "suspended"
    BY <1>2, <1>3, ReinitKeeps DEF BqReinit, CInv
  <2> QED BY <2>1 DEF ChargerKept, CInv, BusInv
<1>4. CASE ~board.charger
  <2>1. ChargerKept
    BY <1>2, <1>4, QuietKeeps DEF BqReinit, chargerVars, CInv
  <2> QED BY <1>1, <1>4, <2>1 DEF ChargerKept, CInv, BusInv
<1> QED
  BY <1>3, <1>4

LEMMA QuestionStep ==
  ASSUME CInv, VoltageLow \/ Nokeys
  PROVE  CInv'
<1>1. board' = board
  BY DEF VoltageLow, Nokeys, own
<1>2. PICK charging \in BOOLEAN : BqIsCharging(charging)
  BY DEF VoltageLow, Nokeys
<1>3. CASE board.charger
  <2>1. PICK failed \in Failures({"ts", "status"}) : IsCharging(failed)
    BY <1>2, <1>3 DEF BqIsCharging
  <2>2. ChargerKept /\ aux'.last = "charging"
    BY <2>1, FailuresFinite, IsChargingKeeps DEF CInv
  <2> QED BY <2>2 DEF ChargerKept, CInv, BusInv
<1>4. CASE ~board.charger
  <2>1. ChargerKept
    BY <1>2, <1>4, QuietKeeps DEF BqIsCharging, chargerVars, CInv
  <2> QED BY <1>1, <1>4, <2>1 DEF ChargerKept, CInv, BusInv
<1> QED
  BY <1>3, <1>4

LEMMA ShipStep ==
  ASSUME CInv, Ship
  PROVE  CInv'
<1>1. board' = board
  BY DEF Ship, own
<1>2. CASE ~board.charger
  <2>1. ChargerKept
    BY <1>2, QuietKeeps DEF Ship, chargerVars, CInv
  <2> QED BY <1>1, <1>2, <2>1 DEF ChargerKept, CInv, BusInv
<1>3. CASE board.charger
  <2>1. PICK refused \in BOOLEAN :
          AskShipMode(refused) /\ at' = IF refused THEN "poweroff" ELSE "shipping"
    BY <1>3 DEF Ship
  <2>2. ChargerKept /\ aux'.last = IF refused THEN "refused" ELSE "asked"
    BY <2>1, AskKeeps DEF CInv
  <2> QED BY <2>1, <2>2 DEF ChargerKept, CInv, BusInv
<1> QED
  BY <1>2, <1>3

LEMMA ShipWriteStep ==
  ASSUME CInv, ShipWrite
  PROVE  CInv'
  BY WriteKeeps DEF ShipWrite, ChargerKept, CInv, BusInv

LEMMA StartStep ==
  ASSUME CInv, Start
  PROVE  CInv'
<1>1. PICK failed \in SUBSET {"wdt", "pin"} :
        aux' = Did("none", failed) /\ at' = IF "pin" \in failed THEN "dead" ELSE "lit"
  BY DEF Start
<1>2. IsFiniteSet({"wdt"}) /\ IsFiniteSet({"wdt"} \cup {"pin"})
  BY FS_Singleton, FS_AddElement
<1>3. IsFiniteSet(failed)
  <2>1. failed \in SUBSET ({"wdt"} \cup {"pin"})
    BY <1>1
  <2> QED BY <1>2, <2>1, FS_Subset
<1>4. /\ aux' \in [last : Operations, taken : BOOLEAN, unsure : BOOLEAN, faults : Nat]
      /\ aux'.last = "none" /\ aux'.taken = aux.taken
      /\ aux.faults > 0 => aux'.faults > 0
  BY <1>1, <1>3, DidType DEF CInv, Operations
<1> QED
  BY <1>1, <1>4 DEF Start, WatchdogStarted, own, CInv, ChargerType, DefaultsNoticed, BusInv

(* The steps of the main thread that leave the charger alone.                *)
QuietStart ==
  \/ Feed \/ Lit \/ Switch \/ StayOff \/ Ready \/ StillPressed \/ Released \/ Sleep
QuietSettings ==
  \/ Exit \/ AuthorizedWait \/ Leave \/ LeaveForUpload \/ LeaveForReset
  \/ UploadRound \/ UploadOver \/ RebootRound
QuietTick ==
  \/ BatteryNotDue \/ VoltageGood \/ HasProtocol \/ SettingsEntry \/ NoSettingsEntry
  \/ NotPressed \/ ShortPress \/ LongPress \/ LongPressSeen \/ StillHeld \/ SwitchOff
  \/ Sensor \/ PowerOff
Quiet == QuietStart \/ QuietSettings \/ QuietTick

LEMMA QuietFrame ==
  ASSUME Quiet
  PROVE  UNCHANGED <<chip, bus, lastVoltage, aux, board>>
<1> USE DEF chargerVars, own
<1>1. QuietStart => UNCHANGED <<chip, bus, lastVoltage, aux, board>>
  BY DEF QuietStart, Feed, Lit, Switch, StayOff, Ready, StillPressed, Released, Sleep
<1>2. QuietSettings => UNCHANGED <<chip, bus, lastVoltage, aux, board>>
  BY DEF QuietSettings, Exit, AuthorizedWait, Leave, LeaveForUpload, LeaveForReset,
     UploadRound, UploadOver, RebootRound
<1>3. BatteryNotDue \/ VoltageGood \/ HasProtocol \/ SettingsEntry \/ NoSettingsEntry \/ NotPressed =>
        UNCHANGED <<chip, bus, lastVoltage, aux, board>>
  BY DEF BatteryNotDue, VoltageGood, HasProtocol, SettingsEntry, NoSettingsEntry, NotPressed
<1>4. ShortPress \/ LongPressSeen => UNCHANGED <<chip, bus, lastVoltage, aux, board>>
  BY DEF ShortPress, LongPressSeen
<1>5. LongPress => UNCHANGED <<chip, bus, lastVoltage, aux, board>>
  BY DEF LongPress, PauseThenFeed
<1>6. StillHeld \/ SwitchOff \/ Sensor \/ PowerOff =>
        UNCHANGED <<chip, bus, lastVoltage, aux, board>>
  BY DEF StillHeld, SwitchOff, Sensor, PowerOff
<1> QED
  BY <1>1, <1>2, <1>3, <1>4, <1>5, <1>6 DEF Quiet, QuietTick

LEMMA QuietStep ==
  ASSUME CInv, Quiet
  PROVE  CInv'
<1> USE DEF PauseThenFeed, Go
<1>1. UNCHANGED <<chip, bus, aux, board>>
  BY QuietFrame
<1>2. CASE QuietStart
  <2>1. \/ at = "feed" /\ at' = then
        \/ at = "lit" /\ at' = "feed" /\ then' = "switch"
        \/ at = "switch" /\ at' \in {"reinit", "unlit"}
        \/ at = "unlit" /\ at' = "poweroff"
        \/ at \in {"ready", "release", "sleep"}
    BY <1>2 DEF QuietStart, Feed, Lit, Switch, StayOff, Ready, StillPressed, Released,
       Sleep
  <2>2. BusInv'
    BY <1>1, <2>1 DEF CInv, BusInv
  <2> QED BY <1>1, <2>2, QuietKeeps DEF ChargerKept, CInv
<1>3. CASE QuietSettings
  <2>1. at \in {"exit", "authorized", "leave", "upload", "reboot"}
    BY <1>3 DEF QuietSettings, Exit, AuthorizedWait, Leave, LeaveForUpload,
       LeaveForReset, UploadRound, UploadOver, RebootRound
  <2>2. BusInv'
    BY <1>1, <2>1 DEF CInv, BusInv
  <2> QED BY <1>1, <2>2, QuietKeeps DEF ChargerKept, CInv
<1>4. CASE QuietTick
  <2> DEFINE Busy == {"battery", "uvlo", "nokeys", "settings", "button", "blink", "held", "sensor"}
  <2>1. BatteryNotDue \/ VoltageGood \/ HasProtocol \/ SettingsEntry \/ NoSettingsEntry => at \in Busy
    BY DEF BatteryNotDue, VoltageGood, HasProtocol, SettingsEntry, NoSettingsEntry
  <2>2. NotPressed \/ ShortPress \/ LongPress => at \in Busy
    BY DEF NotPressed, ShortPress, LongPress
  <2>3. LongPressSeen \/ StillHeld \/ SwitchOff \/ Sensor => at \in Busy
    BY DEF LongPressSeen, StillHeld, SwitchOff, Sensor
  <2>4. PowerOff => at = "poweroff" /\ at' = "off"
    BY DEF PowerOff
  <2>5. at \in Busy \/ (at = "poweroff" /\ at' = "off")
    BY <1>4, <2>1, <2>2, <2>3, <2>4 DEF QuietTick
  <2>6. BusInv'
    BY <1>1, <2>5 DEF CInv, BusInv
  <2> QED BY <1>1, <2>6, QuietKeeps DEF ChargerKept, CInv
<1> QED
  BY <1>2, <1>3, <1>4 DEF Quiet

LEMMA ChargerStep ==
  ASSUME CInv, [Next]_vars
  PROVE  CInv'
<1>1. CASE Quiet
  BY <1>1, QuietStep
<1>2. CASE Start
  BY <1>2, StartStep
<1>3. CASE FirstReinit \/ SecondReinit \/ InitDevices \/ BatteryCheck
  BY <1>3, ReinitStep
<1>4. CASE VoltageLow \/ Nokeys
  BY <1>4, QuestionStep
<1>5. CASE Ship \/ ShipWrite
  BY <1>5, ShipStep, ShipWriteStep
<1>6. CASE Reset \/ Bite \/ PowerOn
  BY <1>6, ResetKeeps DEF Reset, Bite, PowerOn
<1>7. CASE ChipAlone
  BY <1>7, ChipKeeps
<1>8. CASE Wait \/ UNCHANGED vars
  BY <1>8 DEF Wait, vars, chargerVars, own, CInv, ChargerType, DefaultsNoticed, BusInv
<1> QED
  BY <1>1, <1>2, <1>3, <1>4, <1>5, <1>6, <1>7, <1>8 DEF Next, Main, Startup, InSettings,
     Tick, Quiet, QuietStart, QuietSettings, QuietTick

LEMMA ChargerInvariant == Spec => []CInv
<1>1. Init => CInv
  BY DEF Init, ChargerInit, CInv, ChargerType, Operations, Stats, DefaultsNoticed, BusInv
<1> QED
  BY <1>1, ChargerStep, PTL DEF Spec

(* A charger on its defaults keeps the flag that has it programmed, through  *)
(* resets, failed transfers and every way of the main thread, but for        *)
(* is_charging() and a flag that was cleared the moment it came up.          *)
THEOREM DefaultsStayNoticed == Spec => []DefaultsNoticed
  BY ChargerInvariant, PTL DEF CInv

(* Where the beacon sleeps or is switched off the bus is suspended, but for  *)
(* a question for charging or a refused ship mode.                           *)
THEOREM BusParked == Spec => []Parked
<1>1. CInv => Parked
  BY DEF CInv, BusInv, Parked
<1> QED
  BY <1>1, ChargerInvariant, PTL

--------------------------------------------------------------------------------
(* Switching off.                                                            *)

SupplyInv == chip.stat # "ready" => chip.vin

(* On the way to system off a beacon that is still turned on went through    *)
(* the ship mode.                                                            *)
OffInv ==
  /\ at = "unlit" => ~on
  /\ board.charger /\ at \in {"poweroff", "off"} /\ on =>
       chip.ship \/ aux.last = "refused" \/ aux.faults > 0

(* In the pause of the ship mode a charger charges only if the answer was    *)
(* lost or the supply came since.                                            *)
AskedInv ==
  at = "shipping" =>
    board.charger /\ aux.last = "asked" /\ (chip.stat = "charging" => aux.unsure)

(* The steps that go to none of the places the two are about.                *)
LEMMA ElsewhereStep ==
  ASSUME TInv, Next,
         ~(Switch \/ StayOff \/ Ship \/ ShipWrite \/ SwitchOff \/ PowerOff \/ ChipAlone)
  PROVE  at' \notin {"unlit", "shipping", "poweroff", "off"}
<1> USE DEF Go, PauseThenFeed
<1>1. CASE Feed \/ Sleep \/ Wait \/ Bite \/ PowerOn
  BY <1>1 DEF Feed, Sleep, Wait, own, Bite, PowerOn, Restarted, TInv, Budgets
<1>2. CASE Startup
  <2>1. CASE Start
    BY <2>1 DEF Start
  <2>2. CASE Lit \/ FirstReinit \/ SecondReinit \/ InitDevices
    BY <2>2 DEF Lit, FirstReinit, SecondReinit, InitDevices
  <2>3. CASE Ready \/ Released
    BY <2>3 DEF Ready, Released
  <2>4. CASE StillPressed
    BY <2>4 DEF StillPressed
  <2> QED BY <1>2, <2>1, <2>2, <2>3, <2>4 DEF Startup
<1>3. CASE InSettings
  <2>1. CASE Exit \/ AuthorizedWait \/ Leave \/ LeaveForUpload \/ LeaveForReset
    BY <2>1 DEF Exit, AuthorizedWait, Leave, LeaveForUpload, LeaveForReset
  <2>2. CASE UploadRound \/ UploadOver \/ RebootRound \/ Reset
    BY <2>2 DEF UploadRound, UploadOver, RebootRound, Reset, Restarted
  <2> QED BY <1>3, <2>1, <2>2 DEF InSettings
<1>4. CASE BatteryNotDue \/ BatteryCheck \/ VoltageGood \/ VoltageLow \/ Nokeys \/ HasProtocol
  <2>1. CASE BatteryNotDue \/ BatteryCheck \/ VoltageGood \/ HasProtocol
    BY <2>1 DEF BatteryNotDue, BatteryCheck, VoltageGood, HasProtocol
  <2>2. CASE VoltageLow
    BY <2>2 DEF VoltageLow
  <2>3. CASE Nokeys
    BY <2>3 DEF Nokeys
  <2> QED BY <1>4, <2>1, <2>2, <2>3
<1>5. CASE \/ SettingsEntry \/ NoSettingsEntry \/ NotPressed \/ ShortPress \/ LongPress
           \/ LongPressSeen \/ StillHeld \/ Sensor
  <2>1. CASE SettingsEntry \/ NoSettingsEntry \/ NotPressed \/ ShortPress
    BY <2>1 DEF SettingsEntry, NoSettingsEntry, NotPressed, ShortPress
  <2>2. CASE LongPress
    BY <2>2 DEF LongPress
  <2>3. CASE LongPressSeen
    BY <2>3 DEF LongPressSeen
  <2>4. CASE StillHeld \/ Sensor
    BY <2>4 DEF StillHeld, Sensor
  <2> QED BY <1>5, <2>1, <2>2, <2>3, <2>4
<1> QED
  BY <1>1, <1>2, <1>3, <1>4, <1>5 DEF Next, Main, Tick

(* The question of the ship mode: what it does not see, it is unsure of.     *)
LEMMA AskOutcome ==
  ASSUME ChargerType, SupplyInv, NEW refused \in BOOLEAN, AskShipMode(refused)
  PROVE  /\ UNCHANGED chip
         /\ aux'.last = IF refused THEN "refused" ELSE "asked"
         /\ ~refused /\ chip.stat = "charging" => aux'.unsure
<1>1. PICK failed \in Failures({"status"}) :
        /\ refused = Refused(failed) /\ UNCHANGED chip
        /\ aux' = [Did(IF refused THEN "refused" ELSE "asked", failed) EXCEPT
                     !.unsure = failed # {}]
  BY DEF AskShipMode
<1>2. aux'.last = (IF refused THEN "refused" ELSE "asked") /\ aux'.unsure = (failed # {})
  BY <1>1 DEF Did, ChargerType
<1>3. ~refused /\ chip.stat = "charging" => failed # {}
  BY <1>1 DEF Refused, Answers, SupplyInv
<1> QED
  BY <1>1, <1>2, <1>3

(* No other step than the write sends the chip into ship mode, or ends a     *)
(* supply and not the charging.                                              *)
LEMMA OtherSteps ==
  ASSUME ChargerType, SupplyInv, [Next]_vars, ~ShipWrite
  PROVE  SupplyInv' /\ (chip'.ship => chip.ship)
<1>1. CASE Quiet \/ Start \/ Wait \/ Reset \/ Bite \/ PowerOn \/ UNCHANGED vars
  <2> USE DEF chargerVars
  <2>1. UNCHANGED chip \/ chip' = [chip EXCEPT !.ship = FALSE]
    BY <1>1, QuietFrame DEF Start, Wait, Reset, Bite, PowerOn, vars
  <2> QED BY <2>1 DEF ChargerType, SupplyInv
<1>2. CASE FirstReinit \/ SecondReinit \/ InitDevices \/ BatteryCheck \/ VoltageLow \/ Nokeys
  <2>1. UNCHANGED chip \/ (\E force \in BOOLEAN : Reinit(force)) \/ \E failed : IsCharging(failed)
    BY <1>2 DEF FirstReinit, SecondReinit, InitDevices, BatteryCheck, VoltageLow, Nokeys,
       BqReinit, BqIsCharging, chargerVars
  <2>2. ASSUME NEW force \in BOOLEAN, Reinit(force)
        PROVE  chip'.stat = chip.stat /\ chip'.vin = chip.vin /\ chip'.ship = chip.ship
    BY <2>2 DEF Reinit, ChargerType
  <2>3. ASSUME NEW failed, IsCharging(failed)
        PROVE  chip'.stat = chip.stat /\ chip'.vin = chip.vin /\ chip'.ship = chip.ship
    BY <2>3 DEF IsCharging, ChargerType
  <2> QED BY <2>1, <2>2, <2>3 DEF SupplyInv
<1>3. CASE ChipAlone
  BY <1>3 DEF ChipAlone, Chip, Supply, ChargeDone, Fallback, ChargerType, SupplyInv, Stats
<1>4. CASE Ship
  <2>1. UNCHANGED chip
    BY <1>4, AskOutcome DEF Ship, chargerVars
  <2> QED BY <2>1 DEF SupplyInv
<1> QED
  BY <1>1, <1>2, <1>3, <1>4 DEF Next, Main, Startup, InSettings, Tick, Quiet, QuietStart,
     QuietSettings, QuietTick

LEMMA OffStep ==
  ASSUME TInv, ChargerType, DefaultsNoticed, SupplyInv, OffInv, [Next]_vars
  PROVE  OffInv'
<1>1. CASE Next /\ ~(Switch \/ StayOff \/ Ship \/ ShipWrite \/ SwitchOff \/ PowerOff \/ ChipAlone)
  BY <1>1, ElsewhereStep DEF OffInv
<1>2. CASE Switch \/ StayOff \/ SwitchOff \/ PowerOff
  <2> USE DEF OffInv, Go, own, chargerVars
  <2>1. CASE Switch
    BY <2>1 DEF Switch
  <2>2. CASE StayOff
    BY <2>2 DEF StayOff
  <2>3. CASE SwitchOff
    BY <2>3 DEF SwitchOff
  <2>4. CASE PowerOff
    BY <2>4 DEF PowerOff
  <2> QED BY <1>2, <2>1, <2>2, <2>3, <2>4
<1>3. CASE Ship
  <2>1. CASE board.charger
    <3>1. PICK refused \in BOOLEAN :
            AskShipMode(refused) /\ at' = IF refused THEN "poweroff" ELSE "shipping"
      BY <1>3, <2>1 DEF Ship
    <3> QED BY <3>1, AskOutcome DEF OffInv
  <2>2. CASE ~board.charger
    BY <1>3, <2>2 DEF Ship, OffInv, own
  <2> QED BY <2>1, <2>2
<1>4. CASE ShipWrite
  BY <1>4, WriteKeeps DEF ShipWrite, OffInv, Go
<1>5. CASE ChipAlone
  <2>1. aux'.last = aux.last /\ aux'.faults = aux.faults /\ chip'.ship = chip.ship
    BY <1>5 DEF ChipAlone, Chip, Supply, ChargeDone, Fallback, ChargerType
  <2> QED BY <1>5, <2>1 DEF ChipAlone, OffInv, own
<1>6. CASE UNCHANGED vars
  BY <1>6 DEF vars, own, chargerVars, OffInv
<1> QED
  BY <1>1, <1>2, <1>3, <1>4, <1>5, <1>6

(* While the thread is in the pause of the ship mode only the chip moves.    *)
LEMMA AskedStep ==
  ASSUME TInv, ChargerType, SupplyInv, AskedInv, [Next]_vars
  PROVE  AskedInv'
<1>1. CASE Next /\ ~(Switch \/ StayOff \/ Ship \/ ShipWrite \/ SwitchOff \/ PowerOff \/ ChipAlone)
  BY <1>1, ElsewhereStep DEF AskedInv
<1>2. CASE Switch \/ StayOff \/ ShipWrite \/ SwitchOff \/ PowerOff
  <2>1. at' # "shipping"
    BY <1>2 DEF Switch, StayOff, ShipWrite, SwitchOff, PowerOff, Go
  <2> QED BY <2>1 DEF AskedInv
<1>3. CASE Ship
  <2>1. CASE board.charger
    <3>1. PICK refused \in BOOLEAN :
            AskShipMode(refused) /\ at' = IF refused THEN "poweroff" ELSE "shipping"
      BY <1>3, <2>1 DEF Ship
    <3>2. board' = board
      BY <1>3 DEF Ship, own
    <3> QED BY <2>1, <3>1, <3>2, AskOutcome DEF AskedInv
  <2>2. CASE ~board.charger
    BY <1>3, <2>2 DEF Ship, AskedInv
  <2> QED BY <2>1, <2>2
<1>4. CASE ChipAlone
  <2>1. at' = at /\ board' = board
    BY <1>4 DEF ChipAlone, own
  <2>2. CASE Supply
    BY <2>1, <2>2 DEF Supply, AskedInv, ChargerType
  <2>3. CASE ChargeDone
    BY <2>1, <2>3 DEF ChargeDone, AskedInv, ChargerType
  <2>4. CASE Fallback
    BY <2>1, <2>4 DEF Fallback, AskedInv, ChargerType
  <2> QED BY <1>4, <2>2, <2>3, <2>4 DEF ChipAlone, Chip
<1>5. CASE UNCHANGED vars
  BY <1>5 DEF vars, own, chargerVars, AskedInv
<1> QED
  BY <1>1, <1>2, <1>3, <1>4, <1>5

LEMMA SupplyStep ==
  ASSUME ChargerType, SupplyInv, [Next]_vars
  PROVE  SupplyInv'
<1>1. CASE ShipWrite
  BY <1>1 DEF ShipWrite, WriteShipMode, SupplyInv, ChargerType
<1> QED
  BY <1>1, OtherSteps

(* The inductive invariant of all that is proved here.                       *)
DInv == TInv /\ CInv /\ SupplyInv /\ OffInv /\ AskedInv

LEMMA DevicesInvariant == Spec => []DInv
<1>1. Init => DInv
  <2>1. Init => CInv
    BY DEF Init, ChargerInit, CInv, ChargerType, Operations, Stats, DefaultsNoticed, BusInv
  <2>2. Init => SupplyInv /\ OffInv /\ AskedInv
    BY DEF Init, ChargerInit, SupplyInv, OffInv, AskedInv
  <2> QED BY <2>1, <2>2, InitTimes DEF DInv
<1>2. DInv /\ [Next]_vars => DInv'
  BY TimesStep, ChargerStep, SupplyStep, OffStep, AskedStep DEF DInv, CInv
<1> QED
  BY <1>1, <1>2, PTL DEF Spec

(* A board with the charger that shuts itself down is in ship mode, was      *)
(* refused it, or a transfer has failed.                                     *)
THEOREM OffIsShipMode == Spec => []OffInShipMode
<1>1. DInv => OffInShipMode
  BY DEF DInv, OffInv, OffInShipMode
<1> QED
  BY <1>1, DevicesInvariant, PTL

(* No step of any handler sends a charging chip into ship mode, unless the   *)
(* supply came in the pause of bq2512x_shipmode() or its answer was lost.    *)
THEOREM ChargingNeverShipped == Spec => NoShipModeWhileCharging
<1>1. DInv /\ [Next]_vars =>
        [chip'.ship /\ ~chip.ship /\ chip.stat = "charging" => aux.unsure]_vars
  <2> SUFFICES ASSUME DInv, [Next]_vars
      PROVE  chip'.ship /\ ~chip.ship /\ chip.stat = "charging" => aux.unsure
    OBVIOUS
  <2>1. CASE ShipWrite
    BY <2>1 DEF ShipWrite, Go, DInv, AskedInv
  <2> QED BY <2>1, OtherSteps DEF DInv, CInv
<1> QED
  BY <1>1, DevicesInvariant, PTL DEF Spec, NoShipModeWhileCharging

--------------------------------------------------------------------------------
(* The other variables.                                                      *)

ChargerRest ==
  /\ bus \in {"active", "suspended"} /\ lastVoltage \in Nat /\ aux.faults <= MaxFaults

LEMMA GaugeType ==
  ASSUME NEW code \in Codes
  PROVE  Gauge(code) \in Nat
<1>1. code.range \in Nat /\ code.th \in 0..7
  BY CodesAssumption
<1>2. Threshold[code.th] \in Nat
  BY <1>1 DEF Threshold
<1>3. Percent(code) \in Nat
  BY <1>1, <1>2 DEF Percent
<1> QED
  BY <1>3 DEF Gauge

(* One transfer of an operation fails, and only while failures are left.     *)
LEMMA DidFaults ==
  ASSUME ChargerType, aux.faults <= MaxFaults, NEW ops, NEW failed \in Failures(ops), NEW op
  PROVE  Did(op, failed).faults \in Nat /\ Did(op, failed).faults <= MaxFaults
<1>1. Did(op, failed).faults = aux.faults + Cardinality(failed) /\ aux.faults \in Nat
  BY DEF Did, ChargerType
<1>2. CASE failed = {}
  BY <1>1, <1>2, FS_EmptySet
<1>3. CASE failed # {}
  <2>1. PICK o \in ops : failed = {o} /\ aux.faults < MaxFaults
    BY <1>3 DEF Failures
  <2>2. Cardinality(failed) = 1
    BY <2>1, FS_Singleton
  <2> QED BY <1>1, <2>1, <2>2, MaxFaultsAssumption
<1> QED
  BY <1>2, <1>3

LEMMA ReinitRest ==
  ASSUME ChargerType, ChargerRest, NEW force \in BOOLEAN, Reinit(force)
  PROVE  ChargerRest'
<1>1. PICK failed \in Failures({"ts", "gauge"} \cup Regs), code \in Codes, fell \in BOOLEAN :
        /\ lastVoltage' = VoltageAfter(failed, code)
        /\ bus' = BusAfter
        /\ aux' = [Did("reinit", failed) EXCEPT !.taken = (@ \/ fell) /\ ~Rewritten(force, failed)]
  BY DEF Reinit
<1>2. aux'.faults <= MaxFaults
  <2>1. aux'.faults = Did("reinit", failed).faults
    BY <1>1 DEF Did, ChargerType
  <2> QED BY <2>1, DidFaults DEF ChargerRest
<1>3. lastVoltage' \in Nat
  BY <1>1, GaugeType DEF VoltageAfter, ChargerRest
<1> QED
  BY <1>1, <1>2, <1>3 DEF ChargerRest, BusAfter

LEMMA IsChargingRest ==
  ASSUME ChargerType, ChargerRest, NEW failed \in Failures({"ts", "status"}), IsCharging(failed)
  PROVE  ChargerRest'
<1>1. aux'.faults <= MaxFaults
  <2>1. aux'.faults = Did("charging", failed).faults
    BY DEF IsCharging, Did, ChargerType
  <2> QED BY <2>1, DidFaults DEF ChargerRest
<1> QED
  BY <1>1 DEF IsCharging, ChargerRest

LEMMA ShipModeRest ==
  ASSUME ChargerType, ChargerRest, WriteShipMode \/ \E refused \in BOOLEAN : AskShipMode(refused)
  PROVE  ChargerRest'
<1>1. CASE WriteShipMode
  <2>1. PICK failed \in Failures({"ship"}) : aux' = Did("ship", failed)
    BY <1>1 DEF WriteShipMode
  <2>2. aux'.faults <= MaxFaults
    BY <2>1, DidFaults DEF ChargerRest
  <2> QED BY <1>1, <2>2 DEF WriteShipMode, ChargerRest
<1>2. ASSUME NEW refused \in BOOLEAN, AskShipMode(refused) PROVE ChargerRest'
  <2> DEFINE op == IF refused THEN "refused" ELSE "asked"
  <2>1. PICK failed \in Failures({"status"}) :
          aux' = [Did(op, failed) EXCEPT !.unsure = failed # {}]
    BY <1>2 DEF AskShipMode
  <2>2. aux'.faults = Did(op, failed).faults
    BY <2>1 DEF Did, ChargerType
  <2>3. aux'.faults <= MaxFaults
    BY <2>2, DidFaults DEF ChargerRest
  <2> QED BY <1>2, <2>3 DEF AskShipMode, ChargerRest
<1> QED
  BY <1>1, <1>2

LEMMA RestartedRest ==
  ASSUME ChargerType, ChargerRest, Restarted
  PROVE  ChargerRest'
<1>1. aux' = Did("none", {}) /\ {} \in Failures({})
  BY DEF Restarted, Failures
<1> QED
  BY <1>1, DidFaults DEF Restarted, ChargerRest

LEMMA ChargerRestStep ==
  ASSUME ChargerType, ChargerRest, [Next]_vars
  PROVE  ChargerRest'
<1> USE DEF chargerVars
<1>1. CASE UNCHANGED chargerVars
  BY <1>1 DEF ChargerRest
<1>2. Quiet => UNCHANGED chargerVars
  BY QuietFrame
<1>3. CASE Start
  <2>1. PICK failed : aux.faults + Cardinality(failed) <= MaxFaults /\ aux' = Did("none", failed)
    BY <1>3 DEF Start
  <2>2. aux'.faults = aux.faults + Cardinality(failed)
    BY <2>1 DEF Did, ChargerType
  <2> QED BY <1>3, <2>1, <2>2 DEF Start, ChargerRest
<1>4. CASE FirstReinit \/ SecondReinit \/ InitDevices \/ BatteryCheck
  <2>1. PICK force \in BOOLEAN : BqReinit(force)
    BY <1>4 DEF FirstReinit, SecondReinit, InitDevices, BatteryCheck
  <2> QED BY <1>1, <2>1, ReinitRest DEF BqReinit
<1>5. CASE VoltageLow \/ Nokeys
  <2>1. PICK charging \in BOOLEAN : BqIsCharging(charging)
    BY <1>5 DEF VoltageLow, Nokeys
  <2> QED BY <1>1, <2>1, IsChargingRest DEF BqIsCharging
<1>6. CASE Ship \/ ShipWrite
  BY <1>1, <1>6, ShipModeRest DEF Ship, ShipWrite
<1>7. CASE Reset \/ Bite \/ PowerOn
  BY <1>7, RestartedRest DEF Reset, Bite, PowerOn
<1>8. CASE ChipAlone
  <2>1. UNCHANGED <<bus, lastVoltage>> /\ aux'.faults = aux.faults
    BY <1>8 DEF ChipAlone, Chip, Supply, ChargeDone, Fallback, ChargerType
  <2> QED BY <2>1 DEF ChargerRest
<1>9. CASE Wait \/ UNCHANGED vars
  BY <1>1, <1>9 DEF Wait, vars
<1> QED
  BY <1>1, <1>2, <1>3, <1>4, <1>5, <1>6, <1>7, <1>8, <1>9
     DEF Next, Main, Startup, InSettings, Tick, Quiet, QuietStart, QuietSettings, QuietTick

(* A feed goes on to a place of the main thread.                             *)
LEMMA ThenStep ==
  ASSUME then \in Places, [Next]_vars
  PROVE  then' \in Places
<1> DEFINE Fed == {"switch", "ready", "release", "exit", "battery", "authorized", "leave", "upload",
                   "blink", "held"}
<1> USE DEF own, Go, PauseThenFeed
<1>1. Fed \subseteq Places
  BY DEF Places
<1>2. CASE Startup
  <2>1. Start \/ Switch \/ StayOff \/ FirstReinit \/ SecondReinit \/ Ready \/ Released => then' = then
    BY DEF Start, Switch, StayOff, FirstReinit, SecondReinit, Ready, Released
  <2>2. Lit \/ InitDevices \/ StillPressed => then' \in Fed
    BY DEF Lit, InitDevices, StillPressed
  <2> QED BY <1>1, <1>2, <2>1, <2>2 DEF Startup
<1>3. CASE InSettings
  <2>1. Leave \/ LeaveForUpload \/ LeaveForReset \/ UploadOver \/ RebootRound \/ Reset => then' = then
    BY DEF Leave, LeaveForUpload, LeaveForReset, UploadOver, RebootRound, Reset, Restarted
  <2>2. AuthorizedWait \/ UploadRound => then' \in Fed
    BY DEF AuthorizedWait, UploadRound
  <2>3. Exit => then' = then \/ then' \in Fed
    BY DEF Exit
  <2> QED BY <1>1, <1>3, <2>1, <2>2, <2>3 DEF InSettings
<1>4. CASE Tick
  <2>1. \/ BatteryNotDue \/ BatteryCheck \/ VoltageGood \/ VoltageLow \/ Nokeys \/ HasProtocol
        \/ Ship \/ ShipWrite \/ SettingsEntry \/ NoSettingsEntry \/ NotPressed \/ ShortPress
        \/ LongPressSeen \/ SwitchOff \/ Sensor \/ PowerOff
        => then' = then
    BY DEF BatteryNotDue, BatteryCheck, VoltageGood, VoltageLow, Nokeys, HasProtocol, Ship,
       ShipWrite, SettingsEntry, NoSettingsEntry, NotPressed, ShortPress, LongPressSeen, SwitchOff, Sensor, PowerOff
  <2>2. LongPress \/ StillHeld => then' \in Fed
    BY DEF LongPress, StillHeld
  <2> QED BY <1>1, <1>4, <2>1, <2>2 DEF Tick
<1>5. CASE Feed \/ Wait \/ Bite \/ PowerOn \/ ChipAlone \/ UNCHANGED vars
  BY <1>5 DEF Feed, Wait, Bite, PowerOn, Restarted, ChipAlone, vars
<1>6. CASE Sleep
  <2>1. then' \in Fed
    BY <1>6 DEF Sleep
  <2> QED BY <1>1, <2>1
<1> QED
  BY <1>2, <1>3, <1>4, <1>5, <1>6 DEF Next, Main

MainFlags ==
  /\ armed \in BOOLEAN /\ mult \in Mults /\ protocols \in BOOLEAN
  /\ on \in BOOLEAN /\ inWindow \in BOOLEAN /\ started \in BOOLEAN

LEMMA FlagsStep ==
  ASSUME MainFlags, [Next]_vars
  PROVE  MainFlags'
<1> USE DEF own, PauseThenFeed
<1>1. CASE UNCHANGED <<armed, mult, protocols, on, inWindow, started>>
  BY <1>1 DEF MainFlags
<1>2. CASE Start
  <2>1. armed' \in BOOLEAN
    BY <1>2, Zenon DEF Start, WatchdogStarted
  <2> QED BY <1>2, <2>1 DEF Start, MainFlags
<1>3. CASE Switch
  <2>1. on' \in BOOLEAN /\ started' \in BOOLEAN
    BY <1>3, Zenon DEF Switch
  <2> QED BY <1>3, <2>1 DEF Switch, MainFlags
<1>4. CASE Leave \/ SettingsEntry \/ SwitchOff \/ PowerOff
  <2>1. CASE Leave
    BY <2>1, Zenon DEF Leave, MainFlags
  <2>2. CASE SettingsEntry
    BY <2>2, Zenon DEF SettingsEntry, MainFlags
  <2>3. CASE SwitchOff
    BY <2>3, Zenon DEF SwitchOff, MainFlags
  <2>4. CASE PowerOff
    BY <2>4, Zenon DEF PowerOff, MainFlags
  <2> QED BY <1>4, <2>1, <2>2, <2>3, <2>4
<1>5. CASE Reset \/ Bite \/ PowerOn
  BY <1>5 DEF Reset, Bite, PowerOn, Restarted, MainFlags
<1>6. Startup => Start \/ Switch \/ UNCHANGED <<armed, mult, protocols, on, inWindow, started>>
  BY DEF Startup, Lit, StayOff, FirstReinit, SecondReinit, InitDevices, Ready, StillPressed, Released
<1>7. InSettings => Leave \/ Reset \/ UNCHANGED <<armed, mult, protocols, on, inWindow, started>>
  BY DEF InSettings, Exit, AuthorizedWait, LeaveForUpload, LeaveForReset, UploadRound, UploadOver,
     RebootRound
<1>8. Tick => SettingsEntry \/ SwitchOff \/ PowerOff
              \/ UNCHANGED <<armed, mult, protocols, on, inWindow, started>>
  <2>1. \/ BatteryNotDue \/ BatteryCheck \/ VoltageGood \/ VoltageLow \/ Nokeys \/ HasProtocol
        \/ Ship \/ ShipWrite
        => UNCHANGED <<armed, mult, protocols, on, inWindow, started>>
    BY DEF BatteryNotDue, BatteryCheck, VoltageGood, VoltageLow, Nokeys, HasProtocol, Ship, ShipWrite
  <2>2. NoSettingsEntry \/ NotPressed \/ ShortPress =>
          UNCHANGED <<armed, mult, protocols, on, inWindow, started>>
    BY DEF NoSettingsEntry, NotPressed, ShortPress
  <2>3. LongPress \/ StillHeld => UNCHANGED <<armed, mult, protocols, on, inWindow, started>>
    BY DEF LongPress, StillHeld
  <2>4. LongPressSeen \/ Sensor => UNCHANGED <<armed, mult, protocols, on, inWindow, started>>
    BY DEF LongPressSeen, Sensor
  <2> QED BY <2>1, <2>2, <2>3, <2>4 DEF Tick
<1>9. Feed \/ Sleep \/ Wait \/ ChipAlone \/ UNCHANGED vars =>
        UNCHANGED <<armed, mult, protocols, on, inWindow, started>>
  BY DEF Feed, Sleep, Wait, ChipAlone, vars
<1> QED
  BY <1>1, <1>2, <1>3, <1>4, <1>5, <1>6, <1>7, <1>8, <1>9 DEF Next, Main

(* Every variable holds a value of its type. *)
THEOREM TypeCorrect == Spec => []TypeOK
<1>1. Init => ChargerRest
  BY MaxFaultsAssumption DEF Init, ChargerInit, ChargerRest
<1>2. Init => MainFlags /\ then \in Places
  <2>1. "start" \in Places
    BY DEF Places
  <2> QED BY <2>1, Zenon DEF Init, MainFlags
<1>3. DInv /\ ChargerRest /\ MainFlags /\ then \in Places /\ [Next]_vars =>
        (ChargerRest /\ MainFlags /\ then \in Places)'
  BY ChargerRestStep, FlagsStep, ThenStep DEF DInv, CInv
<1>4. DInv /\ ChargerRest /\ MainFlags /\ then \in Places => TypeOK
  <2> SUFFICES ASSUME DInv, ChargerRest, MainFlags, then \in Places PROVE TypeOK
    OBVIOUS
  <2>1. ChargerType /\ TimeType /\ at \in Places
    BY DEF DInv, CInv, TInv
  <2>2. aux \in [last : Operations, taken : BOOLEAN, unsure : BOOLEAN, faults : 0..MaxFaults]
    BY <2>1, MaxFaultsAssumption DEF ChargerType, ChargerRest
  <2> QED BY <2>1, <2>2 DEF ChargerType, TimeType, ChargerRest, MainFlags, TypeOK
<1> QED
  BY <1>1, <1>2, <1>3, <1>4, DevicesInvariant, PTL DEF Spec

================================================================================
