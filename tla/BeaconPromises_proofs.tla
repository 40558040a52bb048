------------------------- MODULE BeaconPromises_proofs -------------------------
(****************************************************************************)
(* The rest of what TLAPS proves of BeaconState: the switch, the battery and *)
(* the charger, the power of the radio, the flags and the key on the air,    *)
(* and that it implements BeaconModes.  Each part strengthens the invariant  *)
(* of BeaconState_proofs with what it needs.                                 *)
(****************************************************************************)
EXTENDS BeaconState_proofs

--------------------------------------------------------------------------------
(* The switch. *)

(* Only initialize() and a long press touch the switch, and only initialize()*)
(* brings a beacon that is off back into the main loop.                      *)
LEMMA SwitchWriters ==
  ASSUME Next
  PROVE  \/ BootOn \/ LongPress
         \/ /\ turnedOn' = turnedOn
            /\ pc \in {"boot", "off", "dark"} => pc' \in {"boot", "off", "dark"}
BY DEF Next, Main, Client, BootOff, Sync, Sleep, ExitNotDue, ExitDue, LeaveForUpload,
   UploadWait, Leave, Reboot, SaveTime, BatteryNotDue, BatteryCheck, BatteryGood, BatteryLow,
   NokeysShutdown, NokeysStay, SettingsNotDue, SettingsEntry, MaxPowerBurst,
   RotationNotDue, KeyRotation, ButtonUp, ShortPress, SwitchOff, Accelerometer, InitialBroadcast,
   Alternate, KeepBroadcasting, Connect, AuthAccepted, AuthRefused, RequestUpload,
   Disconnect, WriteField, AdvRestart, Crash, PowerOn, PowerOff, PowerUp

(* The main loop runs only with the persistent switch on, whatever resets,   *)
(* crashes and new batteries come in between: initialize() goes on with the  *)
(* switch on or the button held, which turns the switch on, and a long press *)
(* that turns it off is followed by the end of the system or a reset.        *)
THEOREM OnlyWhenTurnedOn == Spec => []RunsOnlyWhenTurnedOn
<1>1. Init => RunsOnlyWhenTurnedOn
  BY DEF Init, RunsOnlyWhenTurnedOn, Running
<1>2. RunsOnlyWhenTurnedOn /\ [Next]_vars => RunsOnlyWhenTurnedOn'
  <2> SUFFICES ASSUME RunsOnlyWhenTurnedOn, [Next]_vars
               PROVE  RunsOnlyWhenTurnedOn'
    OBVIOUS
  <2> USE DEF RunsOnlyWhenTurnedOn, Running
  <2>1. CASE BootOn
    BY <2>1 DEF BootOn, SwitchedOn
  <2>2. CASE LongPress
    BY <2>2 DEF LongPress
  <2>3. CASE /\ turnedOn' = turnedOn
             /\ pc \in {"boot", "off", "dark"} => pc' \in {"boot", "off", "dark"}
    BY <2>3
  <2>4. CASE UNCHANGED vars
    BY <2>4 DEF vars
  <2> QED
    BY <2>1, <2>2, <2>3, <2>4, SwitchWriters
<1> QED
  BY <1>1, <1>2, PTL DEF Spec

--------------------------------------------------------------------------------
(* The battery and the charger. *)

(* The count starts at zero, so that BadPowerJustified survives the first    *)
(* reading of the battery, in initialize().                                  *)
CountAtBoot == pc = "boot" => power.bad = 0

(* The charge lock runs down by mult_period a tick, and a tick takes as long:*)
(* what is left of it and the time since the charger was seen cover the lock *)
(* duration together.                                                        *)
LockCovers ==
  /\ power.lock > 0 => power.lock + since.charge * MaxMult >= ChargeLockDuration
  /\ power.lock <= 0 => since.charge * MaxMult >= ChargeLockDuration

BatteryInv == CountAtBoot /\ BadPowerJustified /\ LockCovers

LEMMA PowerWriters ==
  ASSUME Next
  PROVE  \/ BootOn \/ Sleep \/ BatteryCheck \/ BatteryGood \/ BatteryLow \/ PowerUp
         \/ /\ power' = power
            /\ pc = "uvlo" => pc' = "uvlo"
            /\ pc' = "boot" => pc = "boot"
BY DEF Next, Main, Client, BootOff, Sync, ExitNotDue, ExitDue, LeaveForUpload,
   UploadWait, Leave, Reboot, SaveTime, BatteryNotDue,
   NokeysShutdown, NokeysStay, SettingsNotDue, SettingsEntry, MaxPowerBurst,
   RotationNotDue, KeyRotation, ButtonUp, ShortPress, LongPress, SwitchOff, Accelerometer,
   InitialBroadcast, Alternate, KeepBroadcasting, Connect, AuthAccepted, AuthRefused, RequestUpload,
   Disconnect, WriteField, AdvRestart, Crash, PowerOn, PowerOff

LEMMA BadPowerStep ==
  ASSUME TypeOK, CountAtBoot, BadPowerJustified, [Next]_vars
  PROVE  CountAtBoot' /\ BadPowerJustified'
<1> USE DEF CountAtBoot, BadPowerJustified
<1>1. /\ power \in PowerType /\ power.bad \in Nat /\ power.lock \in Int
      /\ cfg.mult \in Nat /\ cfg.mult \in Int
  BY ConfigFacts, TimingAssumption DEF TypeOK, PowerType
<1>2. CASE BootOn
  BY <1>1, <1>2 DEF BootOn, PowerType
<1>3. CASE Sleep
  <2>1. power'.bad = power.bad /\ power'.voltage = power.voltage
    BY <1>1, <1>3 DEF Sleep, PowerType
  <2>2. power.lock <= 0 => power'.lock <= 0
    BY <1>1, <1>3 DEF Sleep, PowerType
  <2> QED
    BY <1>1, <1>3, <2>1, <2>2 DEF Sleep
<1>4. CASE BatteryCheck
  BY <1>1, <1>4 DEF BatteryCheck, PowerType
<1>5. CASE BatteryGood
  BY <1>1, <1>5 DEF BatteryGood, PowerType
<1>6. CASE BatteryLow
  <2>1. power'.bad > 0 => power'.voltage < BatteryLowVoltage /\ power'.lock <= 0
    BY <1>1, <1>6 DEF BatteryLow, BadAfter, PowerType
  <2>2. pc' # "boot"
    BY <1>6 DEF BatteryLow, PowerOff
  <2> QED
    BY <2>1, <2>2
<1>7. CASE PowerUp
  BY <1>7 DEF PowerUp, PowerZero
<1>8. CASE /\ power' = power
           /\ pc = "uvlo" => pc' = "uvlo"
           /\ pc' = "boot" => pc = "boot"
  BY <1>8
<1>9. CASE UNCHANGED vars
  BY <1>9 DEF vars
<1> QED
  BY <1>2, <1>3, <1>4, <1>5, <1>6, <1>7, <1>8, <1>9, PowerWriters

(* A sleep of d seconds moves the charger d seconds away, up to the cap. *)
LEMMA ChargeElapses ==
  ASSUME TypeOK, NEW d \in Nat, Elapse(d)
  PROVE  \/ since'.charge \in Nat /\ since'.charge >= since.charge + d
         \/ since'.charge = ChargeLockDuration
<1>1. PICK j \in Jitter : since' = SinceAfter(d + j)
  BY DEF Elapse
<1>2. since.charge \in Nat /\ j \in Nat /\ ChargeLockDuration \in Nat
  BY TimingAssumption DEF TypeOK, SinceType, Cap
<1>3. since'.charge = Lesser(since.charge + (d + j), ChargeLockDuration)
  BY <1>1 DEF SinceAfter, Cap
<1> QED
  BY <1>2, <1>3 DEF Lesser

(* Apart from handle_uvlo_shutdown() with the charger in sight, and from a   *)
(* power up, only the sleeps touch the time since the charger was seen.      *)
LEMMA ChargeWriters ==
  ASSUME TypeOK, Next
  PROVE  \/ Sleep \/ BatteryLow \/ PowerUp
         \/ since'.charge = since.charge \/ \E d \in Nat : Elapse(d)
<1>1. since \in [DOMAIN Cap -> Nat]
  BY DEF TypeOK, SinceType
<1>2. UploadSeconds \in Nat /\ BootSeconds \in Nat /\ 1 \in Nat
  BY TimingAssumption
<1>3. CASE ExitDue
  <2>1. ExitWait(snap) \in Nat
    BY TimingAssumption DEF ExitWait
  <2> QED
    BY <1>3, <2>1 DEF ExitDue
<1>4. CASE BootOn \/ UploadWait \/ ShortPress
  BY <1>2, <1>4 DEF BootOn, UploadWait, ShortPress
<1>5. CASE SaveTime \/ BatteryCheck \/ SettingsEntry \/ MaxPowerBurst \/ KeyRotation \/ Accelerometer
  BY <1>1, <1>5 DEF SaveTime, BatteryCheck, BatteryTimerReset, SettingsEntry, MaxPowerBurst,
     KeyRotation, Accelerometer, Cap
<1> QED
  BY <1>3, <1>4, <1>5 DEF Next, Main, Client, BootOff, Sync, ExitNotDue, LeaveForUpload, Leave,
     Reboot, BatteryNotDue, BatteryGood, NokeysShutdown, NokeysStay, SettingsNotDue,
     RotationNotDue, ButtonUp, LongPress, SwitchOff, InitialBroadcast,
     Alternate, KeepBroadcasting, Connect, AuthAccepted, AuthRefused, RequestUpload,
     Disconnect, WriteField, AdvRestart, Crash, PowerOn

(* The products below, one by one for the solver. *)
LEMMA ChargeProducts ==
  ASSUME TypeOK, NEW c \in Nat, NEW e \in Nat
  PROVE  /\ MaxMult \in Nat /\ MaxMult >= 1 /\ cfg.mult \in 1..MaxMult
         /\ c * MaxMult \in Nat /\ e * MaxMult \in Nat
         /\ c <= e => c * MaxMult <= e * MaxMult
         /\ c < e => c * MaxMult + MaxMult <= e * MaxMult
         /\ c <= c * MaxMult
<1>1. cfg \in ConfigType
  BY ConfigsAssumption DEF TypeOK
<1>2. cfg.mult \in 1..MaxMult /\ MaxMult \in Nat
  BY <1>1, TimingAssumption DEF ConfigType
<1> DEFINE m == MaxMult
<1>3. m \in Nat /\ m >= 1
  BY <1>2
<1> HIDE DEF m
<1>4. c * m \in Nat /\ e * m \in Nat /\ c <= c * m
  BY <1>3
<1>5. ASSUME c <= e PROVE c * m <= e * m
  <2>1. PICK k \in Nat : e = c + k
    BY <1>5
  <2>2. e * m = c * m + k * m /\ k * m \in Nat
    BY <1>3, <2>1
  <2> QED
    BY <1>4, <2>2
<1>6. ASSUME c < e PROVE c * m + m <= e * m
  <2>1. PICK k \in Nat : e = (c + 1) + k
    BY <1>6
  <2>2. e * m = c * m + m + k * m /\ k * m \in Nat
    BY <1>3, <2>1
  <2> QED
    BY <1>3, <1>4, <2>2
<1> QED
  BY <1>2, <1>3, <1>4, <1>5, <1>6 DEF m

LEMMA LockStep ==
  ASSUME TypeOK, LockCovers, [Next]_vars
  PROVE  LockCovers'
<1> DEFINE c == since.charge
           e == since'.charge
<1>1. /\ c \in Nat /\ power \in PowerType /\ power.lock \in Int
      /\ ChargeLockDuration \in Nat /\ cfg.mult \in Nat
  BY ConfigFacts, TimingAssumption DEF TypeOK, SinceType, Cap, PowerType
<1>2. ASSUME power'.lock = power.lock, e = c \/ \E d \in Nat : Elapse(d)
      PROVE  LockCovers'
  <2>1. CASE e = c
    BY <1>2, <2>1 DEF LockCovers
  <2>2. CASE e \in Nat /\ c <= e
    <3>1. c * MaxMult \in Nat /\ e * MaxMult \in Nat /\ c * MaxMult <= e * MaxMult
      BY <1>1, <2>2, ChargeProducts
    <3> QED
      BY <1>1, <1>2, <3>1 DEF LockCovers
  <2>3. CASE e = ChargeLockDuration
    <3>1. ChargeLockDuration <= e * MaxMult /\ e * MaxMult \in Nat
      BY <1>1, <2>3, ChargeProducts
    <3> QED
      BY <1>1, <1>2, <3>1 DEF LockCovers
  <2>4. \A d \in Nat : Elapse(d) => (e \in Nat /\ c <= e) \/ e = ChargeLockDuration
    BY <1>1, ChargeElapses
  <2> QED
    BY <1>2, <2>1, <2>2, <2>3, <2>4
<1>3. CASE Sleep
  <2>1. PICK d \in Nat : d >= 1 /\ Elapse(d)
    BY <1>3, ChargeProducts, <1>1 DEF Sleep
  <2>2. power'.lock = IF power.lock > 0 THEN power.lock - cfg.mult ELSE power.lock
    BY <1>1, <1>3 DEF Sleep, PowerType
  <2>3. CASE e \in Nat /\ c < e
    <3>1. /\ c * MaxMult \in Nat /\ e * MaxMult \in Nat /\ MaxMult \in Nat
          /\ cfg.mult \in 1..MaxMult
          /\ c * MaxMult + MaxMult <= e * MaxMult
      BY <1>1, <2>3, ChargeProducts
    <3> QED
      BY <1>1, <2>2, <3>1 DEF LockCovers
  <2>4. CASE e = ChargeLockDuration
    <3>1. ChargeLockDuration <= e * MaxMult /\ e * MaxMult \in Nat
      BY <1>1, <2>4, ChargeProducts
    <3> QED
      BY <1>1, <2>2, <3>1 DEF LockCovers
  <2>5. (e \in Nat /\ c < e) \/ e = ChargeLockDuration
    BY <1>1, <2>1, ChargeElapses
  <2> QED
    BY <2>3, <2>4, <2>5
<1>4. CASE BatteryLow
  <2>1. CASE since' = since /\ power'.lock = power.lock
    BY <1>2, <2>1
  <2>2. CASE since' = [since EXCEPT !.charge = 0] /\ power'.lock = ChargeLockDuration
    <3>1. e = 0
      BY <2>2 DEF TypeOK, SinceType, Cap
    <3>2. 0 * MaxMult = 0
      BY TimingAssumption
    <3> QED
      BY <1>1, <2>2, <3>1, <3>2 DEF LockCovers
  <2> QED
    BY <1>1, <1>4, <2>1, <2>2 DEF BatteryLow, LockAfter, PowerType
<1>5. CASE PowerUp
  <2>1. e = ChargeLockDuration /\ power'.lock = 0
    BY <1>5 DEF PowerUp, SinceZero, PowerZero, Cap
  <2>2. ChargeLockDuration <= e * MaxMult
    BY <1>1, <2>1, ChargeProducts
  <2> QED
    BY <2>1, <2>2 DEF LockCovers
<1>6. CASE Next /\ ~Sleep /\ ~BatteryLow /\ ~PowerUp
  <2>1. e = c \/ \E d \in Nat : Elapse(d)
    BY <1>6, ChargeWriters
  <2>2. power'.lock = power.lock
    BY <1>1, <1>6, PowerWriters DEF BootOn, BatteryCheck, BatteryGood, PowerType
  <2> QED
    BY <1>2, <2>1, <2>2
<1>7. CASE UNCHANGED vars
  BY <1>2, <1>7 DEF vars
<1> QED
  BY <1>3, <1>4, <1>5, <1>6, <1>7

LEMMA BatteryInvariance == Spec => []BatteryInv
<1>1. Init => BatteryInv
  <2> SUFFICES ASSUME Init PROVE BatteryInv
    OBVIOUS
  <2>1. TypeOK
    BY InitInv DEF IInv
  <2>2. /\ power.bad = 0 /\ power.lock = 0 /\ since.charge = ChargeLockDuration
        /\ ChargeLockDuration \in Nat
    BY TimingAssumption DEF Init, PowerZero, SinceZero, Cap
  <2>3. ChargeLockDuration <= since.charge * MaxMult
    BY <2>1, <2>2, ChargeProducts
  <2> QED
    BY <2>2, <2>3 DEF BatteryInv, CountAtBoot, BadPowerJustified, LockCovers
<1>2. IInv /\ BatteryInv /\ [Next]_vars => BatteryInv'
  BY BadPowerStep, LockStep DEF IInv, BatteryInv
<1> QED
  BY Invariance, <1>1, <1>2, PTL DEF Spec

(* Whenever the low-battery count is above zero, the last reading was low    *)
(* and the charge lock had run out: a good reading or the charger, seen when *)
(* the count is next looked at, takes it back to zero.                       *)
THEOREM BadPowerIsJustified == Spec => []BadPowerJustified
<1>1. BatteryInv => BadPowerJustified
  BY DEF BatteryInv
<1> QED
  BY BatteryInvariance, <1>1, PTL

(* The under-voltage shutdown leaves a beacon alone for the lock duration,   *)
(* divided by the largest mult_period, after it saw the charger, however the *)
(* ticks of one second in a settings window and those of mult_period seconds *)
(* outside follow one another: both take mult_period off the lock.           *)
THEOREM ChargerHoldsOffShutdown == Spec => []ChargingHoldsOffShutdown
<1>1. IInv /\ BatteryInv => ChargingHoldsOffShutdown
  <2> SUFFICES ASSUME IInv, BatteryInv, UvloShutdown
               PROVE  since.charge * MaxMult >= ChargeLockDuration
    BY DEF ChargingHoldsOffShutdown
  <2>1. power.bad > UvloBadPowerThreshold /\ UvloBadPowerThreshold \in Nat /\ power.bad \in Nat
    BY TimingAssumption DEF UvloShutdown, IInv, TypeOK, PowerType
  <2>2. pc # "uvlo"
    BY DEF UvloShutdown, IInv, PcOfState, HandlerPCs
  <2>3. power.lock <= 0
    BY <2>1, <2>2 DEF BatteryInv, BadPowerJustified
  <2> QED
    BY <2>3 DEF BatteryInv, LockCovers
<1> QED
  BY Invariance, BatteryInvariance, <1>1, PTL

--------------------------------------------------------------------------------
(* The transmission power. *)

(* In a window and during an upload the power is the lowest one. *)
WindowPower ==
  /\ state = "SettingsMode" /\ pc # "reboot" => radio.tx = 0
  /\ state = "FirmwareUpload" => radio.tx = 0

(* Nobody is left in a window that is about to end in a reset. *)
ClosedAtReset ==
  pc = "reboot" /\ state = "SettingsMode" =>
    radio.onAir # "settings" /\ gatt.session = "none" /\ ~gatt.restart

PowerInv == WindowPower /\ ClosedAtReset /\ BurstEndsOnTime

(* Only SetTxPower sets the power. *)
LEMMA PowerFields ==
  ASSUME NEW r \in RadioType
  PROVE  /\ AdvStop(r).tx = r.tx /\ BtDisable(r).tx = r.tx /\ BtEnable(r).tx = r.tx
         /\ \A a : SetMac(r, a).tx = r.tx
         /\ \A w : AdvStart(r, w).tx = r.tx /\ AdvUpdate(r, w).tx = r.tx
         /\ \A w, ok : TryAdvStart(r, w, ok).tx = r.tx
         /\ \A ok : WithIBeacon(r, ok).tx = r.tx
         /\ \A p : SetTxPower(r, p).tx = p
<1>1. AdvStop(r).tx = r.tx /\ BtDisable(r).tx = r.tx /\ BtEnable(r).tx = r.tx
  BY DEF AdvStop, BtDisable, BtEnable, RadioType
<1>2. (\A a : SetMac(r, a).tx = r.tx) /\ (\A p : SetTxPower(r, p).tx = p)
  BY DEF SetMac, SetTxPower, RadioType
<1>3. \A w : AdvStart(r, w).tx = r.tx /\ AdvUpdate(r, w).tx = r.tx
  BY DEF AdvStart, AdvUpdate, RadioType
<1>4. \A w, ok : TryAdvStart(r, w, ok).tx = r.tx
  BY <1>3 DEF TryAdvStart
<1>5. \A ok : WithIBeacon(r, ok).tx = r.tx
  BY <1>4 DEF WithIBeacon
<1> QED
  BY <1>1, <1>2, <1>3, <1>4, <1>5

LEMMA BroadcastPower ==
  ASSUME NEW r \in RadioType, NEW b, NEW a \in Addr, NEW ok
  PROVE  Broadcast(r, b, a, ok).radio.tx = r.tx
<1> DEFINE m == SetMac(r, a)
<1>1. m \in RadioType /\ m.tx = r.tx
  BY RadioCalls, PowerFields
<1>2. TryAdvStart(m, "airtag", ok).tx = m.tx
  BY <1>1, PowerFields
<1>3. \A w : AdvUpdate(r, w).tx = r.tx /\ TryAdvStart(r, w, ok).tx = r.tx
  BY PowerFields
<1>4. AdvStop(r).tx = r.tx
  BY PowerFields
<1> HIDE DEF m
<1>5. Broadcast(r, b, a, ok).radio \in
        {AdvStop(r), AdvUpdate(r, "fmdn"), AdvUpdate(r, "airtag"), TryAdvStart(m, "airtag", ok),
         TryAdvStart(r, "fmdn", ok), r}
  BY DEF Broadcast, m
<1> QED
  BY <1>1, <1>2, <1>3, <1>4, <1>5

LEMMA PowerConfigured ==
  ASSUME TypeOK, BootOn \/ Leave \/ KeyRotation
  PROVE  radio'.tx = cfg.txPower /\ cfg' = cfg
<1>1. /\ radio \in RadioType /\ key.bleAddr \in Addr /\ FirstKey \in Addr
      /\ cfg.txPower \in 0..2
  BY ConfigFacts DEF TypeOK, KeyType, Addr
<1>2. CASE BootOn
  <2> DEFINE up == BtEnable(SetMac(radio, BootAddr(FirstKey)))
             r == SetTxPower(up, cfg.txPower)
  <2>1. BootAddr(FirstKey) \in Addr
    BY <1>1 DEF BootAddr, Addr
  <2>2. up \in RadioType
    BY <1>1, <2>1, RadioCalls
  <2> HIDE DEF up
  <2>3. r \in RadioType /\ r.tx = cfg.txPower
    BY <1>1, <2>2, RadioCalls, PowerFields
  <2>4. \E ok : radio' = WithIBeacon(r, ok)
    BY <1>2 DEF BootOn, up
  <2> HIDE DEF r
  <2>5. \A ok : WithIBeacon(r, ok).tx = r.tx
    BY <2>3, PowerFields
  <2>6. cfg' = cfg
    BY <1>2 DEF BootOn
  <2> QED
    BY <2>3, <2>4, <2>5, <2>6
<1>3. CASE Leave
  <2> DEFINE up == BtEnable(ExitAddr(BtDisable(AdvStop(radio))))
             r == SetTxPower(up, cfg.txPower)
  <2>1. up \in RadioType
    BY <1>1, RadioCalls DEF ExitAddr
  <2> HIDE DEF up
  <2>2. r \in RadioType /\ r.tx = cfg.txPower
    BY <1>1, <2>1, RadioCalls, PowerFields
  <2>3. radio' = r \/ \E ok : radio' = WithIBeacon(r, ok)
    BY <1>3 DEF Leave, up
  <2> HIDE DEF r
  <2> QED
    BY <1>3, <2>2, <2>3, PowerFields DEF Leave
<1>4. CASE KeyRotation
  <2> DEFINE k == KeyAt(NextKey)
             up == BtEnable(SetMac(BtDisable(AdvStop(radio)), k))
             r == SetTxPower(up, cfg.txPower)
  <2>1. k \in Addr
    BY <1>4, ConfigFacts DEF KeyRotation, KeyAt, NextKey, RotationDue, TypeOK, KeyType, Addr
  <2>2. DoBroadcast(SetTxPower(BtEnable(SetMac(BtDisable(AdvStop(radio)), k)), cfg.txPower),
                    [bcast EXCEPT !.anything = FALSE], k)
    BY <1>4 DEF KeyRotation, RotatedRadio
  <2> HIDE DEF k
  <2>3. up \in RadioType
    BY <1>1, <2>1, RadioCalls
  <2>4. DoBroadcast(r, [bcast EXCEPT !.anything = FALSE], k)
    BY <2>2
  <2> HIDE DEF up
  <2>5. r \in RadioType /\ r.tx = cfg.txPower
    BY <1>1, <2>3, RadioCalls, PowerFields
  <2> HIDE DEF r
  <2> QED
    BY <1>4, <2>1, <2>4, <2>5, BroadcastPower DEF DoBroadcast, KeyRotation
<1> QED
  BY <1>2, <1>3, <1>4

LEMMA PowerLowest ==
  ASSUME TypeOK, SettingsEntry \/ PowerUp
  PROVE  radio'.tx = 0
<1>1. CASE SettingsEntry
  <2> DEFINE up == BtEnable(EntryAddr(BtDisable(AdvStop(radio))))
             r == SetTxPower(up, 0)
  <2>1. up \in RadioType
    BY RadioCalls DEF EntryAddr, TypeOK, Addr
  <2> HIDE DEF up
  <2>2. r \in RadioType /\ r.tx = 0
    BY <2>1, RadioCalls, PowerFields
  <2>3. \E ok : radio' = TryAdvStart(r, "settings", ok)
    BY <1>1 DEF SettingsEntry, up
  <2> HIDE DEF r
  <2> QED
    BY <2>2, <2>3, PowerFields
<1>2. CASE PowerUp
  BY <1>2 DEF PowerUp, RadioOff
<1> QED
  BY <1>1, <1>2

(* Everything else leaves the power, and the deadline of a burst but for the *)
(* seconds that pass, alone.                                                 *)
LEMMA PowerKeepers ==
  ASSUME TypeOK, Next
  PROVE  \/ BootOn \/ Leave \/ KeyRotation \/ SettingsEntry \/ PowerUp \/ MaxPowerBurst
         \/ /\ radio'.tx = radio.tx
            /\ cfg' = cfg \/ gatt.session # "none"
            /\ left' = left \/ (pc' # "rotate" /\ \E d \in Int : left' = LeftAfter(d))
            /\ pc' = "rotate" => pc = "rotate"
            /\ state' = state \/ LeaveForUpload \/ state' = "ShuttingDown"
            /\ pc' # "reboot" => pc # "reboot"
            /\ pc' = "reboot" => pc \in {"reboot", "upload"}
<1>1. radio \in RadioType /\ key.bleAddr \in Addr
  BY DEF TypeOK, KeyType, Addr
<1>2. \A d \in Nat : Elapse(d) => \E k \in Int : left' = LeftAfter(k)
  BY TimingAssumption DEF Elapse
<1>3. CASE Sleep \/ ExitDue \/ UploadWait \/ ShortPress
  <2>1. ExitWait(snap) \in Nat
    BY TimingAssumption DEF ExitWait
  <2>2. UploadSeconds \in Nat /\ cfg.mult \in Nat
    BY ConfigFacts, TimingAssumption
  <2> QED
    BY <1>2, <1>3, <2>1, <2>2 DEF Sleep, ExitDue, UploadWait, ShortPress
<1>4. CASE LeaveForUpload
  <2>1. AdvStop(radio) \in RadioType /\ AdvStop(radio).tx = radio.tx
    BY <1>1, RadioCalls, PowerFields
  <2>2. \E ok : radio' = TryAdvStart(AdvStop(radio), "settings", ok)
    BY <1>4 DEF LeaveForUpload
  <2>3. radio'.tx = radio.tx
    BY <2>1, <2>2, PowerFields
  <2> QED
    BY <1>4, <2>3 DEF LeaveForUpload
<1>5. CASE BatteryCheck \/ InitialBroadcast \/ Alternate
  <2>1. \A b : DoBroadcast(radio, b, key.bleAddr) => radio'.tx = radio.tx
    BY <1>1, BroadcastPower DEF DoBroadcast
  <2>2. radio'.tx = radio.tx
    BY <1>1, <1>5, <2>1, BroadcastPower DEF BatteryCheck, InitialBroadcast, Alternate
  <2> QED
    BY <1>5, <2>2 DEF BatteryCheck, InitialBroadcast, Alternate
<1>6. CASE PowerOff /\ (BootOff \/ BatteryLow \/ NokeysShutdown \/ SwitchOff)
  <2>1. radio'.tx = radio.tx
    BY <1>1, <1>6, PowerFields DEF PowerOff
  <2> QED
    BY <1>6, <2>1 DEF PowerOff, BootOff, BatteryLow, NokeysShutdown, SwitchOff
<1>7. CASE Connect \/ AdvRestart
  <2>1. radio'.tx = radio.tx
    BY <1>1, <1>7, PowerFields DEF Connect, AdvRestart
  <2> QED
    BY <1>7, <2>1 DEF Connect, AdvRestart
<1>8. CASE \E f \in FieldNames : WriteField(f)
  BY <1>8 DEF WriteField, AllowedChange
<1> QED
  BY <1>3, <1>4, <1>5, <1>6, <1>7, <1>8 DEF Next, Main, Client, BootOff, Sync, ExitNotDue,
     Reboot, SaveTime, BatteryNotDue, BatteryGood, BatteryLow, NokeysShutdown, NokeysStay,
     SettingsNotDue, RotationNotDue, ButtonUp, LongPress, SwitchOff, Accelerometer,
     KeepBroadcasting, AuthAccepted, AuthRefused, RequestUpload, Disconnect, Crash, PowerOn

LEMMA WindowPowerStep ==
  ASSUME IInv, IInv', WindowPower, ClosedAtReset, [Next]_vars
  PROVE  WindowPower' /\ ClosedAtReset'
<1> USE DEF WindowPower, ClosedAtReset
<1>1. TypeOK /\ PcOfState /\ PcOfState' /\ ConnectableOnlyInWindow /\ ConnectableOnlyInWindow'
  BY DEF IInv
<1>2. CASE SettingsEntry \/ PowerUp
  BY <1>1, <1>2, PowerLowest DEF SettingsEntry, PowerUp
<1>3. CASE BootOn \/ KeyRotation
  BY <1>1, <1>3 DEF BootOn, KeyRotation, PcOfState, HandlerPCs
<1>4. CASE Leave
  <2>1. radio'.onAir \in {"nothing", "ibeacon"}
    BY <1>1, <1>4, LeaveRadio
  <2>2. gatt'.session = "none" /\ ~gatt'.restart
    BY <1>1, <1>4, SessionFacts DEF Leave
  <2>3. pc' = "reboot" \/ state' = "Broadcasting"
    BY <1>4 DEF Leave
  <2>4. state' # "FirmwareUpload"
    BY <1>1, <1>4 DEF Leave, PcOfState
  <2> QED
    BY <2>1, <2>2, <2>3, <2>4
<1>5. CASE MaxPowerBurst
  BY <1>1, <1>5 DEF MaxPowerBurst, PcOfState, HandlerPCs
<1>6. CASE Next /\ ~(BootOn \/ Leave \/ KeyRotation \/ SettingsEntry \/ PowerUp \/ MaxPowerBurst)
  <2>1. /\ radio'.tx = radio.tx
        /\ state' = state \/ LeaveForUpload \/ state' = "ShuttingDown"
        /\ pc' # "reboot" => pc # "reboot"
        /\ pc' = "reboot" => pc \in {"reboot", "upload"}
    BY <1>1, <1>6, PowerKeepers
  <2>2. WindowPower'
    BY <1>1, <2>1 DEF LeaveForUpload, PcOfState
  <2>3. ASSUME pc' = "reboot", state' = "SettingsMode"
        PROVE  radio'.onAir # "settings" /\ gatt'.session = "none" /\ ~gatt'.restart
    <3>1. pc = "reboot" /\ state = "SettingsMode"
      BY <1>1, <2>1, <2>3 DEF LeaveForUpload, PcOfState
    <3>2. radio.onAir # "settings" /\ gatt.session = "none" /\ ~gatt.restart
      BY <3>1
    <3>3. UNCHANGED <<radio, gatt>>
      BY <1>6, <2>3, <3>1, <3>2 DEF Next, Main, Client, BootOff, Sync, Sleep, ExitNotDue,
         ExitDue, LeaveForUpload, UploadWait, Reboot, SaveTime, BatteryNotDue, BatteryCheck,
         BatteryGood, BatteryLow, NokeysShutdown, NokeysStay, SettingsNotDue,
         RotationNotDue, ButtonUp, ShortPress, LongPress, SwitchOff, Accelerometer, InitialBroadcast,
         Alternate, KeepBroadcasting, Connect, AuthAccepted, AuthRefused, RequestUpload,
         Disconnect, WriteField, AllowedChange, AdvRestart, Crash, PowerOn
    <3> QED
      BY <3>2, <3>3
  <2> QED
    BY <2>2, <2>3
<1>7. CASE UNCHANGED vars
  BY <1>7 DEF vars
<1> QED
  BY <1>2, <1>3, <1>4, <1>5, <1>6, <1>7

(* What a sleep leaves of the deadline of a burst. *)
LEMMA DeadlineElapses ==
  ASSUME TypeOK, NEW d \in Int
  PROVE  left.burst # NoBurst => LeftAfter(d).burst # NoBurst
BY DEF LeftAfter, TypeOK, LeftType, NoBurst, Greater

LEMMA BurstStep ==
  ASSUME IInv, IInv', WindowPower, ClosedAtReset, BurstEndsOnTime, [Next]_vars
  PROVE  BurstEndsOnTime'
<1> USE DEF BurstEndsOnTime
<1>1. TypeOK /\ left \in LeftType /\ radio \in RadioType
  BY DEF IInv, TypeOK
<1>2. CASE SettingsEntry \/ PowerUp
  BY <1>1, <1>2, PowerLowest
<1>3. CASE BootOn \/ Leave \/ KeyRotation
  BY <1>1, <1>3, PowerConfigured
<1>4. CASE MaxPowerBurst
  <2> DEFINE raised == IF BurstDue THEN SetTxPower(radio, 2) ELSE radio
  <2>1. raised \in RadioType /\ cfg.mult \in Nat /\ cfg.mult >= 1
    BY <1>1, RadioCalls, ChargeProducts
  <2>2. BurstLeft \in Nat \cup {NoBurst}
    BY <1>1, <2>1 DEF BurstLeft, LeftType
  <2>3. \/ left' = [left EXCEPT !.burst = NoBurst] /\ radio' = NormalPower(raised)
        \/ /\ BurstLeft # 0
           /\ left' = [left EXCEPT !.burst = BurstLeft] /\ radio' = raised
    BY <1>4 DEF MaxPowerBurst, BurstOver
  <2>4. cfg' = cfg
    BY <1>4 DEF MaxPowerBurst
  <2>5. CASE radio' = NormalPower(raised)
    <3> HIDE DEF raised
    <3> QED
      BY <2>1, <2>4, <2>5, PowerFields DEF NormalPower
  <2>6. CASE /\ BurstLeft # 0
             /\ left' = [left EXCEPT !.burst = BurstLeft] /\ radio' = raised
    <3>1. left'.burst = BurstLeft
      BY <1>1, <2>6 DEF LeftType
    <3>2. CASE BurstDue
      BY <2>1, <3>1, <3>2 DEF BurstLeft, NoBurst
    <3>3. CASE ~BurstDue
      BY <1>1, <2>2, <2>4, <2>6, <3>1, <3>3 DEF BurstLeft, NoBurst
    <3> QED
      BY <3>2, <3>3
  <2> QED
    BY <2>3, <2>5, <2>6
<1>5. CASE Next /\ ~(BootOn \/ Leave \/ KeyRotation \/ SettingsEntry \/ PowerUp \/ MaxPowerBurst)
  <2>1. /\ radio'.tx = radio.tx
        /\ cfg' = cfg \/ gatt.session # "none"
        /\ left' = left \/ (pc' # "rotate" /\ \E d \in Int : left' = LeftAfter(d))
        /\ pc' = "rotate" => pc = "rotate"
    BY <1>1, <1>5, PowerKeepers
  <2>2. CASE gatt.session # "none"
    <3>1. state \in {"SettingsMode", "FirmwareUpload"}
      BY <2>2 DEF IInv, ConnectableOnlyInWindow
    <3>2. radio.tx = 0
      BY <2>2, <3>1 DEF WindowPower, ClosedAtReset
    <3> QED
      BY <2>1, <3>2
  <2>3. CASE cfg' = cfg
    BY <1>1, <2>1, <2>3, DeadlineElapses
  <2> QED
    BY <2>1, <2>2, <2>3
<1>6. CASE UNCHANGED vars
  BY <1>6 DEF vars
<1> QED
  BY <1>2, <1>3, <1>4, <1>5, <1>6

LEMMA PowerInvariance == Spec => []PowerInv
<1>1. Init => PowerInv
  BY DEF Init, PowerInv, WindowPower, ClosedAtReset, BurstEndsOnTime, RadioOff
<1>2. IInv /\ IInv' /\ PowerInv /\ [Next]_vars => PowerInv'
  BY WindowPowerStep, BurstStep DEF PowerInv
<1> QED
  BY Invariance, <1>1, <1>2, PTL DEF Spec

(* Full power that is not configured always has a deadline, and the handler  *)
(* never returns with one that has passed, although the windows, the battery *)
(* checks and the rotations in between change the power and a client may     *)
(* change the configured one.                                                *)
THEOREM BurstsEnd == Spec => []BurstEndsOnTime
<1>1. PowerInv => BurstEndsOnTime
  BY DEF PowerInv
<1> QED
  BY PowerInvariance, <1>1, PTL

--------------------------------------------------------------------------------
(* The flags and what is on the air. *)

(* What is on the air while it broadcasts with the flags b. *)
Believed(b) == IF b.airtag THEN "airtag" ELSE IF b.fmdn THEN "fmdn" ELSE "ibeacon"

(* The flags b, the radio r, the configuration c and n failed starts agree.  *)
FlagsAgree(b, r, c, n) ==
  /\ ~b.settings /\ ~(b.airtag /\ b.fmdn)
  /\ b.anything <=> b.airtag \/ b.fmdn
  /\ b.airtag => c.airtag
  /\ b.fmdn => c.fmdn
  /\ r.onAir \in {Believed(b), "nothing"}
  /\ r.onAir = "ibeacon" => ~c.airtag /\ ~c.fmdn
  /\ r.onAir = "nothing" => n > 0 \/ (~b.anything /\ (c.airtag \/ c.fmdn))

TickFlags == state = "Broadcasting" => FlagsAgree(bcast, radio, cfg, aux.faults)

(* In a window nothing but the connectable advertiser is on the air, and it  *)
(* is missing for a client, for the restart after one, or for a failed start.*)
WindowFlags ==
  state = "SettingsMode" /\ pc # "reboot" =>
    /\ bcast.settings /\ ~bcast.airtag /\ ~bcast.fmdn
    /\ radio.onAir \in {"settings", "nothing"}
    /\ radio.onAir = "nothing" =>
         aux.faults > 0 \/ gatt.session # "none" \/ gatt.restart

BeliefInv == TickFlags /\ WindowFlags

(* A failed start is counted, and no start is forgotten. *)
LEMMA FaultsGrow ==
  ASSUME TypeOK, NEW ok \in BOOLEAN
  PROVE  /\ aux.faults \in Nat
         /\ CountFault(ok).faults = IF ok THEN aux.faults ELSE aux.faults + 1
BY TimingAssumption DEF TypeOK, AuxType, CountFault

(* broadcast() for a protocol named by the flags: its advertiser is on the   *)
(* air, unless it or an earlier one failed to start.                         *)
LEMMA NamedOnAir ==
  ASSUME TypeOK, NEW r \in RadioType, NEW b \in BcastType, NEW a \in Addr, NEW ok \in BOOLEAN,
         ~b.settings, b.airtag \/ b.fmdn, ~(b.airtag /\ b.fmdn),
         b.airtag => cfg.airtag, b.fmdn => cfg.fmdn,
         ~b.anything => r.onAir = "nothing",
         b.anything /\ r.onAir = "nothing" => aux.faults > 0,
         NEW done, done = Broadcast(r, b, a, ok)
  PROVE  FlagsAgree(done.bcast, done.radio, cfg, CountFault(ok).faults)
<1> DEFINE w == Believed(b)
<1>1. w \in {"airtag", "fmdn"} /\ (w = "airtag" <=> b.airtag)
  BY DEF Believed
<1>2. /\ aux.faults \in Nat
      /\ CountFault(ok).faults = IF ok THEN aux.faults ELSE aux.faults + 1
  BY FaultsGrow
<1>3. CASE b.anything
  <2>1. done.bcast = b /\ done.radio = AdvUpdate(r, w)
    BY <1>3 DEF Broadcast, Believed
  <2>2. done.radio.onAir = IF r.onAir = "nothing" THEN "nothing" ELSE w
    BY <2>1 DEF AdvUpdate, RadioType
  <2>3. r.onAir = "nothing" => CountFault(ok).faults > 0
    BY <1>2, <1>3
  <2> QED
    BY <1>1, <1>3, <2>1, <2>2, <2>3 DEF FlagsAgree
<1>4. CASE ~b.anything
  <2>1. /\ done.bcast = [b EXCEPT !.anything = TRUE]
        /\ \/ done.radio = TryAdvStart(SetMac(r, a), w, ok)
           \/ done.radio = TryAdvStart(r, w, ok)
    BY <1>4 DEF Broadcast, Believed
  <2>2. /\ SetMac(r, a) \in RadioType /\ SetMac(r, a).onAir = "nothing"
        /\ r \in RadioType /\ r.onAir = "nothing"
    BY <1>4, RadioCalls DEF SetMac, RadioType
  <2>3. \A q \in RadioType : q.onAir = "nothing" =>
          TryAdvStart(q, w, ok).onAir = IF ok THEN w ELSE "nothing"
    BY DEF TryAdvStart, AdvStart, RadioType
  <2>4. done.radio.onAir = IF ok THEN w ELSE "nothing"
    BY <2>1, <2>2, <2>3
  <2>5. /\ done.bcast.anything /\ ~done.bcast.settings
        /\ done.bcast.airtag = b.airtag /\ done.bcast.fmdn = b.fmdn
    BY <2>1 DEF BcastType
  <2>6. Believed(done.bcast) = w
    BY <2>5 DEF Believed
  <2>7. ~ok => CountFault(ok).faults > 0
    BY <1>2
  <2> HIDE DEF w
  <2> QED
    BY <1>1, <2>4, <2>5, <2>6, <2>7 DEF FlagsAgree
<1> QED
  BY <1>3, <1>4

(* broadcast() with no protocol on the air leaves all as it is. *)
LEMMA NothingNamed ==
  ASSUME NEW r, NEW b \in BcastType, NEW a, NEW ok,
         ~b.settings, ~b.airtag, ~b.fmdn, ~b.anything
  PROVE  Broadcast(r, b, a, ok).radio = r /\ Broadcast(r, b, a, ok).bcast = b
BY DEF Broadcast

(* The iBeacon on the air, or not, of a beacon that begins to broadcast.     *)
LEMMA IBeaconAgrees ==
  ASSUME TypeOK, NEW r \in RadioType, NEW ok \in IBeaconResults, r.onAir = "nothing"
  PROVE  FlagsAgree(NotBroadcasting, WithIBeacon(r, ok), cfg, CountFault(ok).faults)
<1>1. ok \in BOOLEAN
  BY IBeaconCount
<1>2. /\ aux.faults \in Nat
      /\ CountFault(ok).faults = IF ok THEN aux.faults ELSE aux.faults + 1
  BY <1>1, FaultsGrow
<1>3. CASE cfg.airtag \/ cfg.fmdn
  BY <1>3 DEF WithIBeacon, FlagsAgree, NotBroadcasting, Believed
<1>4. CASE ~(cfg.airtag \/ cfg.fmdn)
  <2>1. WithIBeacon(r, ok).onAir = IF ok THEN "ibeacon" ELSE "nothing"
    BY <1>4 DEF WithIBeacon, TryAdvStart, AdvStart, RadioType
  <2>2. ~ok => CountFault(ok).faults > 0
    BY <1>2
  <2> QED
    BY <1>4, <2>1, <2>2 DEF FlagsAgree, NotBroadcasting, Believed
<1> QED
  BY <1>3, <1>4

LEMMA BroadcastAgrees ==
  ASSUME TypeOK, FlagsAgree(bcast, radio, cfg, aux.faults),
         BatteryCheck \/ InitialBroadcast \/ Alternate
  PROVE  FlagsAgree(bcast', radio', cfg', aux'.faults)
<1>1. /\ bcast \in BcastType /\ radio \in RadioType /\ key.bleAddr \in Addr
      /\ aux \in AuxType
  BY DEF TypeOK, KeyType, Addr
<1>2. ASSUME NEW b \in BcastType, ~b.settings, b.airtag \/ b.fmdn, ~(b.airtag /\ b.fmdn),
             b.airtag => cfg.airtag, b.fmdn => cfg.fmdn, b.anything = bcast.anything,
             NEW ok \in BOOLEAN,
             radio' = Broadcast(radio, b, key.bleAddr, ok).radio,
             bcast' = Broadcast(radio, b, key.bleAddr, ok).bcast,
             aux'.faults = CountFault(ok).faults, cfg' = cfg,
             bcast.airtag \/ bcast.fmdn \/ cfg.airtag \/ cfg.fmdn
      PROVE  FlagsAgree(bcast', radio', cfg', aux'.faults)
  <2>1. ~b.anything => radio.onAir = "nothing"
    BY <1>2 DEF FlagsAgree, Believed
  <2>2. b.anything /\ radio.onAir = "nothing" => aux.faults > 0
    BY <1>2 DEF FlagsAgree
  <2> QED
    BY <1>1, <1>2, <2>1, <2>2, NamedOnAir
<1>3. CASE BatteryCheck
  <2>1. PICK v : \/ /\ cfg.airtag \/ cfg.fmdn
                    /\ \E ok \in BroadcastResults(bcast) :
                         /\ radio' = Broadcast(radio, bcast, key.bleAddr, ok).radio
                         /\ bcast' = Broadcast(radio, bcast, key.bleAddr, ok).bcast
                         /\ aux' = [CountFault(ok) EXCEPT !.lowReads = LowReadsAfter(v)]
                 \/ /\ aux' = [aux EXCEPT !.lowReads = LowReadsAfter(v)]
                    /\ UNCHANGED <<radio, bcast>>
    BY <1>3 DEF BatteryCheck
  <2>2. cfg' = cfg
    BY <1>3 DEF BatteryCheck
  <2>3. CASE /\ aux' = [aux EXCEPT !.lowReads = LowReadsAfter(v)]
             /\ UNCHANGED <<radio, bcast>>
    BY <1>1, <2>2, <2>3 DEF AuxType
  <2>4. ASSUME NEW ok \in BroadcastResults(bcast), cfg.airtag \/ cfg.fmdn,
               radio' = Broadcast(radio, bcast, key.bleAddr, ok).radio,
               bcast' = Broadcast(radio, bcast, key.bleAddr, ok).bcast,
               aux' = [CountFault(ok) EXCEPT !.lowReads = LowReadsAfter(v)]
        PROVE  FlagsAgree(bcast', radio', cfg', aux'.faults)
    <3>1. ok \in BOOLEAN /\ CountFault(ok) \in AuxType
      BY <2>4, FaultCount
    <3>2. aux'.faults = CountFault(ok).faults
      BY <2>4, <3>1 DEF AuxType
    <3>3. CASE bcast.airtag \/ bcast.fmdn
      BY <1>1, <1>2, <2>2, <2>4, <3>1, <3>2, <3>3 DEF FlagsAgree
    <3>4. CASE ~(bcast.airtag \/ bcast.fmdn)
      <4>1. ~bcast.settings /\ ~bcast.airtag /\ ~bcast.fmdn /\ ~bcast.anything
        BY <3>4 DEF FlagsAgree
      <4>2. radio' = radio /\ bcast' = bcast
        BY <1>1, <2>4, <4>1, NothingNamed
      <4>3. radio.onAir \in {"ibeacon", "nothing"}
        BY <4>1 DEF FlagsAgree, Believed
      <4> QED
        BY <2>2, <2>4, <4>1, <4>2, <4>3 DEF FlagsAgree
    <3> QED
      BY <3>3, <3>4
  <2> QED
    BY <2>1, <2>3, <2>4
<1>4. ASSUME NEW b \in BcastType, ~b.settings, b.airtag \/ b.fmdn, ~(b.airtag /\ b.fmdn),
             b.airtag => cfg.airtag, b.fmdn => cfg.fmdn, b.anything = bcast.anything,
             DoBroadcast(radio, b, key.bleAddr), cfg' = cfg
      PROVE  FlagsAgree(bcast', radio', cfg', aux'.faults)
  <2>1. PICK ok \in BroadcastResults(b) :
          /\ radio' = Broadcast(radio, b, key.bleAddr, ok).radio
          /\ bcast' = Broadcast(radio, b, key.bleAddr, ok).bcast
          /\ aux' = CountFault(ok)
    BY <1>4 DEF DoBroadcast
  <2>2. ok \in BOOLEAN
    BY FaultCount
  <2> QED
    BY <1>2, <1>4, <2>1, <2>2
<1>5. CASE InitialBroadcast
  <2> DEFINE b == IF cfg.airtag THEN OnlyAirTag(bcast) ELSE OnlyFmdn(bcast)
  <2>1. /\ b \in BcastType /\ ~b.settings /\ b.anything = bcast.anything
        /\ b.airtag \/ b.fmdn
        /\ ~(b.airtag /\ b.fmdn)
        /\ b.airtag => cfg.airtag
        /\ b.fmdn => cfg.fmdn
    BY <1>1, <1>5 DEF InitialBroadcast, FlagsAgree, OnlyAirTag, OnlyFmdn, BcastType
  <2>2. DoBroadcast(radio, b, key.bleAddr) /\ cfg' = cfg
    BY <1>5 DEF InitialBroadcast
  <2> HIDE DEF b
  <2> QED
    BY <1>4, <2>1, <2>2
<1>6. CASE Alternate
  <2> DEFINE b == OtherProtocol(bcast)
  <2>1. /\ b \in BcastType /\ ~b.settings /\ b.anything = bcast.anything
        /\ b.airtag \/ b.fmdn
        /\ ~(b.airtag /\ b.fmdn)
        /\ b.airtag => cfg.airtag
        /\ b.fmdn => cfg.fmdn
    BY <1>1, <1>6 DEF Alternate, FlagsAgree, OtherProtocol, OnlyAirTag, OnlyFmdn, BcastType
  <2>2. DoBroadcast(radio, b, key.bleAddr) /\ cfg' = cfg
    BY <1>6 DEF Alternate
  <2> HIDE DEF b
  <2> QED
    BY <1>4, <2>1, <2>2
<1> QED
  BY <1>3, <1>5, <1>6

LEMMA RotationAgrees ==
  ASSUME TypeOK, FlagsAgree(bcast, radio, cfg, aux.faults), KeyRotation
  PROVE  FlagsAgree(bcast', radio', cfg', aux'.faults)
<1> DEFINE k == KeyAt(NextKey)
           r == RotatedRadio(k)
           b == [bcast EXCEPT !.anything = FALSE]
<1>1. k \in Addr /\ cfg.airtag /\ cfg.txPower \in 0..2 /\ radio \in RadioType
  BY ConfigFacts DEF KeyRotation, KeyAt, NextKey, RotationDue, TypeOK, KeyType, Addr
<1>2. DoBroadcast(r, b, k) /\ cfg' = cfg
  BY DEF KeyRotation
<1> HIDE DEF k
<1>3. r \in RadioType /\ r.onAir = "nothing"
  BY <1>1, Readdressed, SMTT(30) DEF RotatedRadio
<1>4. /\ b \in BcastType /\ ~b.anything /\ b.settings = bcast.settings
      /\ b.airtag = bcast.airtag /\ b.fmdn = bcast.fmdn
  BY DEF TypeOK, BcastType
<1> HIDE DEF r, b
<1>5. PICK ok \in BroadcastResults(b) :
        /\ radio' = Broadcast(r, b, k, ok).radio
        /\ bcast' = Broadcast(r, b, k, ok).bcast
        /\ aux' = CountFault(ok)
  BY <1>2 DEF DoBroadcast
<1>6. ok \in BOOLEAN
  BY FaultCount
<1>7. /\ ~b.settings /\ ~(b.airtag /\ b.fmdn)
      /\ b.airtag => cfg.airtag
      /\ b.fmdn => cfg.fmdn
  BY <1>4 DEF FlagsAgree
<1>8. CASE b.airtag \/ b.fmdn
  BY <1>1, <1>2, <1>3, <1>4, <1>5, <1>6, <1>7, <1>8, NamedOnAir
<1>9. CASE ~(b.airtag \/ b.fmdn)
  <2>1. radio' = r /\ bcast' = b
    BY <1>4, <1>5, <1>7, <1>9, NothingNamed
  <2> QED
    BY <1>1, <1>2, <1>3, <1>4, <1>7, <1>9, <2>1 DEF FlagsAgree
<1> QED
  BY <1>8, <1>9

LEMMA BackFromWindow ==
  ASSUME TypeOK, NEW back,
         back = SetTxPower(BtEnable(ExitAddr(BtDisable(AdvStop(radio)))), cfg.txPower)
  PROVE  back \in RadioType /\ back.onAir = "nothing"
<1>1. radio \in RadioType /\ key.bleAddr \in Addr /\ cfg.txPower \in 0..2
  BY ConfigFacts DEF TypeOK, KeyType, Addr
<1>2. CASE cfg.airtag
  <2>1. back = SetTxPower(BtEnable(SetMac(BtDisable(AdvStop(radio)), key.bleAddr)), cfg.txPower)
    BY <1>2 DEF ExitAddr
  <2> QED
    BY <1>1, <2>1, Readdressed, SMTT(30)
<1>3. CASE ~cfg.airtag
  <2>1. back = SetTxPower(BtEnable(BtDisable(AdvStop(radio))), cfg.txPower)
    BY <1>3 DEF ExitAddr
  <2> QED
    BY <1>1, <2>1, Restarted
<1> QED
  BY <1>2, <1>3

LEMMA BeginAgrees ==
  ASSUME TypeOK, PcOfState, BootOn \/ (Leave /\ state' = "Broadcasting" /\ pc' # "reboot")
  PROVE  FlagsAgree(bcast', radio', cfg', aux'.faults)
<1>1. /\ radio \in RadioType /\ key.bleAddr \in Addr /\ FirstKey \in Addr
      /\ cfg.txPower \in 0..2
  BY ConfigFacts DEF TypeOK, KeyType, Addr
<1>2. CASE BootOn
  <2> DEFINE set == SetMac(radio, BootAddr(FirstKey))
             up == BtEnable(set)
             r == SetTxPower(up, cfg.txPower)
  <2>1. BootAddr(FirstKey) \in Addr
    BY <1>1 DEF BootAddr, Addr
  <2>2. radio.onAir = "nothing"
    BY <1>2, RadioOffFacts DEF BootOn, PcOfState
  <2>3. set \in RadioType /\ set.onAir = "nothing"
    BY <1>1, <2>1, <2>2, RadioCalls DEF SetMac, RadioType
  <2>4. PICK v \in Voltages, ok \in IBeaconResults :
          /\ aux' = [CountFault(ok) EXCEPT !.dirty = FALSE, !.lowReads = LowReadsAfter(v)]
          /\ radio' = WithIBeacon(r, ok)
    BY <1>2 DEF BootOn
  <2> HIDE DEF set
  <2>5. up \in RadioType /\ up.onAir = "nothing"
    BY <2>3, RadioCalls DEF BtEnable, RadioType
  <2> HIDE DEF up
  <2>6. r \in RadioType /\ r.onAir = "nothing"
    BY <1>1, <2>5, RadioCalls DEF SetTxPower, RadioType
  <2> HIDE DEF r
  <2>7. CountFault(ok) \in AuxType
    BY <2>4, IBeaconCount
  <2>8. aux'.faults = CountFault(ok).faults
    BY <2>4, <2>7 DEF AuxType
  <2>9. bcast' = NotBroadcasting /\ cfg' = cfg
    BY <1>2 DEF BootOn
  <2> QED
    BY <2>4, <2>6, <2>8, <2>9, IBeaconAgrees
<1>3. CASE Leave /\ state' = "Broadcasting" /\ pc' # "reboot"
  <2> DEFINE back == SetTxPower(BtEnable(ExitAddr(BtDisable(AdvStop(radio)))), cfg.txPower)
  <2>1. back \in RadioType /\ back.onAir = "nothing"
    BY BackFromWindow
  <2>2. PICK ok \in IBeaconResults : radio' = WithIBeacon(back, ok) /\ aux' = CountFault(ok)
    BY <1>3 DEF Leave
  <2> HIDE DEF back
  <2>3. bcast' = NotBroadcasting /\ cfg' = cfg
    BY <1>3 DEF Leave
  <2> QED
    BY <2>1, <2>2, <2>3, IBeaconAgrees
<1> QED
  BY <1>2, <1>3

(* The other steps of a broadcasting tick, and all of a window's but the     *)
(* client's and the work queue's.                                            *)
LEMMA FlagKeepers ==
  ASSUME TypeOK, Next
  PROVE  \/ BootOn \/ Leave \/ KeyRotation \/ SettingsEntry \/ PowerUp
         \/ BatteryCheck \/ InitialBroadcast \/ Alternate
         \/ Client \/ AdvRestart
         \/ state' \in {"ShuttingDown", "FirmwareUpload"}
         \/ /\ state' = state /\ bcast' = bcast /\ radio'.onAir = radio.onAir
            /\ cfg' = cfg /\ aux' = aux /\ gatt' = gatt
            /\ pc = "reboot" => pc' = "reboot"
<1>1. radio \in RadioType
  BY DEF TypeOK
<1>2. \A p : SetTxPower(radio, p).onAir = radio.onAir
  BY <1>1, RadioFields
<1>3. CASE MaxPowerBurst
  <2>1. \A p, q : SetTxPower(SetTxPower(radio, p), q).onAir = radio.onAir
    BY <1>1 DEF SetTxPower, RadioType
  <2> QED
    BY <1>2, <1>3, <2>1 DEF MaxPowerBurst, NormalPower
<1> QED
  BY <1>3 DEF Next, Main, BootOff, Sync, Sleep, ExitNotDue, ExitDue, LeaveForUpload, UploadWait,
     Reboot, SaveTime, BatteryNotDue, BatteryGood, BatteryLow, NokeysShutdown, NokeysStay,
     SettingsNotDue, RotationNotDue, ButtonUp, ShortPress, LongPress, SwitchOff, Accelerometer,
     KeepBroadcasting, Crash, PowerOn, PowerOff

(* A client comes and goes in a window. *)
LEMMA ClientInWindow ==
  ASSUME IInv, Client \/ AdvRestart
  PROVE  /\ state \in {"SettingsMode", "FirmwareUpload"}
         /\ state' = state /\ pc' = pc /\ bcast' = bcast
<1>1. \/ radio.onAir = "settings" \/ gatt.session # "none" \/ gatt.restart
  BY DEF Client, Connect, AuthAccepted, AuthRefused, RequestUpload, Disconnect, WriteField,
     AllowedChange, AdvRestart
<1>2. state' = state /\ pc' = pc /\ bcast' = bcast
  BY DEF Client, Connect, AuthAccepted, AuthRefused, RequestUpload, Disconnect, WriteField,
     AdvRestart
<1> QED
  BY <1>1, <1>2 DEF IInv, ConnectableOnlyInWindow

LEMMA TickFlagsStep ==
  ASSUME IInv, IInv', TickFlags, [Next]_vars
  PROVE  TickFlags'
<1> USE DEF TickFlags
<1>1. TypeOK /\ PcOfState /\ PcOfState'
  BY DEF IInv
<1>2. CASE BootOn \/ Leave
  <2>1. Leave /\ state' = "Broadcasting" => pc' # "reboot"
    BY <1>1 DEF PcOfState
  <2> QED
    BY <1>1, <1>2, <2>1, BeginAgrees
<1>3. CASE KeyRotation
  BY <1>1, <1>3, RotationAgrees DEF KeyRotation, PcOfState, HandlerPCs
<1>4. CASE BatteryCheck \/ InitialBroadcast \/ Alternate
  <2>1. state = "Broadcasting"
    BY <1>1, <1>4 DEF BatteryCheck, InitialBroadcast, Alternate, PcOfState, HandlerPCs
  <2> QED
    BY <1>1, <1>4, <2>1, BroadcastAgrees
<1>5. CASE SettingsEntry \/ PowerUp
  BY <1>5 DEF SettingsEntry, PowerUp
<1>6. CASE Client \/ AdvRestart
  BY <1>6, ClientInWindow
<1>7. CASE state' \in {"ShuttingDown", "FirmwareUpload"}
  BY <1>7
<1>8. CASE /\ state' = state /\ bcast' = bcast /\ radio'.onAir = radio.onAir
           /\ cfg' = cfg /\ aux' = aux
  BY <1>8 DEF FlagsAgree
<1>9. CASE UNCHANGED vars
  BY <1>9 DEF vars
<1> QED
  BY <1>1, <1>2, <1>3, <1>4, <1>5, <1>6, <1>7, <1>8, <1>9, FlagKeepers

(* A failed start in a window is made good by nobody before it ends, but it  *)
(* is counted.                                                               *)
LEMMA SettingsStart ==
  ASSUME TypeOK, NEW r \in RadioType, NEW ok \in BOOLEAN, r.onAir \in {"settings", "nothing"}
  PROVE  /\ TryAdvStart(r, "settings", ok).onAir \in {"settings", "nothing"}
         /\ TryAdvStart(r, "settings", ok).onAir = "nothing" => CountFault(ok).faults > 0
<1>1. /\ aux.faults \in Nat
      /\ CountFault(ok).faults = IF ok THEN aux.faults ELSE aux.faults + 1
  BY FaultsGrow
<1> QED
  BY <1>1 DEF TryAdvStart, AdvStart, RadioType

LEMMA WindowFlagsStep ==
  ASSUME IInv, IInv', WindowFlags, [Next]_vars
  PROVE  WindowFlags'
<1> USE DEF WindowFlags
<1>1. TypeOK /\ PcOfState /\ PcOfState' /\ radio \in RadioType /\ gatt \in GattType
  BY DEF IInv, TypeOK
<1>2. CASE SettingsEntry
  <2> DEFINE back == SetTxPower(BtEnable(EntryAddr(BtDisable(AdvStop(radio)))), 0)
  <2>1. back \in RadioType /\ back.onAir = "nothing"
    <3>1. SettingsAddr \in Addr /\ 0 \in 0..2
      BY DEF Addr
    <3>2. CASE cfg.settingsMac
      <4>1. back = SetTxPower(BtEnable(SetMac(BtDisable(AdvStop(radio)), SettingsAddr)), 0)
        BY <3>2 DEF EntryAddr
      <4> HIDE DEF back
      <4> QED
        BY <1>1, <3>1, <4>1, Readdressed
    <3>3. CASE ~cfg.settingsMac
      <4>1. back = SetTxPower(BtEnable(BtDisable(AdvStop(radio))), 0)
        BY <3>3 DEF EntryAddr
      <4> HIDE DEF back
      <4> QED
        BY <1>1, <3>1, <4>1, Restarted
    <3> QED
      BY <3>2, <3>3
  <2>2. PICK ok \in StartResults : radio' = TryAdvStart(back, "settings", ok) /\ aux' = CountFault(ok)
    BY <1>2 DEF SettingsEntry
  <2> HIDE DEF back
  <2>3. ok \in BOOLEAN
    BY <1>1, FaultCount
  <2>4. bcast'.settings /\ ~bcast'.airtag /\ ~bcast'.fmdn
    BY <1>2 DEF SettingsEntry
  <2> QED
    BY <1>1, <2>1, <2>2, <2>3, <2>4, SettingsStart
<1>3. CASE BootOn \/ PowerUp \/ KeyRotation \/ BatteryCheck \/ InitialBroadcast \/ Alternate
  <2>1. state' # "SettingsMode"
    BY <1>1, <1>3 DEF BootOn, PowerUp, KeyRotation, BatteryCheck, InitialBroadcast, Alternate,
       PcOfState, HandlerPCs
  <2> QED
    BY <2>1
<1>4. CASE Leave
  BY <1>4 DEF Leave
<1>5. CASE Client
  <2>1. state' = state /\ pc' = pc /\ bcast' = bcast
    BY <1>5, ClientInWindow
  <2>2. CASE Connect
    BY <1>1, <2>1, <2>2, ConnectFacts DEF Connect, GattType
  <2>3. CASE AuthAccepted \/ AuthRefused \/ RequestUpload
    <3>1. gatt'.session # "none" /\ radio' = radio
      BY <1>1, <2>3 DEF AuthAccepted, AuthRefused, RequestUpload, AllowedChange, GattType
    <3> QED
      BY <2>1, <3>1
  <2>4. CASE Disconnect
    BY <1>1, <2>1, <2>4 DEF Disconnect, GattType
  <2>5. CASE \E f \in FieldNames : WriteField(f)
    <3>1. gatt'.session # "none" /\ radio' = radio
      BY <1>1, <2>5 DEF WriteField, AllowedChange, GattType
    <3> QED
      BY <2>1, <3>1
  <2> QED
    BY <1>5, <2>2, <2>3, <2>4, <2>5 DEF Client
<1>6. CASE AdvRestart
  <2>1. state' = state /\ pc' = pc /\ bcast' = bcast
    BY <1>6, ClientInWindow
  <2>2. PICK ok \in StartResults : radio' = TryAdvStart(radio, "settings", ok) /\ aux' = CountFault(ok)
    BY <1>6 DEF AdvRestart
  <2>3. ok \in BOOLEAN
    BY <1>1, FaultCount
  <2> QED
    BY <1>1, <2>1, <2>2, <2>3, SettingsStart
<1>7. CASE state' \in {"ShuttingDown", "FirmwareUpload"}
  BY <1>7
<1>8. CASE /\ state' = state /\ bcast' = bcast /\ radio'.onAir = radio.onAir
           /\ aux' = aux /\ gatt' = gatt
           /\ pc = "reboot" => pc' = "reboot"
  BY <1>8
<1>9. CASE UNCHANGED vars
  BY <1>9 DEF vars
<1> QED
  BY <1>1, <1>2, <1>3, <1>4, <1>5, <1>6, <1>7, <1>8, <1>9, FlagKeepers

LEMMA BeliefInvariance == Spec => []BeliefInv
<1>1. Init => BeliefInv
  BY DEF Init, BeliefInv, TickFlags, WindowFlags
<1>2. IInv /\ IInv' /\ BeliefInv /\ [Next]_vars => BeliefInv'
  BY TickFlagsStep, WindowFlagsStep DEF BeliefInv
<1> QED
  BY Invariance, <1>1, <1>2, PTL DEF Spec

(* What the flags of the state machine say is on the air is, or nothing is,  *)
(* and then an advertiser failed to start, or a client has the connection,   *)
(* or the first advertisement has not come yet: no order of the handlers, of *)
(* a client's calls and of failed starts leaves the radio with an            *)
(* advertisement the flags do not know of.                                   *)
THEOREM BeliefIsRight == Spec => []BeliefMatchesRadio
<1>1. IInv /\ BeliefInv => BeliefMatchesRadio
  <2> SUFFICES ASSUME IInv, BeliefInv, Running, pc \notin {"upload", "reboot"}
               PROVE  BeliefMatchesRadio
    BY DEF BeliefMatchesRadio
  <2>1. state \in {"Broadcasting", "SettingsMode"}
    BY DEF IInv, TypeOK, PCs, PcOfState, HandlerPCs, Running
  <2>2. CASE state = "Broadcasting"
    BY <2>2 DEF BeliefInv, TickFlags, FlagsAgree, Believed, BeliefMatchesRadio
  <2>3. CASE state = "SettingsMode"
    BY <2>3 DEF BeliefInv, WindowFlags, BeliefMatchesRadio
  <2> QED
    BY <2>1, <2>2, <2>3
<1> QED
  BY Invariance, BeliefInvariance, <1>1, PTL

--------------------------------------------------------------------------------
(* The key. *)

(* Until a client writes keys, current_key_ is the place of the key in use,  *)
(* and from the next rotation on it is so again.                             *)
KeyOfConfig ==
  pc \notin {"boot", "off"} /\ ~key.changed /\ cfg.keys # <<>> =>
    /\ key.current < Len(cfg.keys)
    /\ key.payload = KeyAt(key.current)

SilentWhenOff == pc = "off" => radio.onAir = "nothing"

KeyInv == KeyOfConfig /\ SilentWhenOff

LEMMA KeyWriters ==
  ASSUME TypeOK, Next
  PROVE  \/ BootOn \/ KeyRotation \/ PowerUp \/ \E f \in FieldNames : WriteField(f)
         \/ /\ key' = key /\ cfg' = cfg
            /\ pc \in {"boot", "off"} => pc' \in {"boot", "off"}
BY DEF Next, Main, Client, BootOff, Sync, Sleep, ExitNotDue, ExitDue, LeaveForUpload, Leave,
   UploadWait, Reboot, SaveTime, BatteryNotDue, BatteryCheck, BatteryGood, BatteryLow,
   NokeysShutdown, NokeysStay, SettingsNotDue, SettingsEntry, MaxPowerBurst,
   RotationNotDue, ButtonUp, ShortPress, LongPress, SwitchOff, Accelerometer,
   InitialBroadcast, Alternate, KeepBroadcasting, Connect, AuthAccepted, AuthRefused,
   RequestUpload, Disconnect, AdvRestart, Crash, PowerOn, PowerOff

LEMMA KeyStep ==
  ASSUME IInv, KeyOfConfig, [Next]_vars
  PROVE  KeyOfConfig'
<1> USE DEF KeyOfConfig
<1>1. TypeOK /\ cfg.keys \in Seq(Key) /\ key \in KeyType
  BY ConfigFacts DEF IInv, TypeOK
<1>2. CASE BootOn
  <2>1. key'.current = 0 /\ key'.payload = KeyAt(0) /\ cfg' = cfg
    BY <1>2 DEF BootOn, FirstKey
  <2>2. cfg.keys # <<>> => 0 < Len(cfg.keys)
    BY <1>1
  <2> QED
    BY <2>1, <2>2 DEF KeyAt
<1>3. CASE KeyRotation
  <2>1. /\ key'.current = NextKey /\ key'.payload = KeyAt(NextKey)
        /\ cfg' = cfg /\ cfg.keys # <<>>
    BY <1>3 DEF KeyRotation, RotationDue
  <2>2. NextKey < Len(cfg.keys)
    BY <1>1, <2>1 DEF NextKey, KeyType
  <2> QED
    BY <2>1, <2>2 DEF KeyAt
<1>4. CASE PowerUp
  BY <1>4 DEF PowerUp
<1>5. CASE \E f \in FieldNames : WriteField(f)
  <2>1. PICK f \in FieldNames : WriteField(f)
    BY <1>5
  <2>2. /\ key'.current = key.current /\ key'.payload = key.payload
        /\ key'.changed = (key.changed \/ f = "keys")
    BY <1>1, <2>1 DEF WriteField, KeyType
  <2>3. f # "keys" => cfg'.keys = cfg.keys
    BY <2>1 DEF WriteField, FieldNames
  <2>4. pc' = pc
    BY <2>1 DEF WriteField
  <2> QED
    BY <2>2, <2>3, <2>4 DEF KeyAt
<1>6. CASE /\ key' = key /\ cfg' = cfg
           /\ pc \in {"boot", "off"} => pc' \in {"boot", "off"}
  BY <1>6 DEF KeyAt
<1>7. CASE UNCHANGED vars
  BY <1>7 DEF vars, KeyAt
<1> QED
  BY <1>1, <1>2, <1>3, <1>4, <1>5, <1>6, <1>7, KeyWriters

LEMMA OffStep ==
  ASSUME IInv, SilentWhenOff, [Next]_vars
  PROVE  SilentWhenOff'
<1> USE DEF SilentWhenOff
<1>1. TypeOK
  BY DEF IInv
<1>2. CASE PowerOff
  BY <1>1, <1>2, OffFacts
<1>3. CASE Client \/ AdvRestart
  <2>1. state # "ShuttingDown" /\ pc' = pc
    BY <1>3, ClientInWindow
  <2> QED
    BY <2>1 DEF IInv, PcOfState
<1>4. CASE Next /\ ~PowerOff /\ ~Client /\ ~AdvRestart
  <2>1. pc' # "off"
    BY <1>4 DEF Next, Main, BootOff, BootOn, Sync, Sleep, ExitNotDue, ExitDue, LeaveForUpload,
       UploadWait, Leave, Reboot, SaveTime, BatteryNotDue, BatteryCheck, BatteryGood,
       BatteryLow, NokeysShutdown, NokeysStay, SettingsNotDue, SettingsEntry, MaxPowerBurst,
       RotationNotDue, KeyRotation, ButtonUp, ShortPress, LongPress, SwitchOff, Accelerometer,
       InitialBroadcast, Alternate, KeepBroadcasting, Crash, PowerOn, PowerUp
  <2> QED
    BY <2>1
<1>5. CASE UNCHANGED vars
  BY <1>5 DEF vars
<1> QED
  BY <1>2, <1>3, <1>4, <1>5

LEMMA KeyInvariance == Spec => []KeyInv
<1>1. Init => KeyInv
  BY DEF Init, KeyInv, KeyOfConfig, SilentWhenOff
<1>2. IInv /\ KeyInv /\ [Next]_vars => KeyInv'
  BY KeyStep, OffStep DEF KeyInv
<1> QED
  BY Invariance, <1>1, <1>2, PTL DEF Spec

(* As long as no client wrote keys since the last rotation or start, the     *)
(* AirTag on the air has the key current_key_ points to, and it points into  *)
(* the ring, however much longer the ring was before.                        *)
THEOREM RotationKeepsPlace == Spec => []ConfiguredKeyOnAir
<1>1. IInv /\ KeyInv => ConfiguredKeyOnAir
  <2> SUFFICES ASSUME IInv, KeyInv, radio.onAir = "airtag", ~key.changed, cfg.keys # <<>>
               PROVE  /\ key.current < Len(cfg.keys)
                      /\ key.payload = KeyAt(key.current)
    BY DEF ConfiguredKeyOnAir
  <2>1. pc # "off"
    BY DEF KeyInv, SilentWhenOff
  <2>2. pc # "boot"
    BY RadioOffFacts DEF IInv, PcOfState
  <2> QED
    BY <2>1, <2>2 DEF KeyInv, KeyOfConfig
<1> QED
  BY Invariance, KeyInvariance, <1>1, PTL

--------------------------------------------------------------------------------
(* The modes: BeaconState implements BeaconModes. *)

LEMMA InitModes == Init => Modes!Init
BY DEF Init, Modes!Init, NoSession, AllFalse

(* A step of the client or of the work queue that happens in a window. *)
LEMMA ClientModes ==
  ASSUME IInv, Client \/ AdvRestart
  PROVE  Modes!SessionStep
<1>1. TypeOK /\ gatt \in GattType /\ snap \in SnapType
  BY DEF IInv, TypeOK
<1>2. state \in {"SettingsMode", "FirmwareUpload"} /\ state' = state
  BY ClientInWindow
<1> USE DEF Modes!SessionStep, Modes!Listening
<1>3. CASE Connect
  BY <1>1, <1>2, <1>3 DEF Connect, GattType
<1>4. CASE AuthAccepted
  BY <1>1, <1>2, <1>4 DEF AuthAccepted, GattType
<1>5. CASE AuthRefused
  BY <1>1, <1>2, <1>5 DEF AuthRefused, GattType
<1>6. CASE RequestUpload
  BY <1>1, <1>2, <1>6 DEF RequestUpload, AllowedChange, GattType
<1>7. CASE Disconnect
  BY <1>1, <1>2, <1>7 DEF Disconnect, GattType
<1>8. CASE \E f \in FieldNames : WriteField(f)
  BY <1>1, <1>2, <1>8 DEF WriteField, AllowedChange, GattType
<1>9. CASE AdvRestart
  BY <1>1, <1>2, <1>9 DEF AdvRestart, Opened, GattType
<1> QED
  BY <1>3, <1>4, <1>5, <1>6, <1>7, <1>8, <1>9 DEF Client

(* Every step of the main thread, and of the environment, is a step of the   *)
(* modes or none.                                                            *)
LEMMA ModesStep ==
  ASSUME IInv, [Next]_vars
  PROVE  [Modes!Next]_(Modes!vars)
<1> USE DEF Modes!Next, Modes!vars
<1>1. /\ TypeOK /\ PcOfState /\ gatt \in GattType /\ snap \in SnapType
  BY DEF IInv, TypeOK
<1>2. state \notin {"SettingsMode", "FirmwareUpload"} => gatt.session = "none"
  BY DEF IInv, ConnectableOnlyInWindow
<1>3. /\ Closed(gatt).session = "none" /\ Opened(gatt).session = "none"
      /\ Closed(gatt).pauseUpload = gatt.pauseUpload
      /\ Opened(gatt).pauseUpload = gatt.pauseUpload
  BY <1>1 DEF Closed, Opened, GattType
<1>4. CASE BootOff
  BY <1>1, <1>3, <1>4 DEF BootOff, PowerOff, PcOfState, Modes!Start
<1>5. CASE BootOn
  BY <1>1, <1>2, <1>5 DEF BootOn, PcOfState, Modes!Start
<1>6. CASE Sync
  <2>1. snap'.pause = gatt.pauseUpload /\ UNCHANGED <<state, gatt>>
    BY <1>6 DEF Sync, SnapOf
  <2>2. CASE gatt.pauseUpload
    BY <1>1, <2>1, <2>2
  <2>3. CASE ~gatt.pauseUpload
    BY <1>1, <2>1, <2>3 DEF Modes!Withdraw
  <2> QED
    BY <1>1, <2>2, <2>3 DEF GattType
<1>7. CASE LeaveForUpload
  <2>1. gatt'.session = "none" /\ gatt'.pauseUpload = gatt.pauseUpload
    BY <1>1, <1>3, <1>7 DEF LeaveForUpload, Opened, GattType
  <2> QED
    BY <1>1, <1>7, <2>1 DEF LeaveForUpload, PcOfState, Modes!Upload
<1>8. CASE Leave
  <2>1. /\ state = "SettingsMode" /\ UNCHANGED snap
        /\ gatt'.session = "none" /\ gatt'.pauseUpload = gatt.pauseUpload
    BY <1>1, <1>3, <1>8 DEF Leave, PcOfState
  <2>2. CASE state' = state
    BY <2>1, <2>2 DEF Modes!SessionStep, Modes!Listening
  <2>3. CASE state' = "Broadcasting"
    BY <2>1, <2>3 DEF Modes!CloseWindow
  <2> QED
    BY <1>8, <2>2, <2>3 DEF Leave
<1>9. CASE PowerUp
  BY <1>9 DEF PowerUp, NoSession, AllFalse, Modes!Restart
<1>10. CASE PowerOff /\ UNCHANGED snap /\ pc \in {"uvlo", "nokeys", "dark"}
  <2>1. state = "Broadcasting"
    BY <1>1, <1>10 DEF PcOfState, HandlerPCs
  <2> QED
    BY <1>3, <1>10, <2>1 DEF PowerOff, Modes!ShutDown
<1>11. CASE SettingsEntry
  <2>1. state = "Broadcasting"
    BY <1>1, <1>11 DEF SettingsEntry, PcOfState, HandlerPCs
  <2> QED
    BY <1>3, <1>11, <2>1 DEF SettingsEntry, Modes!OpenWindow
<1>12. CASE KeyRotation
  <2>1. state = "Broadcasting"
    BY <1>1, <1>12 DEF KeyRotation, PcOfState, HandlerPCs
  <2> QED
    BY <1>2, <1>3, <1>12, <2>1 DEF KeyRotation
<1>13. CASE Client \/ AdvRestart
  BY <1>13, ClientModes
<1>14. CASE UNCHANGED <<state, gatt, snap>>
  BY <1>14
<1>15. \/ BootOff \/ BootOn \/ Sync \/ LeaveForUpload \/ Leave \/ PowerUp
       \/ PowerOff /\ UNCHANGED snap /\ pc \in {"uvlo", "nokeys", "dark"}
       \/ SettingsEntry \/ KeyRotation \/ Client \/ AdvRestart
       \/ UNCHANGED <<state, gatt, snap>>
  BY DEF Next, Main, Sleep, ExitNotDue, ExitDue, UploadWait, Reboot, SaveTime, BatteryNotDue,
     BatteryCheck, BatteryGood, BatteryLow, NokeysShutdown, NokeysStay, SettingsNotDue,
     MaxPowerBurst, RotationNotDue, ButtonUp, ShortPress, LongPress, SwitchOff, Accelerometer,
     InitialBroadcast, Alternate, KeepBroadcasting, Crash, PowerOn, vars
<1> QED
  BY <1>4, <1>5, <1>6, <1>7, <1>8, <1>9, <1>10, <1>11, <1>12, <1>13, <1>14, <1>15

(* The main loop, with its timers, its copies of the session's flags, which  *)
(* are a tick old, and its radio, implements the modes: it is connected to   *)
(* in a window or an upload only, an upload begins in a window and on the    *)
(* word of an authorized client, and ends in a reset.                        *)
THEOREM MainLoopImplementsModes == Spec => ImplementsModes
<1>1. IInv /\ [Next]_vars => [Modes!Next]_(Modes!vars)
  BY ModesStep
<1> QED
  BY InitModes, Invariance, <1>1, PTL DEF Spec, ImplementsModes, Modes!Spec

================================================================================
