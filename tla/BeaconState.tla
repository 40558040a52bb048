------------------------------ MODULE BeaconState ------------------------------
(****************************************************************************)
(* The main thread of the firmware: StateMachine::initialize, tick and the   *)
(* handlers tick calls (src/src/beacon_state.cpp), with the radio and the    *)
(* settings session they act on.                                             *)
(*                                                                           *)
(* tick() is cut where another thread can run: pc names the handler that     *)
(* runs next, and a Bluetooth callback (the Client actions) can come between *)
(* any two handlers.  A handler is one action, with its whole effect; a      *)
(* sleep inside a handler ends an action.                                    *)
(*                                                                           *)
(* Time is uptime in whole seconds.  Where the code keeps the uptime of the  *)
(* last X, the model keeps since.X, the seconds that have passed from it,    *)
(* up to the interval it is compared with: now >= last + interval in the     *)
(* code is since.X >= interval here.  The two deadlines (end_settings and    *)
(* end_max_power) are kept as the seconds left to them.                      *)
(****************************************************************************)
EXTENDS Integers, Sequences

CONSTANTS
  Key,                   \* the AirTag keys a client may upload
  NoKey,                 \* the all-zero key, and the all-zero address of ble_addr_
  DefaultAddr,           \* the address the controller has when none was set
  SettingsAddr,          \* cfg.settings_mac, when one is configured
  Configs,               \* the configurations the settings can hold
  IntervalSettings, SettingsWait, ConnectedWait, AuthorizedWait,
  IntervalTimeSave, IntervalBatteryCheck, IntervalMaxPower,
  IntervalAccelerometer, AccelResetInterval,
  ShutdownNokeys, ChargeLockDuration, UvloBadPowerThreshold, BatteryLowVoltage,
  MaxChangeInterval, MaxMult,  \* the largest change_interval and mult_period
  Voltages,              \* what battery_voltage() may return, in mV
  HasButton,             \* the board defines USE_BUTTON
  HasCharger,            \* the board defines USE_BQ25121A
  UploadSeconds,         \* length of the firmware-upload wait
  BootSeconds,           \* length of initialize()
  Jitter,                \* extra seconds a sleep may take
  MaxFaults              \* bound on crashes and failed advertising starts

FieldNames == {"airtag", "fmdn", "keys", "txPower", "mult", "changeInterval",
               "settingsMac", "accel"}

(* BeaconConfig, as far as the main loop reads it: whether settings_mac has  *)
(* non-zero ends, whether accel_threshold is positive, and keys[0..num_keys).*)
ConfigType ==
  [airtag : BOOLEAN, fmdn : BOOLEAN, keys : Seq(Key), txPower : 0..2,
   mult : 1..MaxMult, changeInterval : 1..MaxChangeInterval,
   settingsMac : BOOLEAN, accel : BOOLEAN]

ASSUME ConfigsAssumption == Configs \subseteq ConfigType
ASSUME KeyAssumption == NoKey \notin Key
ASSUME VoltagesAssumption == Voltages \subseteq Nat
ASSUME BoardAssumption == HasButton \in BOOLEAN /\ HasCharger \in BOOLEAN
ASSUME TimingAssumption ==
  /\ {IntervalSettings, SettingsWait, ConnectedWait, AuthorizedWait,
      IntervalTimeSave, IntervalBatteryCheck, IntervalMaxPower,
      IntervalAccelerometer, AccelResetInterval, ShutdownNokeys,
      ChargeLockDuration, UvloBadPowerThreshold, BatteryLowVoltage,
      MaxChangeInterval, MaxMult, UploadSeconds, BootSeconds,
      MaxFaults} \subseteq Nat
  /\ Jitter \subseteq Nat

VARIABLES
  pc,        \* the handler of the main thread that runs next
  state,     \* state_
  bcast,     \* broadcasting_anything_, _airtag_, _fmdn_, _settings_
  radio,     \* the controller: enabled, what it advertises, its address and power
  gatt,      \* the settings session and the globals of gatt_glue.c
  snap,      \* connected_gatt_, authorized_gatt_, pause_upload_, needs_reset_
  key,       \* current_key_, ble_addr_ and the key in the AirTag payload; changed is
             \*   history: a client wrote keys since that payload was prepared
  since,     \* seconds since the events timers_ holds the uptime of
  left,      \* seconds left to end_settings and end_max_power
  power,     \* last_battery_voltage_, bad_power_, charge_lock_counter_
  cfg,       \* the configuration in force, persistent but for the keys
  turnedOn,  \* cfg.turned_on, persistent too
  aux        \* history: dirty, lowReads, faults (no counterpart in the code)

vars == <<pc, state, bcast, radio, gatt, snap, key, since, left, power, cfg,
          turnedOn, aux>>

Buttons == IF HasButton THEN BOOLEAN ELSE {FALSE}
Charging == IF HasCharger THEN BOOLEAN ELSE {FALSE}
Lesser(a, b) == IF a < b THEN a ELSE b
Greater(a, b) == IF a < b THEN b ELSE a
NoBurst == -1

--------------------------------------------------------------------------------
(* Time. *)

(* Each age is counted up to the largest value it is compared with.          *)
(* since.boot is the uptime itself.  since.charge is history: the seconds    *)
(* since handle_uvlo_shutdown last saw the charger.                          *)
Cap ==
  [save |-> IntervalTimeSave, battery |-> IntervalBatteryCheck,
   settings |-> IntervalSettings, burst |-> IntervalMaxPower,
   key |-> MaxChangeInterval, accel |-> IntervalAccelerometer,
   accelInit |-> AccelResetInterval, boot |-> ShutdownNokeys + 1,
   charge |-> ChargeLockDuration]

LeftAfter(d) ==
  [settings |-> Greater(0, left.settings - d),
   burst |-> IF left.burst = NoBurst THEN NoBurst ELSE Greater(0, left.burst - d)]

SinceAfter(d) == [t \in DOMAIN Cap |-> Lesser(since[t] + d, Cap[t])]

(* hw_.sleep_ms(1000 * d): uptime moves by d seconds, or a little more. *)
Elapse(d) ==
  \E j \in Jitter :
    /\ since' = SinceAfter(d + j)
    /\ left' = LeftAfter(d + j)

--------------------------------------------------------------------------------
(* The radio (external: the Bluetooth controller and host, as the firmware  *)
(* uses them through IHardware).  An advertiser that is already running is   *)
(* not started again, disabling Bluetooth ends advertising, and an address   *)
(* is taken over when Bluetooth is enabled.                                  *)

AdvStart(r, what) == IF r.onAir = "nothing" THEN [r EXCEPT !.onAir = what] ELSE r
AdvStop(r) == [r EXCEPT !.onAir = "nothing"]
AdvUpdate(r, what) == IF r.onAir = "nothing" THEN r ELSE [r EXCEPT !.onAir = what]
BtDisable(r) == [r EXCEPT !.enabled = FALSE, !.onAir = "nothing"]
BtEnable(r) == [r EXCEPT !.enabled = TRUE, !.addr = r.nextAddr]
SetMac(r, a) == [r EXCEPT !.nextAddr = a]
SetTxPower(r, p) == [r EXCEPT !.tx = p]

(* Whether an advertiser starts: the code ignores the result of the start. *)
StartResults == IF aux.faults < MaxFaults THEN BOOLEAN ELSE {TRUE}
CountFault(ok) == [aux EXCEPT !.faults = IF ok THEN @ ELSE @ + 1]
TryAdvStart(r, what, ok) == IF ok THEN AdvStart(r, what) ELSE r

NothingReset == [anything |-> TRUE, airtag |-> FALSE, fmdn |-> FALSE, settings |-> FALSE]  \* mutant
NotBroadcasting == [anything |-> FALSE, airtag |-> FALSE, fmdn |-> FALSE, settings |-> FALSE]

(* broadcast(): bring the radio r in line with the broadcasting flags b.  A  *)
(* start that fails (ok FALSE) leaves the radio silent, flags set.           *)
Broadcast(r, b, addr, ok) ==
  CASE b.anything /\ ~b.fmdn /\ ~b.airtag /\ ~b.settings ->
         [radio |-> AdvStop(r), bcast |-> [b EXCEPT !.anything = FALSE]]
    [] b.anything /\ ~b.settings /\ (b.airtag \/ b.fmdn) ->
         [radio |-> AdvUpdate(r, IF b.fmdn THEN "fmdn" ELSE "airtag"), bcast |-> b]
    [] ~b.anything /\ ~b.settings /\ b.airtag ->
         [radio |-> TryAdvStart(SetMac(r, addr), "airtag", ok),
          bcast |-> [b EXCEPT !.anything = TRUE]]
    [] ~b.anything /\ ~b.settings /\ ~b.airtag /\ b.fmdn ->
         [radio |-> TryAdvStart(r, "fmdn", ok), bcast |-> [b EXCEPT !.anything = TRUE]]
    [] OTHER -> [radio |-> r, bcast |-> b]

(* Only a broadcast() that starts an advertiser can fail. *)
BroadcastResults(b) ==
  IF ~b.anything /\ ~b.settings /\ (b.airtag \/ b.fmdn) THEN StartResults ELSE {TRUE}

(* broadcast() called with the radio in r, the flags in b and ble_addr_ addr. *)
DoBroadcast(r, b, addr) ==
  \E ok \in BroadcastResults(b) :
    /\ radio' = Broadcast(r, b, addr, ok).radio
    /\ bcast' = Broadcast(r, b, addr, ok).bcast
    /\ aux' = CountFault(ok)

(* The iBeacon, broadcast when neither protocol is configured. *)
WithIBeacon(r, ok) ==
  IF cfg.airtag \/ cfg.fmdn THEN r ELSE TryAdvStart(r, "ibeacon", ok)
IBeaconResults == IF cfg.airtag \/ cfg.fmdn THEN {TRUE} ELSE StartResults

--------------------------------------------------------------------------------
(* Power up, and initialize(). *)

RadioOff ==
  [enabled |-> FALSE, onAir |-> "nothing", nextAddr |-> DefaultAddr,
   addr |-> DefaultAddr, tx |-> 0]
NoSession ==
  [session |-> "none", needsReset |-> FALSE, pauseUpload |-> FALSE, isSettings |-> FALSE,
   restart |-> FALSE]
SnapWithoutReset(g) ==  \* mutant: needsReset is not copied
  [connected |-> g.session # "none", authorized |-> g.session \in {"authorized", "rejected"},
   pause |-> g.pauseUpload, reset |-> FALSE]
SnapOf(g) ==
  [connected |-> g.session # "none", authorized |-> g.session \in {"authorized", "rejected"},
   pause |-> g.pauseUpload, reset |-> g.needsReset]
AllFalse == [connected |-> FALSE, authorized |-> FALSE, pause |-> FALSE, reset |-> FALSE]
KeyZero == [current |-> 0, bleAddr |-> NoKey, payload |-> NoKey, changed |-> FALSE]
PowerZero == [voltage |-> 0, bad |-> 0, lock |-> 0]
SinceZero == [[t \in DOMAIN Cap |-> 0] EXCEPT !.charge = ChargeLockDuration]
LeftZero == [settings |-> 0, burst |-> NoBurst]

Init ==
  /\ pc = "boot" /\ state = "Initializing"
  /\ bcast = NotBroadcasting /\ radio = RadioOff /\ gatt = NoSession /\ snap = AllFalse
  /\ key = KeyZero /\ since = SinceZero /\ left = LeftZero /\ power = PowerZero
  /\ cfg \in Configs /\ turnedOn \in BOOLEAN
  /\ aux = [dirty |-> FALSE, lowReads |-> 0, faults |-> 0]

(* What load() finds in flash.  Every setting is saved as it is written, but *)
(* the keys are saved at the disconnection, and slots of an older ring may   *)
(* come back with them: when something was written the keys may be others.   *)
Reloaded ==
  IF aux.dirty
  THEN {c \in Configs : \A g \in FieldNames \ {"keys"} : c[g] = cfg[g]}
  ELSE {cfg}

(* A reset of the chip: RAM is lost, the settings come back from flash.      *)
PowerUp ==
  /\ pc' = "boot" /\ state' = "Initializing"
  /\ bcast' = NotBroadcasting /\ radio' = RadioOff /\ gatt' = NoSession
  /\ snap' = AllFalse /\ key' = KeyZero /\ since' = SinceZero /\ left' = LeftZero
  /\ power' = PowerZero
  /\ cfg' \in Reloaded
  /\ UNCHANGED turnedOn

(* The session g after its advertising was stopped and its work cancelled.   *)
ClosedNotCancelled(g) == [g EXCEPT !.session = "none", !.isSettings = FALSE]  \* mutant
Closed(g) == [g EXCEPT !.session = "none", !.isSettings = FALSE, !.restart = FALSE]

(* start_settings_adv(): a new window, nobody in it. *)
Opened(g) == [g EXCEPT !.session = "none", !.isSettings = TRUE, !.restart = FALSE]

(* hw_.power_off(): the system is off, the main loop does not go on. *)
PowerOff ==
  /\ pc' = "off" /\ state' = "ShuttingDown"
  /\ radio' = BtDisable(radio)
  /\ gatt' = Closed(gatt)

(* update_battery(): a new reading becomes last_battery_voltage_. *)
LowReadsAfter(v) ==
  IF v >= BatteryLowVoltage THEN 0 ELSE Lesser(aux.lowReads + 1, UvloBadPowerThreshold + 1)

(* initialize(), with the switch off and the button up: off again. *)
BootOff ==
  /\ pc = "boot" /\ ~turnedOn
  /\ PowerOff
  /\ UNCHANGED <<bcast, snap, key, since, left, power, cfg, turnedOn, aux>>

(* The address initialize() gives the controller. *)
BootAddr(bleAddr) ==
  CASE cfg.airtag \/ cfg.fmdn -> bleAddr
    [] ~(cfg.airtag \/ cfg.fmdn) /\ cfg.settingsMac -> SettingsAddr
    [] OTHER -> DefaultAddr

(* The key in slot i of the ring; what is left in the slots behind it is NoKey. *)
KeyAt(i) == IF i < Len(cfg.keys) THEN cfg.keys[i + 1] ELSE NoKey
FirstKey == KeyAt(0)

(* initialize(), switched on before or by the button. *)
AlwaysOn(pressed) == TRUE  \* mutant: the switch is not looked at
SwitchedOn(pressed) == turnedOn \/ pressed

BootOn ==
  /\ pc = "boot"
  /\ \E pressed \in Buttons :
       /\ SwitchedOn(pressed)
       /\ turnedOn' = (turnedOn \/ pressed)
  /\ key' = [current |-> 0, bleAddr |-> FirstKey, payload |-> FirstKey, changed |-> FALSE]
  /\ bcast' = NotBroadcasting
  /\ \E v \in Voltages, ok \in IBeaconResults :
       /\ power' = [power EXCEPT !.voltage = v]
       /\ aux' = [CountFault(ok) EXCEPT !.dirty = FALSE, !.lowReads = LowReadsAfter(v)]
       /\ radio' = WithIBeacon(
            SetTxPower(BtEnable(SetMac(radio, BootAddr(FirstKey))), cfg.txPower), ok)
  /\ Elapse(BootSeconds)
  /\ state' = "Broadcasting" /\ pc' = "sync"
  /\ UNCHANGED <<gatt, snap, cfg>>

--------------------------------------------------------------------------------
(* The loop of main(): glue_sync_gatt_state, then tick(). *)

(* The state machine's copies of the session flags, taken before the tick. *)
Sync ==
  /\ pc = "sync"
  /\ snap' = SnapOf(gatt)
  /\ pc' = "sleep"
  /\ UNCHANGED <<state, bcast, radio, gatt, key, since, left, power, cfg, turnedOn, aux>>

(* The sleep and the charge lock at the head of tick(). *)
Sleep ==
  /\ pc = "sleep"
  /\ Elapse(IF bcast.settings THEN 1 ELSE cfg.mult)
  /\ power' = [power EXCEPT !.lock = IF @ > 0 THEN @ - cfg.mult ELSE @]
  /\ pc' = IF state = "SettingsMode" \/ bcast.settings THEN "exit" ELSE "save"
  /\ UNCHANGED <<state, bcast, radio, gatt, snap, key, cfg, turnedOn, aux>>

(* handle_settings_mode_exit(), up to the end of its sleeps: with a client   *)
(* in the copies, the window stays open for it a little longer.              *)
OverWhenAlone == left.settings = 0 /\ ~snap.connected  \* mutant: a client keeps it open
WindowOver == left.settings = 0

ExitNotDue ==
  /\ pc = "exit" /\ ~WindowOver
  /\ pc' = "sync"
  /\ UNCHANGED <<state, bcast, radio, gatt, snap, key, since, left, power, cfg, turnedOn, aux>>

ExitWait(s) ==
  (IF s.connected \/ s.authorized THEN ConnectedWait ELSE 0)
  + (IF s.authorized THEN AuthorizedWait ELSE 0)

ExitDue ==
  /\ pc = "exit" /\ WindowOver
  /\ IF snap.connected \/ snap.authorized
     THEN Elapse(ExitWait(snap))
     ELSE UNCHANGED <<since, left>>
  /\ pc' = "leave"
  /\ UNCHANGED <<state, bcast, radio, gatt, snap, key, power, cfg, turnedOn, aux>>

(* The firmware-upload branch: the window is torn down and opened again with *)
(* the update service in it, and stays open for fifteen waits.  While the    *)
(* client that asked for it is still there its connection is in use, and the *)
(* advertising starts when that is recycled.                                 *)
LeaveForUpload ==
  /\ pc = "leave" /\ snap.pause
  /\ state' = "FirmwareUpload" /\ pc' = "upload"
  /\ \E ok \in StartResults :
       /\ radio' = TryAdvStart(AdvStop(radio), "settings", ok /\ gatt.session = "none")
       /\ aux' = CountFault(ok)
  /\ gatt' = [Opened(gatt) EXCEPT !.restart = gatt.session # "none"]
  /\ UNCHANGED <<bcast, snap, key, since, left, power, cfg, turnedOn>>

UploadWait ==
  /\ pc = "upload"
  /\ Elapse(UploadSeconds)
  /\ pc' = "reboot"
  /\ UNCHANGED <<state, bcast, radio, gatt, snap, key, power, cfg, turnedOn, aux>>

(* The address set on the way back to broadcasting. *)
ExitAddrKept(r) == r  \* mutant: the settings address is kept
ExitAddr(r) == IF cfg.airtag THEN SetMac(r, key.bleAddr) ELSE r

(* The other branch: back to broadcasting, or to a reset when a change of    *)
(* the configuration asked for one.                                          *)
Leave ==
  /\ pc = "leave" /\ ~snap.pause
  /\ bcast' = NotBroadcasting
  /\ gatt' = Closed(gatt)
  /\ LET back == SetTxPower(BtEnable(ExitAddr(BtDisable(AdvStop(radio)))), cfg.txPower) IN
     \/ /\ snap.reset
        /\ radio' = back
        /\ pc' = "reboot"
        /\ UNCHANGED <<state, aux>>
     \/ /\ ~snap.reset
        /\ \E ok \in IBeaconResults :
             /\ radio' = WithIBeacon(back, ok)
             /\ aux' = CountFault(ok)
        /\ pc' = "sync" /\ state' = "Broadcasting"
  /\ UNCHANGED <<snap, key, since, left, power, cfg, turnedOn>>

(* hw_.reboot(), which does not return. *)
Reboot ==
  /\ pc = "reboot"
  /\ PowerUp
  /\ UNCHANGED aux

--------------------------------------------------------------------------------
(* The handlers of a broadcasting tick, in the order tick() calls them. *)

SaveTime ==
  /\ pc = "save"
  /\ since' = IF since.save >= IntervalTimeSave THEN [since EXCEPT !.save = 0] ELSE since
  /\ pc' = "battery"
  /\ UNCHANGED <<state, bcast, radio, gatt, snap, key, left, power, cfg, turnedOn, aux>>

BatteryNotDue ==
  /\ pc = "battery" /\ since.battery < IntervalBatteryCheck
  /\ pc' = "uvlo"
  /\ UNCHANGED <<state, bcast, radio, gatt, snap, key, since, left, power, cfg, turnedOn, aux>>

(* handle_battery_check(): a new reading, a new status byte, and the radio   *)
(* brought in line with the flags.                                           *)
WrongTimerReset == [since EXCEPT !.settings = 0]  \* mutant
BatteryTimerReset == [since EXCEPT !.battery = 0]

BatteryCheck ==
  /\ pc = "battery" /\ since.battery >= IntervalBatteryCheck
  /\ since' = BatteryTimerReset
  /\ \E v \in Voltages :
       /\ power' = [power EXCEPT !.voltage = v]
       /\ \/ /\ cfg.airtag \/ cfg.fmdn
             /\ \E ok \in BroadcastResults(bcast) :
                  /\ radio' = Broadcast(radio, bcast, key.bleAddr, ok).radio
                  /\ bcast' = Broadcast(radio, bcast, key.bleAddr, ok).bcast
                  /\ aux' = [CountFault(ok) EXCEPT !.lowReads = LowReadsAfter(v)]
          \/ /\ ~(cfg.airtag \/ cfg.fmdn)
             /\ aux' = [aux EXCEPT !.lowReads = LowReadsAfter(v)]
             /\ UNCHANGED <<radio, bcast>>
  /\ pc' = "uvlo"
  /\ UNCHANGED <<state, gatt, snap, key, left, cfg, turnedOn>>

BatteryGood ==
  /\ pc = "uvlo" /\ power.voltage >= BatteryLowVoltage
  /\ power' = [power EXCEPT !.bad = 0]
  /\ pc' = "nokeys"
  /\ UNCHANGED <<state, bcast, radio, gatt, snap, key, since, left, cfg, turnedOn, aux>>

(* handle_uvlo_shutdown() with a low reading: the charger in sight starts    *)
(* the charge lock; without it the bad checks add up to a shutdown.          *)
LockIgnored(charging) == power.lock  \* mutant: the charger does not start the lock
LockAfter(charging) == IF charging THEN ChargeLockDuration ELSE power.lock
BadCountedTwice(lock) == IF lock <= 0 THEN power.bad + 2 ELSE 0  \* mutant
BadKept(lock) == IF lock <= 0 THEN power.bad + 1 ELSE power.bad  \* mutant: not reset
BadAfter(lock) == IF lock <= 0 THEN power.bad + 1 ELSE 0

BatteryLow ==
  /\ pc = "uvlo" /\ power.voltage < BatteryLowVoltage
  /\ \E charging \in Charging :
       LET lock == LockAfter(charging)
           bad == BadAfter(lock)
       IN /\ power' = [power EXCEPT !.lock = lock, !.bad = bad]
          /\ since' = IF charging THEN [since EXCEPT !.charge = 0] ELSE since
          /\ \/ /\ bad > UvloBadPowerThreshold
                /\ PowerOff
             \/ /\ bad <= UvloBadPowerThreshold
                /\ pc' = "nokeys"
                /\ UNCHANGED <<state, radio, gatt>>
  /\ UNCHANGED <<bcast, snap, key, left, cfg, turnedOn, aux>>

(* handle_nokeys_shutdown(). *)
Idle == ~cfg.airtag /\ ~cfg.fmdn /\ since.boot > ShutdownNokeys

NokeysShutdown ==
  /\ pc = "nokeys" /\ Idle
  /\ \E charging \in Charging : ~charging
  /\ PowerOff
  /\ UNCHANGED <<bcast, snap, key, since, left, power, cfg, turnedOn, aux>>

NokeysStay ==
  /\ pc = "nokeys"
  /\ Idle => TRUE \in Charging
  /\ pc' = "settings"
  /\ UNCHANGED <<state, bcast, radio, gatt, snap, key, since, left, power, cfg, turnedOn, aux>>

SettingsNotDue ==
  /\ pc = "settings" /\ since.settings < IntervalSettings
  /\ pc' = "burst"
  /\ UNCHANGED <<state, bcast, radio, gatt, snap, key, since, left, power, cfg, turnedOn, aux>>

EntryAddr(r) == IF cfg.settingsMac THEN SetMac(r, SettingsAddr) ELSE r

(* handle_settings_mode_entry(), start_settings_adv() included. *)
SettingsEntry ==
  /\ pc = "settings" /\ since.settings >= IntervalSettings
  /\ since' = [since EXCEPT !.settings = 0]
  /\ left' = [left EXCEPT !.settings = SettingsWait]
  /\ \E ok \in StartResults :
       /\ radio' = TryAdvStart(SetTxPower(BtEnable(EntryAddr(BtDisable(AdvStop(radio)))), 0),
                               "settings", ok)
       /\ aux' = CountFault(ok)
  /\ gatt' = Opened(gatt)
  /\ bcast' = [anything |-> TRUE, airtag |-> FALSE, fmdn |-> FALSE, settings |-> TRUE]
  /\ state' = "SettingsMode"
  /\ pc' = "sync"
  /\ UNCHANGED <<snap, key, power, cfg, turnedOn>>

(* handle_max_power_burst(): the two ifs, one after the other. *)
BurstDue ==
  /\ cfg.txPower # 2 /\ cfg.fmdn /\ cfg.airtag
  /\ since.burst >= IntervalMaxPower
BurstLeft == IF BurstDue THEN 2 * cfg.mult ELSE left.burst
BurstOver(burstLeft) == burstLeft = 0
PowerKept(r) == r  \* mutant: the deadline is cleared, the power stays
NormalPower(r) == SetTxPower(r, cfg.txPower)

MaxPowerBurst ==
  /\ pc = "burst"
  /\ since' = IF BurstDue THEN [since EXCEPT !.burst = 0] ELSE since
  /\ LET raised == IF BurstDue THEN SetTxPower(radio, 2) ELSE radio IN
     \/ /\ BurstOver(BurstLeft)
        /\ left' = [left EXCEPT !.burst = NoBurst]
        /\ radio' = NormalPower(raised)
     \/ /\ ~BurstOver(BurstLeft)
        /\ left' = [left EXCEPT !.burst = BurstLeft]
        /\ radio' = raised
  /\ pc' = "rotate"
  /\ UNCHANGED <<state, bcast, gatt, snap, key, power, cfg, turnedOn, aux>>

(* handle_key_rotation(). *)
RotationDue ==
  cfg.airtag /\ cfg.keys # <<>> /\ since.key >= cfg.changeInterval

RotationNotDue ==
  /\ pc = "rotate" /\ ~RotationDue
  /\ pc' = "button"
  /\ UNCHANGED <<state, bcast, radio, gatt, snap, key, since, left, power, cfg, turnedOn, aux>>

NextUnlessLast ==  \* mutant: the ring wraps at its last slot, not beyond it
  IF key.current + 1 = Len(cfg.keys) THEN 0 ELSE key.current + 1
NextKey == IF key.current + 1 < Len(cfg.keys) THEN key.current + 1 ELSE 0

(* The controller is taken down for the new address, then broadcast() brings *)
(* the advertiser back with the new payload.                                 *)
RotatedTooLate(newKey) ==  \* mutant: the address is set after Bluetooth came up
  SetTxPower(SetMac(BtEnable(BtDisable(AdvStop(radio))), newKey), cfg.txPower)
RotatedRadio(newKey) ==
  SetTxPower(BtEnable(SetMac(BtDisable(AdvStop(radio)), newKey)), cfg.txPower)

KeyRotation ==
  /\ pc = "rotate" /\ RotationDue
  /\ since' = [since EXCEPT !.key = 0]
  /\ LET newKey == KeyAt(NextKey) IN
     /\ key' = [current |-> NextKey, bleAddr |-> newKey, payload |-> newKey,
                changed |-> FALSE]
     /\ DoBroadcast(RotatedRadio(newKey), [bcast EXCEPT !.anything = FALSE], newKey)
  /\ gatt' = Closed(gatt)
  /\ pc' = "button"
  /\ UNCHANGED <<state, snap, left, power, cfg, turnedOn>>

(* handle_button_longpress(): not pressed, let go within the second, or held.*)
ButtonUp ==
  /\ pc = "button"
  /\ pc' = "accel"
  /\ UNCHANGED <<state, bcast, radio, gatt, snap, key, since, left, power, cfg, turnedOn, aux>>

ShortPress ==
  /\ pc = "button" /\ HasButton
  /\ Elapse(1)
  /\ pc' = "accel"
  /\ UNCHANGED <<state, bcast, radio, gatt, snap, key, power, cfg, turnedOn, aux>>

LongPress ==
  /\ pc = "button" /\ HasButton
  /\ turnedOn' = FALSE
  /\ pc' = "dark"
  /\ UNCHANGED <<state, bcast, radio, gatt, snap, key, since, left, power, cfg, aux>>

(* The switch is saved before the system goes off; no timer is looked at     *)
(* any more, so the time of the hold and of the sleep is left out.           *)
SwitchOff ==
  /\ pc = "dark"
  /\ PowerOff
  /\ UNCHANGED <<bcast, snap, key, since, left, power, cfg, turnedOn, aux>>

(* handle_accelerometer(): its two timers.  The sensor is another module's.  *)
Accelerometer ==
  /\ pc = "accel"
  /\ \/ /\ ~cfg.accel \/ since.accel < IntervalAccelerometer
        /\ UNCHANGED since
     \/ /\ cfg.accel /\ since.accel >= IntervalAccelerometer
        /\ since' = [since EXCEPT !.accel = 0,
                                  !.accelInit = IF @ >= AccelResetInterval THEN 0 ELSE @]
  /\ pc' = "advertise"
  /\ UNCHANGED <<state, bcast, radio, gatt, snap, key, left, power, cfg, turnedOn, aux>>

(* The end of tick(): start with AirTag if it is configured, and from then   *)
(* on alternate when both protocols are.                                     *)
OnlyAirTag(b) == [b EXCEPT !.airtag = TRUE, !.fmdn = FALSE]
FmdnToo(b) == [b EXCEPT !.fmdn = TRUE]  \* mutant: the AirTag flag stays
OnlyFmdn(b) == [b EXCEPT !.airtag = FALSE, !.fmdn = TRUE]

InitialBroadcast ==
  /\ pc = "advertise" /\ ~bcast.airtag /\ ~bcast.fmdn /\ (cfg.airtag \/ cfg.fmdn)
  /\ DoBroadcast(radio, IF cfg.airtag THEN OnlyAirTag(bcast) ELSE OnlyFmdn(bcast), key.bleAddr)
  /\ pc' = "sync"
  /\ UNCHANGED <<state, gatt, snap, key, since, left, power, cfg, turnedOn>>

AirTagForever(b) == OnlyAirTag(b)  \* mutant
OtherProtocol(b) == IF b.airtag THEN OnlyFmdn(b) ELSE OnlyAirTag(b)

Alternate ==
  /\ pc = "advertise" /\ (bcast.airtag \/ bcast.fmdn) /\ cfg.airtag /\ cfg.fmdn
  /\ DoBroadcast(radio, OtherProtocol(bcast), key.bleAddr)
  /\ pc' = "sync"
  /\ UNCHANGED <<state, gatt, snap, key, since, left, power, cfg, turnedOn>>

KeepBroadcasting ==
  /\ pc = "advertise"
  /\ ~(cfg.airtag /\ cfg.fmdn)
  /\ bcast.airtag \/ bcast.fmdn \/ ~(cfg.airtag \/ cfg.fmdn)
  /\ pc' = "sync"
  /\ UNCHANGED <<state, bcast, radio, gatt, snap, key, since, left, power, cfg, turnedOn, aux>>

--------------------------------------------------------------------------------
(* The Bluetooth threads and the client: a summary of GattGlue.             *)

(* A connection ends the connectable advertising. *)
Connect ==
  /\ radio.onAir = "settings" /\ gatt.session = "none"
  /\ gatt' = [gatt EXCEPT !.session = "connected"]
  /\ radio' = AdvStop(radio)
  /\ UNCHANGED <<pc, state, bcast, snap, key, since, left, power, cfg, turnedOn, aux>>

AuthAccepted ==
  /\ gatt.session # "none"
  /\ gatt' = [gatt EXCEPT !.session = "authorized"]
  /\ UNCHANGED <<pc, state, bcast, radio, snap, key, since, left, power, cfg, turnedOn, aux>>

(* A wrong code: nothing may be changed any more, authorizedGatt stays. *)
AuthRefused ==
  /\ gatt.session # "none"
  /\ gatt' = [gatt EXCEPT !.session = IF @ = "connected" THEN @ ELSE "rejected",
                          !.needsReset = FALSE, !.pauseUpload = FALSE]
  /\ UNCHANGED <<pc, state, bcast, radio, snap, key, since, left, power, cfg, turnedOn, aux>>

(* allowedChange: what a client may do once its code was accepted. *)
AnyoneMay == gatt.session # "none"  \* mutant: the check of allowedChange is missing
AllowedChange == gatt.session = "authorized"

(* The fields whose characteristic does not ask for a reset. *)
LiveFields == {"txPower", "settingsMac"}

(* An accepted write of one characteristic changes one field. *)
WriteField(f) ==
  /\ AllowedChange
  /\ \E c \in Configs :
       /\ \A g \in FieldNames \ {f} : c[g] = cfg[g]
       /\ cfg' = c
  /\ gatt' = [gatt EXCEPT !.needsReset = @ \/ f \notin LiveFields, !.pauseUpload = FALSE]
  /\ aux' = [aux EXCEPT !.dirty = TRUE]
  /\ key' = [key EXCEPT !.changed = @ \/ f = "keys"]
  /\ UNCHANGED <<pc, state, bcast, radio, snap, since, left, power, turnedOn>>

RequestUpload ==
  /\ AllowedChange
  /\ gatt' = [gatt EXCEPT !.pauseUpload = TRUE]
  /\ UNCHANGED <<pc, state, bcast, radio, snap, key, since, left, power, cfg, turnedOn, aux>>

(* The client leaves, or is lost; the recycled callback submits the restart. *)
Disconnect ==
  /\ gatt.session # "none"
  /\ gatt' = [gatt EXCEPT !.session = "none", !.restart = TRUE]
  /\ UNCHANGED <<pc, state, bcast, radio, snap, key, since, left, power, cfg, turnedOn, aux>>

(* adv_restart_handler(), after the connection was recycled. *)
AdvRestart ==
  /\ gatt.restart
  /\ gatt' = Opened(gatt)
  /\ \E ok \in StartResults :
       /\ radio' = TryAdvStart(radio, "settings", ok)
       /\ aux' = CountFault(ok)
  /\ UNCHANGED <<pc, state, bcast, snap, key, since, left, power, cfg, turnedOn>>

Client ==
  \/ Connect \/ AuthAccepted \/ AuthRefused \/ RequestUpload \/ Disconnect
  \/ \E f \in FieldNames : WriteField(f)

--------------------------------------------------------------------------------
(* The environment: a watchdog reset or a loss of power at any moment, and   *)
(* the way back from system off (button, charger, new battery).              *)
Crash ==
  /\ pc \notin {"boot", "off"} /\ aux.faults < MaxFaults
  /\ PowerUp
  /\ aux' = CountFault(FALSE)

PowerOn ==
  /\ pc = "off"
  /\ PowerUp
  /\ UNCHANGED aux

Main ==
  \/ BootOff \/ BootOn \/ Sync \/ Sleep
  \/ ExitNotDue \/ ExitDue \/ LeaveForUpload \/ UploadWait \/ Leave \/ Reboot
  \/ SaveTime \/ BatteryNotDue \/ BatteryCheck \/ BatteryGood \/ BatteryLow
  \/ NokeysShutdown \/ NokeysStay \/ SettingsNotDue \/ SettingsEntry
  \/ MaxPowerBurst \/ RotationNotDue \/ KeyRotation
  \/ ButtonUp \/ ShortPress \/ LongPress \/ SwitchOff \/ Accelerometer
  \/ InitialBroadcast \/ Alternate \/ KeepBroadcasting

Next == Main \/ Client \/ AdvRestart \/ Crash \/ PowerOn

Spec == Init /\ [][Next]_vars

(* The main thread is always given the processor again: the callbacks are    *)
(* short, and every sleep of the main thread ends.                           *)
FairSpec == Spec /\ WF_vars(Main)

--------------------------------------------------------------------------------
(* What the main loop promises. *)

PCs == {"boot", "sync", "sleep", "exit", "leave", "upload", "reboot", "save", "battery",
        "uvlo", "nokeys", "settings", "burst", "rotate", "button", "dark", "accel",
        "advertise", "off"}
States == {"Initializing", "Broadcasting", "SettingsMode", "FirmwareUpload", "ShuttingDown"}
OnAir == {"nothing", "airtag", "fmdn", "ibeacon", "settings"}
Addr == Key \cup {NoKey, DefaultAddr, SettingsAddr}
Running == pc \notin {"boot", "off"}

BcastType == [anything : BOOLEAN, airtag : BOOLEAN, fmdn : BOOLEAN, settings : BOOLEAN]
RadioType == [enabled : BOOLEAN, onAir : OnAir, nextAddr : Addr, addr : Addr, tx : 0..2]
GattType ==
  [session : {"none", "connected", "authorized", "rejected"}, needsReset : BOOLEAN,
   pauseUpload : BOOLEAN, isSettings : BOOLEAN, restart : BOOLEAN]
SnapType == [connected : BOOLEAN, authorized : BOOLEAN, pause : BOOLEAN, reset : BOOLEAN]
KeyType ==
  [current : Nat, bleAddr : Key \cup {NoKey}, payload : Key \cup {NoKey}, changed : BOOLEAN]
SinceType == [DOMAIN Cap -> Nat]
LeftType == [settings : Nat, burst : Nat \cup {NoBurst}]
PowerType == [voltage : Nat, bad : 0..(UvloBadPowerThreshold + 1), lock : Int]
AuxType == [dirty : BOOLEAN, lowReads : Nat, faults : 0..MaxFaults]

(* Every variable holds a value of its type; in particular the low-battery   *)
(* count never passes the value that shuts the beacon down.                  *)
TypeOK ==
  /\ pc \in PCs /\ state \in States
  /\ bcast \in BcastType /\ radio \in RadioType
  /\ gatt \in GattType /\ snap \in SnapType
  /\ key \in KeyType
  /\ since \in SinceType /\ left \in LeftType
  /\ power \in PowerType
  /\ cfg \in Configs /\ turnedOn \in BOOLEAN
  /\ aux \in AuxType

(* An AirTag advertisement splits the public key between the address and the *)
(* payload: whatever put it on the air (first start, alternation, rotation,  *)
(* the return from settings mode), both halves are of the same key.          *)
AirTagAddressMatchesPayload ==
  radio.onAir = "airtag" => radio.addr = key.payload

(* No address waits for a Bluetooth restart that may never come: set_mac()   *)
(* with Bluetooth up never changes anything.                                 *)
NoAddressPending ==
  radio.enabled => radio.addr = radio.nextAddr

(* The flags and the radio agree whenever the main thread is not about to    *)
(* reset the chip: what is on the air is what the flags name, and it may be  *)
(* missing only after an advertiser failed to start or for a client.         *)
BeliefMatchesRadio ==
  Running /\ pc \notin {"upload", "reboot"} =>
    LET believed ==
          CASE bcast.settings -> "settings"
            [] ~bcast.settings /\ bcast.anything /\ bcast.airtag -> "airtag"
            [] ~bcast.settings /\ bcast.anything /\ bcast.fmdn -> "fmdn"
            [] OTHER -> "ibeacon"
    IN /\ ~(bcast.airtag /\ bcast.fmdn)
       /\ radio.onAir \in {believed, "nothing"}
       /\ radio.onAir = "nothing" =>
            \/ aux.faults > 0
            \/ gatt.session # "none" \/ gatt.restart
            \/ ~bcast.anything /\ (cfg.airtag \/ cfg.fmdn)

(* The beacon takes a connection in a settings window or during an upload    *)
(* and at no other time; in particular no late restart of the connectable    *)
(* advertising by the work queue opens a window while it broadcasts.         *)
ConnectableOnlyInWindow ==
  radio.onAir = "settings" \/ gatt.session # "none" \/ gatt.restart =>
    state \in {"SettingsMode", "FirmwareUpload"} /\ gatt.isSettings

(* The AirTag on the air is the key current_key_ points to, and it points    *)
(* into the ring.  Keys a client has just written may be others, and fewer   *)
(* than current_key_; the next rotation or start, not only a reset, puts     *)
(* that right for good, whatever length the ring had before.                 *)
ConfiguredKeyOnAir ==
  radio.onAir = "airtag" /\ ~key.changed /\ cfg.keys # <<>> =>
    /\ key.current < Len(cfg.keys)
    /\ key.payload = KeyAt(key.current)

(* Full power is transient unless it is configured: it always has a deadline,*)
(* and the burst handler never lets it pass.                                 *)
BurstEndsOnTime ==
  radio.tx = 2 /\ cfg.txPower # 2 =>
    /\ left.burst # NoBurst
    /\ pc = "rotate" => left.burst > 0

(* A beacon that was switched off does not come to life by a reset, a new    *)
(* battery or a crash, in the last half second before it is off too: it runs *)
(* only with the persistent switch on, or on its way to be off.              *)
RunsOnlyWhenTurnedOn ==
  Running /\ pc # "dark" => turnedOn

(* The low-battery count only stands for a battery that read low with the    *)
(* charge lock expired, whatever happened since it was last increased.       *)
BadPowerJustified ==
  power.bad > 0 /\ pc # "uvlo" => power.voltage < BatteryLowVoltage /\ power.lock <= 0

(* The charger keeps the under-voltage shutdown away for at least the lock   *)
(* duration divided by the largest mult_period.                              *)
UvloShutdown == state = "ShuttingDown" /\ power.bad > UvloBadPowerThreshold
ChargingHoldsOffShutdown ==
  UvloShutdown => since.charge * MaxMult >= ChargeLockDuration

(* What the comments say: a shutdown needs as many consecutive low readings  *)
(* of the battery as the threshold.                                          *)
ShutdownNeedsLowReadings ==
  UvloShutdown => aux.lowReads >= UvloBadPowerThreshold

(* The main loop implements BeaconModes: a client is connected in a settings *)
(* window or an upload only, only an authorized one can ask for an upload,   *)
(* an upload is entered from a window on such a request, and ends in a reset.*)
Modes == INSTANCE BeaconModes WITH
  mode <- state,
  session <- CASE gatt.session = "none" -> "none"
               [] gatt.session = "authorized" -> "owner"
               [] OTHER -> "guest",
  asked <- gatt.pauseUpload \/ snap.pause

ImplementsModes == Modes!Spec

--------------------------------------------------------------------------------
(* Liveness, under FairSpec. *)

(* A beacon that is on offers a settings window again and again.             *)
WindowRecurs ==
  []<>(state \in {"SettingsMode", "FirmwareUpload", "ShuttingDown"})

(* A window is left again, whatever the client does.                         *)
WindowCloses ==
  state = "SettingsMode" ~> state # "SettingsMode"

(* A beacon with a protocol configured is on the air with it again and again *)
(* unless it is switched off; failed starts are made good.                   *)
Broadcasts ==
  []<>(\/ radio.onAir \in {"airtag", "fmdn"}
       \/ ~(cfg.airtag \/ cfg.fmdn)
       \/ state = "ShuttingDown")

(* With both protocols configured for good, each gets its turn.              *)
BothProtocolsGetAirtime ==
  <>[](cfg.airtag /\ cfg.fmdn /\ state # "ShuttingDown") =>
    []<>(radio.onAir = "airtag") /\ []<>(radio.onAir = "fmdn")

(* A change that asked for a reset gets it, unless the beacon is switched    *)
(* off or a refused authorization takes the request back.                    *)
ResetRequestServed ==
  gatt.needsReset ~> ~gatt.needsReset

================================================================================
