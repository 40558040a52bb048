-------------------------------- MODULE Devices --------------------------------
(****************************************************************************)
(* The main thread as the watchdog and the charger see it: main(),           *)
(* initialize() and tick() as a sequence of pauses, feeds and calls of the   *)
(* charger's driver.  Times are in milliseconds, as in the code.             *)
(*                                                                           *)
(* What a handler decides by timers and counters is BeaconState's; here it   *)
(* is a choice.  A pause takes what the code asks for and the time of the    *)
(* work around it, which is one of Delays.                                   *)
(****************************************************************************)
EXTENDS Charger

CONSTANTS
  Boards,   \* the boards: which of button, charger and sensor they have
  Mults,    \* what mult_period may be
  Window,   \* WDT_MAX_WINDOW
  Work,     \* the longest work between two pauses
  Delays    \* the work there may be

ASSUME BoardsAssumption ==
  Boards \subseteq [button : BOOLEAN, charger : BOOLEAN, sensor : BOOLEAN]
ASSUME TimingAssumption ==
  /\ Mults \subseteq 1..8 /\ Window \in Nat /\ Work \in Nat
  /\ Delays \subseteq 0..Work

\* What the feeds leave room for: the first tick after the slow blinks at the
\* start, a tick after a short press of the button, and the way to a reset.
ASSUME BudgetAssumption ==
  /\ 1800 + 8000 + 2 * Work < Window
  /\ 32 + 1000 + 21 + 8000 + 5 * Work < Window
  /\ 9 * 1000 + 10 * Work < Window

VARIABLES
  board,
  at,         \* where the main thread is
  then,       \* where it goes on after a feed
  unfed,      \* milliseconds since the watchdog was fed
  armed,      \* the watchdog runs
  mult, protocols, on,  \* cfg.mult_period, flag_airtag or flag_fmdn, and turned_on
  inWindow,   \* broadcasting_settings_
  round,      \* rounds left of the loop the thread is in
  started     \* history: the beacon was switched on

own == <<board, mult, protocols, on, inWindow, started>>
vars == <<chargerVars, own, at, then, unfed, armed, round>>

--------------------------------------------------------------------------------
(* Pauses and feeds. *)

Go(p, q) == at = p /\ at' = q

Lasts(t) == \E w \in Delays : unfed' = unfed + t + w

(* A sleep, and the call of wdt_feed() behind it. *)
PauseThenFeed(p, t, q) == Go(p, "feed") /\ then' = q /\ Lasts(t)

(* blink_led() *)
Blink(count, fast) == (IF fast THEN 250 ELSE 1000) + 2 * count * (IF fast THEN 100 ELSE 200)

Feed ==
  /\ Go("feed", then)
  /\ unfed' = 0
  /\ UNCHANGED <<chargerVars, own, then, armed, round>>

(* bq_reinit() and is_charging(), which do nothing on the other boards. *)
BqReinit(force) == IF board.charger THEN Reinit(force) ELSE UNCHANGED chargerVars

BqIsCharging(charging) ==
  IF board.charger
  THEN \E failed \in Failures({"ts", "status"}) :
         charging = ChargingSeen(failed) /\ IsCharging(failed)
  ELSE ~charging /\ UNCHANGED chargerVars

\* The pauses in bq2512x_reinit, in battery_voltage and in accel_init.
ReinitPause == IF board.charger THEN 2 + 3 * 10 ELSE 0
BatteryPause == IF board.charger THEN ReinitPause ELSE 3 * 5
AccelInitPause == IF board.sensor THEN 1 + 20 ELSE 0

--------------------------------------------------------------------------------
(* main() and initialize(). *)

Init ==
  /\ ChargerInit
  /\ board \in Boards /\ mult \in Mults /\ protocols \in BOOLEAN /\ on \in BOOLEAN
  /\ at = "start" /\ then = "start" /\ unfed = 0 /\ armed = FALSE
  /\ inWindow = FALSE /\ round = 0 /\ started = on

(* my_wdt_init() *)
WatchdogStarted(failed) == "wdt" \notin failed

(* The watchdog, and the pin of the button; if that fails, main() returns.  *)
Start ==
  /\ at = "start" /\ unfed' = 0
  /\ \E failed \in SUBSET ({"wdt"} \cup IF board.button THEN {"pin"} ELSE {}) :
       /\ aux.faults + Cardinality(failed) <= MaxFaults
       /\ aux' = Did("none", failed)
       /\ armed' = WatchdogStarted(failed)
       /\ at' = IF "pin" \in failed THEN "dead" ELSE "lit"
  /\ UNCHANGED <<chip, bus, lastVoltage, own, then, round>>

Lit ==
  /\ PauseThenFeed("lit", Blink(1, TRUE), "switch")
  /\ UNCHANGED <<chargerVars, own, armed, round>>

(* The button at the start, and the switch. *)
Switch ==
  /\ at = "switch"
  /\ \E pressed \in IF board.button THEN BOOLEAN ELSE {FALSE} :
       /\ on' = (on \/ pressed)
       /\ started' = (started \/ pressed)
       /\ at' = IF on' THEN "reinit" ELSE "unlit"
  /\ UNCHANGED <<chargerVars, board, mult, protocols, inWindow, then, unfed, armed, round>>

StayOff ==
  /\ Go("unlit", "poweroff") /\ Lasts(500)
  /\ UNCHANGED <<chargerVars, own, then, armed, round>>

(* The charger is set up twice, then everything else. *)
FirstReinit ==
  /\ Go("reinit", "reinit2") /\ BqReinit(TRUE) /\ Lasts(ReinitPause + 10)
  /\ UNCHANGED <<own, then, armed, round>>

SecondReinit ==
  /\ Go("reinit2", "devices") /\ BqReinit(TRUE) /\ Lasts(ReinitPause)
  /\ UNCHANGED <<own, then, armed, round>>

InitUnfed ==  \* mutant: no feed before the slow blinks
  /\ Go("devices", "ready") /\ Lasts(3 * AccelInitPause + BatteryPause)
  /\ BqReinit(FALSE)
  /\ UNCHANGED <<own, then, armed, round>>
InitDevices ==
  /\ PauseThenFeed("devices", 3 * AccelInitPause + BatteryPause, "ready")
  /\ BqReinit(FALSE)
  /\ UNCHANGED <<own, armed, round>>

Ready ==
  /\ Go("ready", "release") /\ Lasts(Blink(2, FALSE))
  /\ UNCHANGED <<chargerVars, own, then, armed, round>>

StillPressed ==
  /\ board.button
  /\ PauseThenFeed("release", 1000, "release")
  /\ UNCHANGED <<chargerVars, own, armed, round>>

Released ==
  /\ Go("release", "sleep")
  /\ UNCHANGED <<chargerVars, own, then, unfed, armed, round>>

--------------------------------------------------------------------------------
(* tick(): the sleep at its head, and the settings window. *)

Sleep ==
  /\ PauseThenFeed("sleep", IF inWindow THEN 1000 ELSE 1000 * mult,
                   IF inWindow THEN "exit" ELSE "battery")
  /\ UNCHANGED <<chargerVars, own, armed, round>>

(* handle_settings_mode_exit(): not yet; a wait for a client; a second wait  *)
(* for an authorized one.                                                    *)
Exit ==
  /\ at = "exit"
  /\ \/ at' \in {"sleep", "leave"} /\ UNCHANGED <<then, unfed>>
     \/ \E q \in {"leave", "authorized"} : PauseThenFeed("exit", 2000, q)
  /\ UNCHANGED <<chargerVars, own, armed, round>>

AuthorizedWait ==
  /\ PauseThenFeed("authorized", 4000, "leave")
  /\ UNCHANGED <<chargerVars, own, armed, round>>

(* Back to broadcasting, with the settings a client wrote. *)
Leave ==
  /\ Go("leave", "sleep")
  /\ inWindow' = FALSE /\ mult' \in Mults /\ protocols' \in BOOLEAN
  /\ Lasts(0)
  /\ UNCHANGED <<chargerVars, board, on, started, then, armed, round>>

LeaveForUpload ==
  /\ Go("leave", "upload") /\ round' = 15
  /\ UNCHANGED <<chargerVars, own, then, unfed, armed>>

LeaveForReset ==
  /\ Go("leave", "reboot") /\ round' = 9 /\ Lasts(0)
  /\ UNCHANGED <<chargerVars, own, then, armed>>

UploadRound ==
  /\ round > 0 /\ PauseThenFeed("upload", 4000, "upload") /\ round' = round - 1
  /\ UNCHANGED <<chargerVars, own, armed>>

UploadOver ==
  /\ round = 0 /\ Go("upload", "reboot") /\ round' = 9
  /\ UNCHANGED <<chargerVars, own, then, unfed, armed>>

(* reboot(): eight rounds for the watchdog, one more, and a cold reset. *)
RebootRound ==
  /\ round > 0 /\ Go("reboot", "reboot") /\ Lasts(1000) /\ round' = round - 1
  /\ UNCHANGED <<chargerVars, own, then, armed>>

(* A reset: the chip goes on, the driver and the bus are as at the start. *)
Restarted ==
  /\ at' = "start" /\ unfed' = 0 /\ armed' = FALSE
  /\ bus' = "active" /\ aux' = Did("none", {})
  /\ lastVoltage' = 0 /\ inWindow' = FALSE /\ round' = 0
  /\ UNCHANGED <<board, mult, protocols, on, started, then>>

ResetByWatchdog ==  \* mutant: no cold reset if the watchdog did not react
  /\ at = "reboot" /\ round = 0 /\ armed
  /\ Restarted
  /\ UNCHANGED chip
Reset ==
  /\ at = "reboot" /\ round = 0
  /\ Restarted
  /\ UNCHANGED chip

--------------------------------------------------------------------------------
(* The handlers of a broadcasting tick.  What they decide by counters and    *)
(* uptime is left open.                                                      *)

BatteryNotDue ==
  /\ Go("battery", "uvlo")
  /\ UNCHANGED <<chargerVars, own, then, unfed, armed, round>>

BatteryCheck ==
  /\ Go("battery", "uvlo") /\ BqReinit(FALSE) /\ Lasts(BatteryPause)
  /\ UNCHANGED <<own, then, armed, round>>

(* handle_uvlo_shutdown(): the charger is asked only when the battery is low.*)
LowVoltage == 2800

VoltageGood ==
  /\ board.charger => lastVoltage >= LowVoltage
  /\ Go("uvlo", "nokeys")
  /\ UNCHANGED <<chargerVars, own, then, unfed, armed, round>>

VoltageLow ==
  /\ board.charger => lastVoltage < LowVoltage
  /\ at = "uvlo"
  /\ \E charging \in BOOLEAN :
       /\ BqIsCharging(charging)
       /\ at' \in IF charging THEN {"nokeys"} ELSE {"nokeys", "ship"}
  /\ UNCHANGED <<own, then, unfed, armed, round>>

(* handle_nokeys_shutdown() *)
Nokeys ==
  /\ ~protocols
  /\ \E charging \in BOOLEAN :
       /\ BqIsCharging(charging)
       /\ \/ Go("nokeys", "settings") /\ UNCHANGED unfed
          \/ ~charging /\ Go("nokeys", "ship") /\ Lasts(Blink(2, TRUE))
  /\ UNCHANGED <<own, then, armed, round>>

HasProtocol ==
  /\ protocols
  /\ Go("nokeys", "settings")
  /\ UNCHANGED <<chargerVars, own, then, unfed, armed, round>>

ShipForgotten ==  \* mutant: switched off without ship mode
  /\ Go("ship", "poweroff") /\ Lasts(0)
  /\ UNCHANGED <<chargerVars, own, then, armed, round>>
Ship ==
  /\ at = "ship"
  /\ \/ ~board.charger /\ at' = "poweroff" /\ UNCHANGED <<chargerVars, unfed>>
     \/ board.charger /\ AskShipMode(TRUE) /\ at' = "poweroff" /\ UNCHANGED unfed
     \/ board.charger /\ AskShipMode(FALSE) /\ at' = "shipping" /\ Lasts(2)
  /\ UNCHANGED <<own, then, armed, round>>

ShipWrite ==
  /\ Go("shipping", "poweroff") /\ WriteShipMode
  /\ UNCHANGED <<own, then, unfed, armed, round>>

(* handle_settings_mode_entry(), or the burst and the rotation. *)
SettingsEntry ==
  /\ Go("settings", "sleep") /\ inWindow' = TRUE
  /\ Lasts(0)
  /\ UNCHANGED <<chargerVars, board, mult, protocols, on, started, then, armed, round>>

NoSettingsEntry ==
  /\ Go("settings", "button") /\ Lasts(0)
  /\ UNCHANGED <<chargerVars, own, then, armed, round>>

(* handle_button_longpress() *)
NotPressed ==
  /\ Go("button", "sensor")
  /\ UNCHANGED <<chargerVars, own, then, unfed, armed, round>>

ShortPress ==
  /\ board.button /\ Go("button", "sensor") /\ Lasts(1000)
  /\ UNCHANGED <<chargerVars, own, then, armed, round>>

LongPress ==
  /\ board.button /\ PauseThenFeed("button", 1000, "blink")
  /\ UNCHANGED <<chargerVars, own, armed, round>>

LongPressSeen ==
  /\ Go("blink", "held") /\ Lasts(Blink(2, TRUE))
  /\ UNCHANGED <<chargerVars, own, then, armed, round>>

StillHeld ==
  /\ PauseThenFeed("held", 500, "held")
  /\ UNCHANGED <<chargerVars, own, armed, round>>

SwitchOff ==
  /\ Go("held", "poweroff") /\ on' = FALSE /\ Lasts(500)
  /\ UNCHANGED <<chargerVars, board, mult, protocols, inWindow, started, then, armed, round>>

(* handle_accelerometer(), with or without the initialization of the sensor. *)
Sensor ==
  /\ Go("sensor", "sleep")
  /\ \E t \in {0, AccelInitPause} : Lasts(t)
  /\ UNCHANGED <<chargerVars, own, then, armed, round>>

(* power_off(): whether a watchdog can be disabled is up to the hardware.    *)
PowerOff ==
  /\ Go("poweroff", "off") /\ armed' \in {FALSE, armed}
  /\ Lasts(500)
  /\ UNCHANGED <<chargerVars, own, then, round>>

--------------------------------------------------------------------------------
(* The environment: the way back from system off (a chip in ship mode needs  *)
(* a supply), and the watchdog.                                              *)
PowerOn ==
  /\ at = "off" /\ (chip.ship => chip.vin)
  /\ Restarted
  /\ chip' = [chip EXCEPT !.ship = FALSE]

Wait ==
  /\ at = "dead" /\ unfed < Window
  /\ unfed' = Window
  /\ UNCHANGED <<chargerVars, own, at, then, armed, round>>

Bite ==
  /\ armed /\ unfed >= Window
  /\ Restarted
  /\ UNCHANGED chip

ChipAlone == Chip /\ board.charger /\ UNCHANGED <<own, at, then, unfed, armed, round>>

Startup ==
  \/ Start \/ Lit \/ Switch \/ StayOff \/ FirstReinit \/ SecondReinit
  \/ InitDevices \/ Ready \/ StillPressed \/ Released
InSettings ==
  \/ Exit \/ AuthorizedWait \/ Leave \/ LeaveForUpload \/ LeaveForReset
  \/ UploadRound \/ UploadOver \/ RebootRound \/ Reset
Tick ==
  \/ BatteryNotDue \/ BatteryCheck \/ VoltageGood \/ VoltageLow \/ Nokeys \/ HasProtocol
  \/ Ship \/ ShipWrite \/ SettingsEntry \/ NoSettingsEntry \/ NotPressed \/ ShortPress
  \/ LongPress \/ LongPressSeen \/ StillHeld \/ SwitchOff \/ Sensor \/ PowerOff
Main == Feed \/ Sleep \/ Startup \/ InSettings \/ Tick

Next == Main \/ Wait \/ Bite \/ PowerOn \/ ChipAlone

Spec == Init /\ [][Next]_vars

(* The main thread goes on, and the watchdog counts and resets. *)
FairSpec == Spec /\ WF_vars(Main) /\ WF_vars(Wait) /\ WF_vars(Bite)

--------------------------------------------------------------------------------
Places ==
  {"start", "dead", "lit", "feed", "switch", "unlit", "reinit", "reinit2", "devices",
   "ready", "release", "sleep", "exit", "authorized", "leave", "upload", "reboot",
   "battery", "uvlo", "nokeys", "ship", "shipping", "settings", "button", "blink", "held",
   "sensor", "poweroff", "off"}

Operations == {"none", "reinit", "charging", "asked", "ship", "refused"}

(* Every variable holds a value of its type; the charger's registers are     *)
(* never more than the driver knows of.                                      *)
TypeOK ==
  /\ chip \in [set : SUBSET Regs, ts : BOOLEAN, vin : BOOLEAN, stat : Stats, ship : BOOLEAN]
  /\ bus \in {"active", "suspended"}
  /\ lastVoltage \in Nat
  /\ aux \in [last : Operations, taken : BOOLEAN, unsure : BOOLEAN, faults : 0..MaxFaults]
  /\ board \in Boards /\ at \in Places /\ then \in Places
  /\ unfed \in Nat /\ armed \in BOOLEAN /\ mult \in Mults /\ protocols \in BOOLEAN
  /\ on \in BOOLEAN /\ inWindow \in BOOLEAN /\ round \in 0..15 /\ started \in BOOLEAN

(* The watchdog never resets a program that works: on no way from one feed   *)
(* to the next does its window pass, not from the start to the end of the    *)
(* first tick, nor in a tick with a pressed button, nor in the eight seconds *)
(* that wait for it.                                                         *)
FedInTime ==
  armed /\ at # "dead" => unfed < Window

(* Where power is to be saved, in the sleep of a tick or switched off, the   *)
(* bus to the charger is suspended, but after a question for charging, and   *)
(* in a beacon that was refused ship mode or never came to its first reinit. *)
Parked ==
  board.charger /\ bus = "active" =>
    /\ at = "sleep" => aux.last = "charging"
    /\ at = "off" => aux.last \in {"none", "charging", "refused"}

(* A board with the charger that has shut itself down is in ship mode, as    *)
(* myboards.h asks for, or was refused it, or something failed.              *)
OffInShipMode ==
  board.charger /\ at = "off" /\ on =>
    chip.ship \/ aux.last = "refused" \/ aux.faults > 0

(* A charger on its defaults, or with some of them left, still has the flag  *)
(* that will have it programmed, unless is_charging() took it, it was cleared*)
(* the moment it came up, or a transfer failed: no reset and no way through  *)
(* the handlers loses it.                                                    *)
DefaultsNoticed ==
  chip.set # Regs => chip.ts \/ aux.taken \/ aux.faults > 0

(* A charger that is charging is sent into ship mode only if the supply came *)
(* in the pause between the question and the write of bq2512x_shipmode(), or *)
(* the answer was lost: one that came before, in the blink of the handler or *)
(* since the handler asked for charging itself, is seen.                     *)
NoShipModeWhileCharging ==
  [][chip'.ship /\ ~chip.ship /\ chip.stat = "charging" => aux.unsure]_vars

(* Liveness, under FairSpec: the program that asks for a reset gets it, and  *)
(* one that ended in main() too if the watchdog is running.                  *)
ResetComes ==
  (at = "reboot" \/ (at = "dead" /\ armed)) ~> at = "start"

(* What README.md says of the boards without a button: they start right      *)
(* after flashing.                                                           *)
StartsAfterFlashing ==
  ~board.button /\ at = "off" => started

================================================================================
