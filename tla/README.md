# A TLA+ model of the Everytag firmware

Everytag is firmware for small Nordic boards that broadcast as an Apple AirTag
(Offline Finding), as a Google Find My Device tag (FMDN), or as both in turn.
Once a minute the beacon becomes connectable for a few seconds; a client that
knows the eight-byte code may then change its settings, upload AirTag keys, or
ask for a firmware upload.

This directory models the program logic of the firmware (`src/src/`), checks it with
TLC on small instances, and proves the core invariants with TLAPS for all
instances.

## 1. Inventory

| part | source | state it keeps | operations |
|---|---|---|---|
| state machine | `beacon_state.cpp`, `main.cpp` | mode, four broadcasting flags, timers, current key, battery counters, copies of the session flags | `initialize`, `tick` and its handlers |
| settings window | `gatt_glue.c` | `connectedGatt`, `authorizedGatt`, `allowedChange`, `needsReset`, `pauseUpload`, `keysReceived`, `updateKeysAtDisconnect` | connection callbacks, twelve characteristics, start and stop of the connectable advertising |
| hardware layer | `zephyr_hardware.cpp` | `adv_is_settings`, `adv_enabled`, the restart work, advertising data | radio, address, power, ADC, reboot, power off, handlers of the characteristics |
| settings manager | `beacon_config.cpp` | the configuration, the 40 key slots, the clock offset | `load`, `save_field`, validated setters, `get_time`, `save_time` |
| flash storage | `zephyr_nvs.cpp` | the ZMS file system | `init`, `read`, `write` |
| battery and charger | `bq2512x.c`, ADC part of `zephyr_hardware.cpp` | registers of the BQ25121A, the I2C bus, the last voltage | `bq_reinit`, voltage, charging, ship mode |
| accelerometer | `lis2dw12.c`, `accel_data.cpp` | FIFO statistics, movement history | init, read, power down; `MovementTracker` |
| status and advertising data | `beacon_logic.cpp`, `ble_glue.c` | byte templates | `compute_status`, `derive_mac_from_key`, `fill_adv_template` |
| watchdog | `watchdog.c` | the hardware timer | init, feed, disable |
| client | `conn_beacon.py`, `flash_beacon.sh` | - | configures a beacon |

**How they interact.** `main()` runs an endless loop on the main thread:
`glue_sync_gatt_state` copies four session flags into the state machine, then
`tick()` sleeps and runs the handlers in a fixed order, some of which return
early. Handlers call the radio through `IHardware`. The Bluetooth host runs the
callbacks of `gatt_glue.c` on its own thread, at any moment of the main loop; they
write the globals and, through `beacon_glue_handle_*`, the settings and flash. When a connection
has ended, the `recycled` callback submits work to a third thread, the queue
`adv_wq`, which starts the connectable advertising again. A watchdog resets the chip.

**What is hard.**

* Three threads share plain globals. The permission flags are cleared in four
  places, `keysReceived` and `updateKeysAtDisconnect` in two, and the restart
  handler checks and acts in two steps.
* The main loop decides on copies taken before it slept.
* The address of the radio may be changed only while Bluetooth is down, the key is
  split between address and payload, and the address is set in five places.
* The result of starting an advertiser is ignored.
* Timers of different length compete in a tick whose length is itself a setting, and
  an early return skips the handlers behind it.
* Flash is written in pieces; a reset may come between any two.
* A tick sleeps up to eight of the watchdog's ten seconds.
* The charger is programmed only when a flag says so, which reading it clears, and the
  results of the transfers are ignored.
* The history of movements is kept in two arrays that move on at different times.

**What makes each part correct.** State machine: what is on the air is what the flags say,
with both halves of one key, connectable only in a window, at full power only for a
burst; windows come back and end; a shutdown has its reason. Settings window: no
client inherits a permission; key halves go where they belong and reach flash; the
window stays connectable. Settings and flash: what comes back after a reset is what a
client was told was accepted; the clock does not go back. Watchdog: it is fed in time by
a program that works. Charger: programmed, or known not to be; in ship mode when
the board is off and never while it charges; the bus is suspended in every sleep.
Accelerometer: the history says nothing of the past that did not happen, and forgets
nothing recent. Encodings: a receiver gets back what was put in.

The hazards, each with its source line and the properties aimed at it, are in
`PROJECT.json`.

## 2. Modules

| module | role |
|---|---|
| `BeaconModes` | abstract specification: the mode, who is connected, whether an upload was asked for |
| `BeaconState` | the main loop, one action per handler, with radio, timers, battery, and a summary of the settings session |
| `GattGlue` | the settings window at the grain of its three threads, and the upload of keys |
| `Settings` | every setting and the key ring between client script, handlers, RAM and flash |
| `Clock` | the clock: offset in RAM, uptime, time in flash; its own instance for TLC |
| `MCRadio`, `MCPower`, `MCLive` | instances of `BeaconState` |
| `MCGatt` | instance of `GattGlue` |
| `MCSettings` | instance of `Settings` |
| `Telemetry` | operators: the status byte, a key split between address and payload, and what a receiver makes of them |
| `Movement` | from accelerometer over history and summary to the status byte; uses `Telemetry` |
| `Charger` | the driver of the BQ25121A and the chip |
| `Devices` | the main thread as pauses, feeds of the watchdog and calls of `Charger` |
| `MCMovement`, `MCDevices` | instances of `Movement` and `Devices` |
| `BeaconState_proofs`, `BeaconPromises_proofs`, `GattGlue_proofs`, `Settings_proofs`, `Clock_proofs`, `Devices_proofs`, `Telemetry_proofs`, `Movement_proofs` | theorems |

`BeaconState` and `GattGlue` overlap in the settings window: `BeaconState` has the
whole beacon and one step per callback, `GattGlue` has one window in full detail.
Both are checked, and proved, to implement `BeaconModes` under a refinement mapping, which keeps
the two views of a window together. `Devices` walks through the handlers of `BeaconState`
again, with the times of their pauses; what a handler decides by timers and counters,
which `BeaconState` has, is a choice there.

### BeaconState

| variable | code |
|---|---|
| `pc` | the handler the main thread runs next (`boot`, `sync`, `sleep`, `exit`, ... in the order of `tick`) |
| `state`, `bcast`, `snap`, `power` | `state_`, the `broadcasting_*_` flags, the copies `connected_gatt_` ..., `last_battery_voltage_`, `bad_power_`, `charge_lock_counter_` |
| `since`, `left` | `timers_`: the time since each recorded uptime, and the time to each deadline |
| `key` | `current_key_`, `ble_addr_`, the key in the AirTag payload, and (history) whether a client wrote keys since that was prepared |
| `radio` | the controller: up or not, what it advertises, address in use and address to be used, power |
| `gatt` | the session, `needsReset`, `pauseUpload`, `adv_is_settings`, a submitted restart |
| `cfg`, `turnedOn` | the settings the main loop reads |
| `aux` | history for the properties: something written since the start, consecutive low readings, failures so far |

A handler is one action with everything it does; the early returns of a handler are the
guards of its `...NotDue` action. Client actions fall between any two handlers, so a
client can act between the copy of the flags and its use, and inside the sleep of a
tick. The sleeps of `handle_settings_mode_exit` end an action (`ExitDue`), since
clients act in them. The long press is two actions: `LongPress` saves the switch, `SwitchOff` turns
the system off after the half second of sleep, and a reset may come between. Time is relative: an age counts up to the interval it is compared with, so
the state space is finite without a bound on the uptime.

The radio follows what the firmware relies on: an address is taken over by
`bt_enable`; `bt_disable` ends advertising; a second start is refused; an update
changes the payload of a running advertiser. A start may fail (`StartResults`), for
the broadcasts, the iBeacon, the settings window and the restart after a client.

After a reset `load()` finds what was saved. Every setting is saved when it is
written; the keys are saved at the disconnection, and old slots of the array can come back with them, so
when a client wrote anything the keys after a reset are left open (`Reloaded`).

### GattGlue

The main thread is cut at every call into the Bluetooth host (where it blocks); a
callback is one step; the restart handler is two, check and start. `link` follows a
connection from `up` over `closing` (a disconnection was asked for) and `dropped`
(`disconnected` has run) to `none` (`recycled` has run). `ram` and `nvs` are the key
array and its copy in flash. History: whether the last code of this connection was right (`authed`),
how many halves it has sent (`chunks`), which slots hold a key sent whole (`whole`).

Assumptions about the Bluetooth host, each used in a guard: one connection at a time
(`CONFIG_BT_MAX_CONN` keeps its default of one), so advertising cannot start while the connection object is in use;
`bt_disable` returns after the connection was cleaned up; `k_work_cancel_sync`
waits for a running handler. `Settled`: a client cannot complete a connection in the
few instructions between `::start_settings_adv()` and the assignment of
`adv_is_settings` that follows it without blocking.

### Settings

| variable | code |
|---|---|
| `conf`, `keys`, `numKeys` | `BeaconConfig`: the scalar fields, the key array, the count |
| `flash`, `mounted` | what ZMS holds (`Absent`: never written), and whether `ZephyrNvsStorage::init` mounted it at this start |
| `life` | off, broadcasting, or in a window |
| `needsReset`, `authorizedGatt`, `allowedChange`, `keysReceived`, `updateKeysAtDisconnect` | the globals of `gatt_glue.c` |
| `link`, `todo` | a client is connected, and the writes it has still to do |
| `ring`, `newCode`, `unsaved`, `uploaded` | history: what the client was called with and has sent, the fields whose last save failed, the last ring that was saved whole |

A value is what the client sends, an integer of any size; `Accepts` is
`validate_field` with the specification of each handler, `Applied` the setter with
the narrowing of its caller and the alignment of the interval, `Stored` what
`save_field` writes, `LoadedField` and `Count` what `load()` makes of it. The client
runs the script `conn_beacon.py` in its order, and ends with the first error; the link may be
lost, and the window may close, between any two writes. `GattGlue` has the threads
of the window, so here a callback is one step.

### Clock

`now` is real time, `Time` is `get_time()`. Each sleep of the main thread is a step apart from
what it does after it. A tick is `Sleep`, up to eight seconds, and `Look`, which saves when the hour is
over; a round of the upload is `UploadWait` and `UploadSave`, one of `reboot()` is `RebootSave`
and `RebootWait`. `WriteTime` is a client with the right time. `Crash` loses the uptime, in any
of these places; so it may fall in the very sleep whose end would have brought an overdue save. In
a window the timer is not looked at.

### Telemetry and Movement

| variable | code |
|---|---|
| `on`, `flags` | `accel_threshold` is not zero, `status_flags` |
| `moves` | `moves20` and `moves300` of `lis2dw12.c`; `MovementTracker` has the same operators (`Recorded`, `Summary`) |
| `sinceRead`, `sinceShift` | the time since `timers_.accel_read` and `lastMovesShift` |
| `what` | `what_in_status_` |
| `seen`, `stale` | history: the ages of the readings that saw movement, and whether a due reading was left out |
| `receiver`, `sent` | history: the last value of each kind a receiver decoded, and what the beacon put in |

`NotDue`, `Read` and `ReadFailed` are `handle_accelerometer` with `accel_read`; they
are called one to `MaxLook` seconds apart, as ticks and windows come. A batch of samples is
its number of disturbances. `UpdateStatus` is `update_status`, with the tracker of
`main()` that nothing feeds; `SetThreshold` and `SetStatus` are a client. The age of a
movement is compared with the time a slot can stand for (`Youngest`, `Oldest`), which
follows from the length of the arrays and from the longest time between two readings
(`Gap`). After a failed or left-out reading the array is late (`stale`), and only
`RecentMovementShown` is claimed.

### Charger and Devices

| variable | code |
|---|---|
| `chip` | the BQ25121A: which registers are programmed, the TS flag (set while it runs on defaults), the supply, the top bits of the status register, ship mode |
| `bus` | the I2C controller, by `bq2512x_resume_i2c` and `bq2512x_suspend_i2c` |
| `lastVoltage` | `bq2512x_lastVoltage` |
| `aux` | history: the last operation of the driver; whether `is_charging`, or the gap between reading the flag and clearing it, took the flag of an unprogrammed chip; whether ship mode goes by a status that was lost or is old (`unsure`); failures |
| `at`, `then`, `round` | where the main thread is, where it goes on after a feed, rounds left of a loop |
| `unfed`, `armed` | milliseconds since the last feed, and whether the watchdog runs |
| `board`, `mult`, `protocols`, `on`, `inWindow` | what decides the way: `myboards.h`, `mult_period`, the protocol flags, `turned_on`, `broadcasting_settings_` |
| `started` | history: the beacon was switched on |

`Reinit`, `IsCharging` and the two halves of ship mode are the operations of the driver; in each
step one transfer may fail. `AskShipMode` reads the status, and `WriteShipMode` comes after the 2 ms
`bq2512x_shipmode` sleeps, so the supply may come or go between. In `Reinit` the chip
may fall back to its defaults between the read of the flag and its clearing (`fell`). `PauseThenFeed` is a pause of the code with the
`wdt_feed()` behind it, `Lasts` a pause without one; a pause takes its time in
milliseconds and the work around it, one of `Delays`. `main()` is `Start` (which may
fail and return), `initialize()` goes from `Lit` to `Released`, `tick()` from `Sleep`
through the handlers to `Sensor`; `Exit` to `UploadOver` are
`handle_settings_mode_exit`, `RebootRound` and `Reset` are `reboot()`. The chip
keeps its state over a reset of the controller (`Restarted`).

The chip is external: it answers with CD low only while a supply is
connected, falls back to its defaults at any time, and sets the flag when it does.
`bq2512x.c` is written for that.

## 3. Runs

| run | question | expected |
|---|---|---|
| `radio` | is what is on the air what it should be, whatever client, timers, failures do | pass |
| `power` | shutdowns, charge lock, the persistent switch | pass |
| `live` | liveness of the main loop | pass |
| `gatt` | the settings window between three threads | pass |
| `settings` | does a reset find the settings in use and the ring that was uploaded | pass |
| `clock` | can the clock run ahead, and how far can it fall behind | pass |
| `movement` | does the movement history tell the truth, does a receiver understand the status byte | pass |
| `devices` | is the watchdog fed in time, are charger and bus in the right state | pass |
| `low_reads` | are several low readings needed for a shutdown | violated |
| `new_code` | does an authorized client's new code become the code | violated |
| `accel` | is recorded movement broadcast | violated |
| `starts` | does a board without a button start after flashing | violated |

What the passing runs show:

* `AirTagAddressMatchesPayload`, `NoAddressPending`: over first start, alternation,
  rotation and return from a window the advertised payload and the address are of one
  key, and no address is set that would come into force at some later, unrelated restart.
* `BeliefMatchesRadio`, `Broadcasts`: flags and radio agree; only a failed start or a client
  leaves the air empty, and with a protocol configured the beacon recovers from it.
* `ConnectableOnlyInWindow`, `ImplementsModes`: no late restart opens the beacon
  outside a window; an upload starts only at the wish of an authorized client. The wish may
  be one the client has taken back since the flags were copied (`snap.pause` counts as asking).
* `ConfiguredKeyOnAir`: `current_key_` and the ring agree from each start or rotation to the next
  write of keys. The ring may shrink below `current_key_` without a reset (new keys, then
  a refused code, which takes the request for the reset back); the next rotation is right again.
  Between that write and the rotation the AirTag keeps the old key, and nothing is claimed.
* `BurstEndsOnTime`, `BadPowerJustified`, `ChargingHoldsOffShutdown`, `RunsOnlyWhenTurnedOn`:
  the other handlers against their interleavings.
* `WindowRecurs`, `WindowCloses`, `BothProtocolsGetAirtime`, `ResetRequestServed`:
  no handler starves another, no client keeps a window open or a reset away.
* `AuthNotInherited`, `ChunkPositionFresh`, `WholeKeysSaved`,
  `AdvertisingComesBack`: the window between its threads.
* `SettingsSurviveReset`: validator, setter, saved value and `load()` agree on every
  field, so a reset changes nothing but what could not be written.
* `UploadedRingKept`: neither a cut session, nor old keys behind a shorter ring, nor a
  crash changes the ring that was uploaded last.
* `NeverAhead`, `LossBounded`: no sequence of saves and resets counts an uptime
  twice, and a reset at any moment costs less than the save interval, a window, and the sleep of
  one tick: the last look at the timer may be a second short of the hour, the window puts the
  next one off, and the power may be lost in the sleep before it.
* `NothingInvented`, `RecentMovementShown`, `LastingMovementKept`: the two arrays, which move
  on at different times, together keep what they should; a movement within the span of the
  short array is shown even when readings fail.
* `ReceiverUnderstands`: in the cycling modes no value is taken for one of another kind, and
  all three come round.
* `FedInTime`, `ResetComes`: no way through start, tick, window, upload and reset is longer
  than the watchdog's window, with 200 ms to spare on the longest; a reset that was
  asked for comes although `reboot()` is shorter than that window.
* `DefaultsNoticed`, `Parked`, `OffInShipMode`, `NoShipModeWhileCharging`: the charger over
  resets, fallbacks, failing transfers and a supply that comes and goes, with the exceptions the
  properties name. A supply that comes between the handler's question and that of ship mode is
  noticed; one that comes in the 2 ms after the latter is not, and `NoShipModeWhileCharging` excepts it.

What the violated runs show (details and quotations in `PROJECT.json`):

1. `ShutdownNeedsLowReadings`. The low-battery count goes up per tick on the last
   reading, not per reading: one bad reading is enough.
2. `NewCodeTaken`. A new code is compared with the old one and refused; no handler
   stores it.
3. `MovementReported`. `accel_read` fills the arrays of the C driver, `update_status` reads
   the `MovementTracker`, and nothing copies one to the other: movement and
   temperature in the status byte are always zero.
4. `StartsAfterFlashing`. Without a button, `turned_on` keeps its default, and the
   beacon switches itself off at every start. (On a charger board the model therefore starts
   with either value of the switch in flash.)

Noticed while modelling, without a run:

* Settings: an interval of 30 or 31 s passes the validator and is dropped by the setter without
  a word. The zero key that ends an upload counts in `num_keys` until the reset, which a
  refused code in the same window cancels. In the firmware-upload branch
  `start_settings_adv` clears `updateKeysAtDisconnect` before `disconnected` reads it, so keys
  of a client that is still connected are not saved.
* Window: the wait for a code tests `authorized_gatt_`, a copy taken before the wait.
* Power: a tick takes `mult_period` off the charge lock, also a settings tick, which lasts one
  second, so its hour gets shorter with each window. The under-voltage shutdown does not look at
  `BATTERY_UVLO_SHUTDOWN`, nor the no-keys shutdown at `SHUTDOWN_NOKEYS`, which `myboards.h`
  defines for some boards only; the no-keys shutdown tests the protocol flags, not the keys.
* Radio: `set_mac` is called with Bluetooth up in `broadcast()` although `ihardware.hpp` forbids it
  (harmless: the address is already in force, which is what `NoAddressPending` says). An
  FMDN-only beacon starts with the AirTag address (`initialize`), and without it after a
  window, although the comment there says FMDN uses the default address.
* Clock: `store_time` is not called before a shutdown although `ihardware.hpp` says so; a client
  that sets the clock has the offset saved and not the time, so a reset before the next hourly
  save puts it back by the uptime (`LossBounded` excepts this).
* Charger: `bq2512x_is_charging` clears the flag of a chip on its defaults without
  programming it, and leaves the bus active, as a refused ship mode does; a register whose
  write failed is not written again before the chip falls back; ship mode is refused also when
  charging is done or the chip reports a fault, and the board switches off without it. A bus left
  active is suspended by the next reinit, at most a minute later (`Parked`). "Don't do shipmode if charging"
  (`bq2512x.c:292`) is not kept if the supply comes in the pause before the write, and a fallback between the
  read of the flag and its clearing in `bq2512x_ts_disable` is not noticed.
* Watchdog: `reboot()` waits nine seconds "by WDT", one less than its window, so the reset
  is always the one of `sys_reboot`.
* Movement: a movement seen by a single reading is lost if the long array moves on just then, about
  one in sixteen; a slot stands for 320 s, so the bits reach further back than their names; the
  history stands still while the threshold is zero or readings fail, and looks recent after.
* Status: FMDN cycles in mode 3, which `beacon_config.hpp` documents as in AirTag; the battery
  level is or-ed onto the base byte, so base bits can hide it.

### Bounds, and why they are enough

* Timers (`cfg` files): intervals of 1 to 8 s instead of 60 to 7200 s. The handlers only
  compare ages with intervals, so what matters is which timers are due together
  and in which order they come due. The values give rotation, burst, battery check and window
  every order and coincidence, between slow (`mult` 2) and fast ticks and, in `power`, with sleeps that
  take a second longer (`Jitter`).
* `MCLive` keeps the window much shorter than the interval between windows (8 s against
  2 + 2 s), as the code does (60 s against 2 + 6 s); a window longer than the interval
  would be entered again at once.
* Keys: rings of zero, one and two keys, and a third key to tell a new ring from an
  old one; a ring of two may become one of one without a reset. Rotation only looks at the current and the next index.
* Configurations: each one characteristic away from another one, so clients reach
  them in any order.
* `MaxFaults` = 1: one crash or one failed start per behaviour (and any number of regular resets).
* `MaxKeys` = 1: with one slot a session sends none, one, both or one half too many;
  another session sends other halves over it. The position logic of a half does not depend on the slot;
  the theorems hold for every `MaxKeys`.
* `MCSettings`: `MaxKeys` = 2, rings shorter than the array, as long, and empty, of keys in
  either order, so old keys can be left behind a new ring; values below, within and
  above their range, aligned and not; a wrong code; one fault. A field is independent of the
  others, so few of them need a job; the theorems are for every field and integer.
* `Clock`: a save every 5 s, ticks of up to 2 s, windows of 3 s, up to second 33, which
  is room for several saves, windows and restarts in every order. `LongestTick`
  stands for the sleep of a tick with everything it may wait for, a held button included.
* `MCMovement`: readings every 2 or 3 s, a short array of two halves of two, slots of 4 s, four slots
  with the first two in one bit as in the firmware, and at most two movements held at a time, which lets one be shifted
  out while another comes. The arrays differ in speed as the real ones do: the long one moves on
  more slowly than a half of the short one fills. Two settings of the status flags: both protocols cycling in different
  modes, and one not.
* `MCDevices`: the times of the code. `mult_period` 1 and 8, work of 0 or 40 ms between two pauses, two failures, a board with
  the charger and one with button and accelerometer; two voltages, below and above the threshold. `unfed` needs no bound: a feed comes, or
  the program ends.
* No symmetry is used: liveness is checked, or the keys are few.

### Fairness

`BeaconState`: weak fairness of the main thread, nothing else. Its sleeps end, the
calls it makes return, and callbacks are short. The client is never assumed to do anything, nor
is a submitted restart assumed to run.

`Devices`: weak fairness of the main thread, of the passing of time after `main()` has
returned, and of the watchdog, which is hardware. None for the charger or the power supply.

`Settings`, `Clock` and `Movement` have safety properties only, and no fairness.

`GattGlue`: weak fairness of the main thread, of the work queue (it has the lowest
priority, but the other two threads sleep), of `recycled` after a
disconnection, and of a disconnection the firmware asked for (the supervision timeout of the
link). None for the client.

## 4. Proofs

Every safety property of the runs is a theorem, for every value of the constants that the named
assumptions admit. The theorems are `Spec => []Inv`, from an inductive invariant (which TLC
checked on the instances above before it was proved), but for an action property, the two refinements
of `BeaconModes` and the theorems about the operators of `Telemetry`.

`GattGlue_proofs`, for every `MaxKeys`, `Chunk` and `MaxCrashes`: `TypeCorrect`,
`NoInheritedAuth`, `ChunksInPlace`, `KeysReachFlash`, `ThreadsImplementModes`. The properties are not
inductive by themselves. The
invariant adds what the window knows about the threads: connectable advertising and
running restart work exist only while the window is open (`FlagsStep`, `WindowStep`), the flags of a
connection that is not alive are clear, the counter starts at zero whenever
advertising does (`SessionStep`), and keys sent whole are in flash or marked to be saved (`KeysStep`).
One lemma per part of the invariant, one step per action. The refinement needs of it that a
callback finds somebody only in a window or an upload (`ClientNeedsWindow`): then what it does to the flags
is a step of a session (`CallbackModes`).

`BeaconState_proofs`, for every set of configurations, both board types, every length of
the intervals, and any number of failures, from the named assumptions of
`BeaconState` (configurations of the right type, no key equal to `NoKey`, natural
intervals): `TypeCorrect`, `AddressAndPayloadAgree`, `NoAddressLeftBehind`,
`ConnectableInWindow`. The invariant `IInv` adds

* `PcOfState`: in which mode each handler runs, and that settings mode has the
  connectable advertising marked;
* `FlagsOfState`: in broadcasting mode the settings flag is down and the AirTag flag
  implies that AirTag is configured;
* `AddressReady`: while AirTag is configured in broadcasting mode, the address in force is
  that of the payload's key, before anything is started. This is why setting the
  address with Bluetooth up is harmless, and why `AirTagAddressMatchesPayload` holds when
  alternation brings the AirTag back;
* `BadBelow`: the count reaches the threshold only in a shutdown.

Lemmas about the radio calls (`RadioCalls`, `RadioFields`, `Readdressed`,
`Restarted`, `BroadcastFacts`) are stated once; `TypeStep`, `ModeStep` and
`AddressStep` go through the actions.

`BeaconPromises_proofs` has the rest of `BeaconState`, from the same assumptions. Each part starts
with a lemma that says which actions write the variables in question and goes through those only:

* `OnlyWhenTurnedOn`: the switch is inductive by itself, with the place between its saving and the
  power off excepted.
* `BadPowerIsJustified`, `ChargerHoldsOffShutdown`: the count is zero at the start
  (`CountAtBoot`), and what is left of the lock and the time since the charger was seen make up the
  lock's duration together (`LockCovers`), since a tick takes `mult_period` off the lock and
  lasts as long.
* `BurstsEnd`: in windows and uploads the power is the lowest (`WindowPower`), also on a way back
  that ends in a reset (`ClosedAtReset`).
* `BeliefIsRight`: for a broadcasting tick it is `TickFlags`, with the protocols among those that
  are configured; for a window it is `WindowFlags`, where the air is empty for a client, for the restart after
  one or for a failed start.
* `RotationKeepsPlace`: the payload's key is at the place of `current_key_` in every mode
  (`KeyOfConfig`), so that it is there when the AirTag comes back. A write of keys suspends
  this; a rotation restores it from any `current_key_`, since `NextKey` is within the ring.
* `MainLoopImplementsModes`: each handler is a step of the modes or none.

`Settings_proofs`, for every set of jobs with rings of any length and any integers, every `MaxKeys`
and any number of faults: `TypeCorrect`, `SettingsInRange`, `ResetKeepsSettings`, `RingKept`. The argument
for the fields is two facts about the
setters: what one makes of a value is in range (`AppliedValid`), and applying it again to
such a value changes nothing, whatever the old value (`AppliedAgain`). `Bounds`,
`Narrow` and `Defaults` are the facts about the numbers; elsewhere the numbers are hidden.
`RingKept` needs what a session has done of its script (`UploadInv`): no key is left to
come, or the code is still to come, or the client is uploading, when the first `keysReceived` halves
of the ring are in the array and the others are the next writes, in their order. So at the end of a
session that wrote all of them the array holds the ring and, where there is room, the zero key behind it
(`WrittenHolds`), whatever was there before; and `load()` counts just that ring (`RingLoaded`,
`CountUnique`). A refused key ends the script, but only before the first half, because nothing
takes a permission back between two keys.

`Clock_proofs`, for every length of interval, tick, window and loop: `TypeCorrect`,
`ClockNeverAhead`, `ResetLossBounded`. The invariant relates the saved
time to the timer of the last save (`SavedSince`), says how old that timer may be at each place of the
loop, a sleep older before the look than after it (`TimerLooked`), and how old the save may
be on the way through an upload or a reboot, where the timer is not looked at (`SavedOnTheWay`).

`Devices_proofs`, for every set of boards, every `mult_period` up to eight, every work
between two pauses, every reading of the monitor's five bits and any number of failures:
`TypeCorrect`, `WatchdogFed`, `DefaultsStayNoticed`, `BusParked`,
`OffIsShipMode`, and the action property `ChargingNeverShipped`. `WatchdogFed` rests on
`BudgetAssumption`, three inequalities between the sums of the pauses and the window: they
say how much work the firmware leaves room for (under 100 ms a pause). The
invariant gives each place of the main thread the time that may have passed there (`Budgets`, and
`RebootBudget` by the round of the loop). For the others it says where the bus is active
(`BusInv`), that a chip without supply is not charging (`SupplyInv`), how the thread got to
the power off (`OffInv`), and that in the pause before the write of ship mode the chip is not charging
or `unsure` is set (`AskedInv`).

`Telemetry_proofs`: `AddressIsStatic`, `KeyRecovered`, `CycledByteUnderstood`, about every key
and every input.

`Movement_proofs`, for every length of arrays and intervals: `TypeCorrect`,
`RecentMovementInSummary`, `NoInvention`, `LastingIsKept`, `CycleUnderstood`. They assume of the constants
what is true of the firmware's: the bits of the summary follow each other (`EdgesAssumption`), the long
array moves on no later than a half of the short one fills (`SlotAssumption`, 300 s against 15 readings
of 20 s), and a voltage below 6.4 V (`VoltagesAssumption`; the status byte has six bits for tenths of
a volt). The invariant says

* that each movement younger than the short array
  is in one of its places, its age at least the place times the interval (`AgesInv`), and that the
  first two slots are what the halves say (`HalvesInv`); this much holds whatever readings fail;
* and as long as no due reading is left out, that the timers are the times they stand for (`ClockInv`),
  that each place of the short array and each slot that is set has a movement of its age
  (`ShownWasSeen`), and that each lasting movement is in two neighbouring places of the short array, in a slot
  of its age, or older than the long array (`SeenIsShown`). The hand-over is where it could
  be lost: the long array moves on at some reading, and the older half is copied before; two
  neighbouring places cannot both be missed.

`CycleUnderstood` adds which kinds a receiver has heard after each of the last updates
(`ToldInv`), and cites `CycledByteUnderstood` for a single byte.

Only model-checked: the liveness properties `WindowRecurs`, `WindowCloses`, `Broadcasts`,
`BothProtocolsGetAirtime`, `ResetRequestServed`, `AdvertisingComesBack` and `ResetComes`, since there
are no proof rules here for fairness and ENABLED. The violated properties are counterexamples of TLC.

## 5. Not modelled

The constant parts of the advertisements, the voltage in the iBeacon, the pattern of the LED, printing,
ADC arithmetic, the values written to the registers of charger and accelerometer, the arithmetic of samples,
board files, build and tests. In `Devices` at most one transfer of an operation fails. In
`BeaconState` and `GattGlue` every flash write works, and the client is not the Python script
but anything that can connect; `Settings` has failing writes and the script, but neither its `-u`
nor its `-r`, nor a single read of flash that fails. Writes of a wrong length are left out in `Settings`.

## 6. Plan

In order of importance; the first eight are done.

1. `BeaconModes`, `BeaconState`: the main loop; runs `radio`, `power`, `live`.
2. `GattGlue`: threads of the window; run `gatt`.
3. Violated runs for what comments and documents promise.
4. Proofs of types, address, mode and session invariants.
5. `Settings`: fields and keys in RAM and flash, load, validation, failing writes; `Clock`.
6. `Telemetry`, `Movement`: status byte, keys, movement history; runs `movement`, `accel`.
7. `Charger`, `Devices`: the charger's driver, the watchdog; runs `devices`, `starts`.
8. Theorems: the other safety properties of `BeaconState`, and that it and `GattGlue` implement
   `BeaconModes`; `UploadedRingKept`; the movement history and the receiver; types.
9. Next: what the two arrays keep of a movement after a failed reading; a stored code, when a
   handler stores one; the threads of the window composed with the client's script.
