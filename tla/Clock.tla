--------------------------------- MODULE Clock ---------------------------------
(****************************************************************************)
(* The clock of the beacon: time_offset in RAM, the uptime counter, and the  *)
(* time saved in flash (beacon_config.cpp, get_time to save_time), with      *)
(* everything that saves it (beacon_state.cpp, zephyr_hardware.cpp) and      *)
(* everything that loses the uptime.  A sleep of the main thread and what it *)
(* does after the sleep are steps of their own, so that a reset may come     *)
(* between.  Time passes in seconds; no write to flash fails here (one that  *)
(* does is in Settings).                                                     *)
(****************************************************************************)
EXTENDS Integers

CONSTANTS
  IntervalTimeSave,  \* kIntervalTimeSave
  LongestTick,       \* longest time to the next look at the timer outside a window
  LongestWindow,     \* longest window: kSettingsWait and the waits of its end
  RebootRounds,      \* reboot() saves the time that often
  UploadRounds,      \* the firmware upload waits that often
  UploadSleep,       \* for that long, no longer than a tick may sleep
  Epoch, LastSecond  \* the first power-on, and the bound on time

ASSUME ClockAssumption ==
  /\ IntervalTimeSave \in Nat \ {0} /\ LongestTick \in Nat \ {0} /\ LongestWindow \in Nat
  /\ RebootRounds \in Nat /\ UploadRounds \in Nat /\ UploadSleep \in 0..LongestTick
  /\ Epoch \in Nat /\ LastSecond \in Nat

VARIABLES
  now,       \* real time
  mode,      \* where the main thread is (Modes)
  uptime,    \* k_uptime_seconds()
  offset,    \* time_offset in RAM
  saved,     \* ID_timeOffset in flash
  timeSave,  \* timers_.time_save
  spent,     \* seconds of the window, rounds of the upload or the reboot
  synced     \* history: a client has set the clock since it was last saved

vars == <<now, mode, uptime, offset, saved, timeSave, spent, synced>>

(* SettingsManager::get_time() *)
Time == offset + uptime

(* load() after a reset: the saved time is the new offset. *)
RestartKeepingTimer ==  \* mutant: the timer of the last save outlives the uptime
  /\ uptime' = 0 /\ offset' = saved /\ spent' = 0 /\ synced' = FALSE
  /\ UNCHANGED <<saved, timeSave>>
Restart ==
  /\ uptime' = 0 /\ offset' = saved /\ timeSave' = 0 /\ spent' = 0 /\ synced' = FALSE
  /\ UNCHANGED saved

Init ==
  /\ now = Epoch /\ mode = "off" /\ saved = 0
  /\ uptime = 0 /\ offset = 0 /\ timeSave = 0 /\ spent = 0 /\ synced = FALSE

Passes(d) == now + d <= LastSecond /\ now' = now + d

(* SettingsManager::save_time() *)
StoreTime == saved' = Time /\ synced' = FALSE

PowerOn(d) ==
  /\ mode = "off" /\ mode' = "on"
  /\ Passes(d)
  /\ Restart

(* A watchdog reset, the one reboot() waits for included, or a loss of power,*)
(* at any moment of the loop, in a sleep too.                                *)
Crash ==
  /\ mode # "off" /\ mode' \in {"on", "off"}
  /\ Restart
  /\ UNCHANGED now

(* The sleep at the head of a tick, outside the window.                      *)
Sleep(d) ==
  /\ mode = "on" /\ mode' = "awake"
  /\ Passes(d) /\ uptime' = uptime + d
  /\ UNCHANGED <<offset, saved, timeSave, spent, synced>>

(* The tick after its sleep: it saves the time if that is due, and goes on   *)
(* broadcasting, opens the window, or (button, under-voltage, no keys)       *)
(* switches the power off.                                                   *)
SaveDue == uptime >= timeSave + IntervalTimeSave
SavedLate ==  \* mutant: the timer is set, the time is not saved
  SaveDue /\ timeSave' = uptime /\ UNCHANGED <<saved, synced>>
SavedIfDue ==
  SaveDue /\ timeSave' = uptime /\ StoreTime

Look ==
  /\ mode = "awake" /\ mode' \in {"on", "window", "off"}
  /\ \/ SavedIfDue
     \/ ~SaveDue /\ UNCHANGED <<timeSave, saved, synced>>
  /\ UNCHANGED <<now, uptime, offset, spent>>

(* A tick in the window: the timers of the broadcasting mode are not looked  *)
(* at.                                                                       *)
WindowTick ==
  /\ mode = "window" /\ spent < LongestWindow
  /\ Passes(1) /\ uptime' = uptime + 1 /\ spent' = spent + 1
  /\ UNCHANGED <<mode, offset, saved, timeSave, synced>>

CloseWindow ==
  /\ mode = "window" /\ mode' \in {"on", "upload", "reboot"}
  /\ spent' = 0
  /\ UNCHANGED <<now, uptime, offset, saved, timeSave, synced>>

(* A round of the upload: a sleep, and then the save.                        *)
UploadWait ==
  /\ mode = "upload" /\ spent < UploadRounds /\ mode' = "waited"
  /\ Passes(UploadSleep) /\ uptime' = uptime + UploadSleep /\ spent' = spent + 1
  /\ UNCHANGED <<offset, saved, timeSave, synced>>

UploadSave ==
  /\ mode = "waited" /\ mode' = "upload"
  /\ StoreTime
  /\ UNCHANGED <<now, uptime, offset, timeSave, spent>>

UploadOver ==
  /\ mode = "upload" /\ spent = UploadRounds
  /\ mode' = "reboot" /\ spent' = 0
  /\ UNCHANGED <<now, uptime, offset, saved, timeSave, synced>>

(* A round of reboot(): the time is saved, then a second waited for the      *)
(* watchdog to bite.                                                         *)
RebootSave ==
  /\ mode = "reboot" /\ spent < RebootRounds /\ mode' = "doomed"
  /\ StoreTime
  /\ UNCHANGED <<now, uptime, offset, timeSave, spent>>

RebootWait ==
  /\ mode = "doomed" /\ mode' = "reboot"
  /\ Passes(1) /\ uptime' = uptime + 1 /\ spent' = spent + 1
  /\ UNCHANGED <<offset, saved, timeSave, synced>>

(* sys_reboot(), a second after the last round.                              *)
SysReboot ==
  /\ mode = "reboot" /\ spent = RebootRounds /\ mode' = "on"
  /\ Passes(1)
  /\ Restart

(* beacon_glue_handle_time_offset_write() with the time of the client's      *)
(* host: update_time_offset(), and the offset is saved as it is.             *)
OffsetByTime(t) == t  \* mutant: the uptime is not taken off
OffsetFor(t) == t - uptime

WriteTime ==
  /\ mode \in {"window", "upload", "waited"}
  /\ offset' = OffsetFor(now) /\ saved' = offset'
  /\ synced' = TRUE
  /\ UNCHANGED <<now, mode, uptime, timeSave, spent>>

Next ==
  \/ \E d \in 1..LongestTick : PowerOn(d) \/ Sleep(d)
  \/ Look \/ Crash \/ WindowTick \/ CloseWindow \/ WriteTime
  \/ UploadWait \/ UploadSave \/ UploadOver \/ RebootSave \/ RebootWait \/ SysReboot

Spec == Init /\ [][Next]_vars

--------------------------------------------------------------------------------
(* What the clock promises, if the uptime counter is exact. *)

Modes == {"off", "on", "awake", "window", "upload", "waited", "reboot", "doomed"}

Seconds ==
  /\ mode \in Modes
  /\ now \in Nat /\ uptime \in Nat /\ timeSave \in 0..uptime /\ spent \in Nat
  /\ offset \in Int /\ saved \in Int

(* Every variable holds a value of its type; the timer is not in the future. *)
TypeOK == Seconds /\ synced \in BOOLEAN

(* The clock never runs ahead of the time it was set to, over all saves and  *)
(* restarts: what is saved as an offset at one moment and as a time at       *)
(* another never has the same uptime counted twice.                          *)
NeverAhead == Time <= now /\ saved <= Time

(* A reset at any moment costs the clock no more than the hour between two   *)
(* saves, the window that put the save off, and the sleep of the tick (or of *)
(* the upload) that would have made good for it, unless a client has set the *)
(* clock since.                                                              *)
LossBounded ==
  ~synced => Time - saved < IntervalTimeSave + LongestWindow + LongestTick

================================================================================
