------------------------------ MODULE Clock_proofs ------------------------------
(****************************************************************************)
(* The clock never runs ahead, and loses a bounded time at a reset, whatever *)
(* the intervals, the length of the window and the time that passes.         *)
(****************************************************************************)
EXTENDS Clock, TLAPS

(* What is saved was the time at the last turn of the timer, or later. *)
SavedSince == ~synced => offset + timeSave <= saved

(* How late the timer is looked at: in time by a look, later by a window and *)
(* the sleep behind it.                                                      *)
TimerLooked ==
  /\ mode \in {"off", "on"} => uptime - timeSave < IntervalTimeSave + LongestWindow /\ spent = 0
  /\ mode = "awake" =>
       uptime - timeSave < IntervalTimeSave + LongestWindow + LongestTick /\ spent = 0
  /\ mode = "window" => uptime - timeSave < IntervalTimeSave + spent /\ spent <= LongestWindow

(* The timer is looked at no more on the way to a reset, but the time is     *)
(* saved there, too late by what the window left and a sleep.                *)
SavedOnTheWay ==
  /\ mode = "upload" /\ ~synced => Time - saved < IntervalTimeSave + LongestWindow
  /\ mode \in {"waited", "reboot"} /\ ~synced =>
       Time - saved < IntervalTimeSave + LongestWindow + LongestTick
  /\ mode = "doomed" => saved = Time

IInv == Seconds /\ NeverAhead /\ SavedSince /\ TimerLooked /\ SavedOnTheWay

USE ClockAssumption

LEMMA InitInv == Init => IInv
  BY DEF Init, IInv, Seconds, Modes, NeverAhead, SavedSince, TimerLooked, SavedOnTheWay, Time

(* A restart, at a moment that is not in the past. *)
LEMMA RestartInv ==
  ASSUME IInv, Restart, now' \in Nat, now <= now', mode' \in {"on", "off"}
  PROVE  IInv'
<1>1. /\ uptime' = 0 /\ timeSave' = 0 /\ spent' = 0 /\ offset' = saved /\ saved' = saved
      /\ synced' = FALSE
  BY DEF Restart
<1>2. saved \in Int /\ now \in Nat /\ saved <= now
  BY DEF IInv, Seconds, NeverAhead, Time
<1>3. Seconds'
  BY <1>1, <1>2 DEF Seconds, Modes
<1>4. NeverAhead' /\ SavedSince' /\ TimerLooked' /\ SavedOnTheWay'
  BY <1>1, <1>2 DEF NeverAhead, SavedSince, TimerLooked, SavedOnTheWay, Time
<1> QED BY <1>3, <1>4 DEF IInv

LEMMA StepInv == IInv /\ [Next]_vars => IInv'
<1> SUFFICES ASSUME IInv, [Next]_vars PROVE IInv'
  OBVIOUS
<1> USE DEF IInv, Seconds, Modes, NeverAhead, SavedSince, TimerLooked, SavedOnTheWay, Time,
            Passes, StoreTime
<1>1. ASSUME NEW d \in 1..LongestTick, PowerOn(d) PROVE IInv'
  BY <1>1, RestartInv DEF PowerOn
<1>2. ASSUME NEW d \in 1..LongestTick, Sleep(d) PROVE IInv'
  BY <1>2 DEF Sleep
<1>3. CASE Look
  <2>1. CASE SavedIfDue
    BY <1>3, <2>1 DEF Look, SavedIfDue, SaveDue
  <2>2. CASE ~SaveDue /\ UNCHANGED <<timeSave, saved, synced>>
    BY <1>3, <2>2 DEF Look, SaveDue
  <2> QED BY <1>3, <2>1, <2>2 DEF Look
<1>4. CASE Crash
  BY <1>4, RestartInv DEF Crash
<1>5. CASE WindowTick
  BY <1>5 DEF WindowTick
<1>6. CASE CloseWindow
  BY <1>6 DEF CloseWindow
<1>7. CASE WriteTime
  BY <1>7 DEF WriteTime, OffsetFor
<1>8. CASE UploadWait
  BY <1>8 DEF UploadWait
<1>9. CASE UploadSave
  BY <1>9 DEF UploadSave
<1>10. CASE UploadOver
  BY <1>10 DEF UploadOver
<1>11. CASE RebootSave
  BY <1>11 DEF RebootSave
<1>12. CASE RebootWait
  BY <1>12 DEF RebootWait
<1>13. CASE SysReboot
  BY <1>13, RestartInv DEF SysReboot
<1>14. CASE UNCHANGED vars
  BY <1>14 DEF vars
<1> QED
  BY <1>1, <1>2, <1>3, <1>4, <1>5, <1>6, <1>7, <1>8, <1>9, <1>10, <1>11, <1>12, <1>13, <1>14
     DEF Next

LEMMA Inductive == Spec => []IInv
  BY InitInv, StepInv, PTL DEF Spec

LEMMA SyncedStep == synced \in BOOLEAN /\ [Next]_vars => (synced \in BOOLEAN)'
<1> SUFFICES ASSUME synced \in BOOLEAN, [Next]_vars PROVE synced' \in BOOLEAN
  OBVIOUS
<1>1. synced' = synced \/ synced' = FALSE \/ synced' = TRUE
  BY Zenon DEF Next, vars, PowerOn, Sleep, Look, SavedIfDue, StoreTime, Crash, WindowTick,
     CloseWindow, WriteTime, UploadWait, UploadSave, UploadOver, RebootSave, RebootWait,
     SysReboot, Restart
<1> QED BY <1>1, Zenon

(* The variables keep their types. *)
THEOREM TypeCorrect == Spec => []TypeOK
<1>1. Init => synced \in BOOLEAN
  BY Zenon DEF Init
<1>2. Spec => [](synced \in BOOLEAN)
  BY <1>1, SyncedStep, PTL DEF Spec
<1>3. IInv /\ synced \in BOOLEAN => TypeOK
  BY DEF IInv, TypeOK
<1> QED BY <1>2, <1>3, Inductive, PTL

(* The clock is never ahead of the time: get_time(), save_time(),            *)
(* update_time_offset() and load() fit together over any number of resets.   *)
THEOREM ClockNeverAhead == Spec => []NeverAhead
<1>1. IInv => NeverAhead BY DEF IInv
<1> QED BY <1>1, Inductive, PTL

(* A reset at any moment, in a sleep too, loses less than an interval, a     *)
(* window and a sleep, if no client has set the clock since the last save.   *)
THEOREM ResetLossBounded == Spec => []LossBounded
<1>1. IInv => LossBounded
  BY DEF IInv, Seconds, Modes, SavedSince, TimerLooked, SavedOnTheWay, LossBounded, Time
<1> QED BY <1>1, Inductive, PTL
================================================================================
