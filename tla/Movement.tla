-------------------------------- MODULE Movement --------------------------------
(****************************************************************************)
(* The way of a movement from the accelerometer to the air: accel_read() of  *)
(* lis2dw12.c and its history arrays, called by handle_accelerometer();      *)
(* MovementTracker (accel_data.cpp), the same statistics on arrays of its    *)
(* own; and update_status(), which broadcasts what MovementTracker says.     *)
(*                                                                           *)
(* A batch of samples is the number of disturbances in it.  Time is uptime   *)
(* in seconds, kept as the seconds since an event where the code keeps the   *)
(* uptime of it.                                                             *)
(****************************************************************************)
EXTENDS Telemetry, Sequences, FiniteSetsExt

CONSTANTS
  ReadingInterval,   \* kIntervalAccelerometer
  Half,              \* half the length of moves20
  SlotSeconds,       \* moves300 moves on when more than this has passed
  Slots,             \* the length of moves300
  Edges,             \* the first slots of the bits of the summary, and Slots
  MaxLook,           \* the most seconds between two calls of handle_accelerometer
  Flags,             \* what status_flags may be
  Voltages, Changes, \* what last_battery_voltage_ and keys_changes_ may be
  MaxMoves           \* bound on the movements the history holds at a time

ASSUME TimingAssumption == {ReadingInterval, Half, SlotSeconds, MaxLook} \subseteq Nat \ {0}
ASSUME EdgesAssumption ==
  /\ Slots \in Nat /\ Slots > 2
  /\ Edges \in Seq(Nat) /\ Len(Edges) > 1
  /\ Edges[1] = 0 /\ Edges[2] >= 2 /\ Edges[Len(Edges)] = Slots
  /\ \A a, b \in 1..Len(Edges) : a < b => Edges[a] < Edges[b]
\* 300 seconds, and 15 readings 20 seconds apart.
ASSUME SlotAssumption == SlotSeconds <= Half * ReadingInterval
\* Millivolts: the cell is charged to 4.2 V, and no supply of a board reaches 6.4 V.
ASSUME VoltagesAssumption == Voltages \subseteq 0..6399

VARIABLES
  on,          \* accel_threshold is not zero
  moves,       \* moves20 and moves300
  sinceRead,   \* seconds since timers_.accel_read
  sinceShift,  \* seconds since lastMovesShift
  flags,       \* cfg.status_flags
  what,        \* what_in_status_
  seen,        \* history: the ages of the readings that saw movement, and
               \* whether the reading before saw it too
  stale,       \* history: a reading that was due was not taken
  receiver,    \* history: what a receiver of each protocol knows
  sent         \* history: what the beacon had to tell it

vars == <<on, moves, sinceRead, sinceShift, flags, what, seen, stale, receiver, sent>>
sensor == <<on, moves, sinceRead, sinceShift, seen, stale>>
status == <<flags, what, receiver, sent>>

Atmost(a, b) == IF a < b THEN a ELSE b

--------------------------------------------------------------------------------
(* The history arrays. *)

NoMovement == [recent |-> [i \in 0..(2 * Half - 1) |-> FALSE],
               slots |-> [k \in 0..(Slots - 1) |-> FALSE]]

Pushed(f, new) == [i \in DOMAIN f |-> IF i = 0 THEN new ELSE f[i - 1]]

LateHalf == (Half + 1)..(2 * Half - 1)  \* mutant: the second half starts one reading late
NewerHalf == 0..(Half - 1)
OlderHalf == Half..(2 * Half - 1)

(* One reading: both arrays move on, the long one only when its time has     *)
(* come, and its first two slots are computed from the halves of the short.  *)
Recorded(h, moving, shift) ==
  LET recent == Pushed(h.recent, moving)
      slots == IF shift THEN Pushed(h.slots, FALSE) ELSE h.slots
  IN [recent |-> recent,
      slots |-> [slots EXCEPT ![0] = \E i \in NewerHalf : recent[i],
                              ![1] = \E i \in OlderHalf : recent[i]]]

(* has_movement() and accel_movement() for the ranges of the summary, and    *)
(* compute_accel_byte().                                                     *)
SummaryBits(h) ==
  {b \in 1..(Len(Edges) - 1) : \E k \in Edges[b]..(Edges[b + 1] - 1) : h.slots[k]}
Summary(h) == MapThenSumSet(LAMBDA b : 2 ^ (b - 1), SummaryBits(h))

(* The MovementTracker of main(): nothing calls its record_reading() or its  *)
(* set_temperature().                                                        *)
Tracker == [history |-> NoMovement, temperature |-> 0]

--------------------------------------------------------------------------------
(* What a receiver knows, the last value of each kind, and what it was told. *)

Protocols == {"airtag", "fmdn"}
NotHeard == -1
NothingHeard == [p \in Protocols |-> [k \in 0..2 |-> NotHeard]]
NothingSent == [values |-> NothingHeard, moved |-> FALSE, updates |-> 0]

Init ==
  /\ on \in BOOLEAN
  /\ moves = NoMovement /\ sinceRead = 0 /\ sinceShift = 0
  /\ flags \in Flags /\ what = 2
  /\ seen = {} /\ stale = FALSE
  /\ receiver = NothingHeard /\ sent = NothingSent

--------------------------------------------------------------------------------
(* handle_accelerometer(), called d seconds after the last time. *)

Gap == ReadingInterval + MaxLook - 1  \* the longest time from reading to reading
Oldest(k) == IF k = 0 THEN Half * Gap ELSE 2 * Half * Gap + (k - 1) * (SlotSeconds + Gap)

\* The ages the properties look at.
Horizon == IF stale THEN 2 * Half * ReadingInterval ELSE Oldest(Slots - 1)
Aged(d) == {[m EXCEPT !.age = @ + d] : m \in {n \in seen : n.age + d <= Horizon}}
DueAfter(d) == sinceRead + d >= ReadingInterval

ShiftOnTheSecond(d) == sinceShift + d >= SlotSeconds  \* mutant
ShiftAfter(d) == sinceShift + d > SlotSeconds

NotDue(d) ==
  /\ ~on \/ ~DueAfter(d)
  /\ sinceRead' = Atmost(sinceRead + d, ReadingInterval)
  /\ sinceShift' = Atmost(sinceShift + d, SlotSeconds + 1)
  /\ seen' = Aged(d)
  /\ stale' = (stale \/ DueAfter(d))
  /\ UNCHANGED <<on, moves, status>>

(* A batch with more than one disturbance is a movement. *)
Read(d, disturbances) ==
  /\ on /\ DueAfter(d)
  /\ LET moving == disturbances > 1 IN
     /\ moving => Cardinality(seen) < MaxMoves
     /\ moves' = Recorded(moves, moving, ShiftAfter(d))
     /\ seen' = Aged(d) \cup
                (IF moving THEN {[age |-> 0, again |-> moves.recent[0]]} ELSE {})
  /\ sinceRead' = 0
  /\ sinceShift' = IF ShiftAfter(d) THEN 0 ELSE sinceShift + d
  /\ UNCHANGED <<on, stale, status>>

(* The bus or the chip fails: the timer starts again all the same. *)
ReadFailed(d) ==
  /\ on /\ DueAfter(d)
  /\ sinceRead' = 0
  /\ sinceShift' = Atmost(sinceShift + d, SlotSeconds + 1)
  /\ seen' = Aged(d)
  /\ stale' = TRUE
  /\ UNCHANGED <<on, moves, status>>

(* A client sets accel_threshold. *)
SetThreshold ==
  /\ on' = ~on
  /\ UNCHANGED <<moves, sinceRead, sinceShift, seen, stale, status>>

--------------------------------------------------------------------------------
(* update_status(). *)

TemperatureSkipped == (what + 1) % 2  \* mutant
NoWrap == what + 1  \* mutant
NextWhat == (what + 1) % 3

(* The modes in which a protocol goes through the three values. *)
Cycles(p) ==
  LET mode == Unpacked(flags).mode[p] IN mode = Cycling \/ (p = "fmdn" /\ mode = Voltage)

ValueOf(in) ==
  CASE in.what = 0 -> in.voltage \div 100
    [] in.what = 1 -> in.movement
    [] OTHER -> Degrees(in.temperature)

Told(known, p, k, value) == IF Cycles(p) THEN [known EXCEPT ![k] = value] ELSE known

UpdateStatus ==
  \E v \in Voltages, n \in Changes :
    LET in == [voltage |-> v, changes |-> n, what |-> NextWhat,
               movement |-> Summary(Tracker.history), temperature |-> Tracker.temperature]
        byte(p) == StatusByte(p, Unpacked(flags).mode[p], Unpacked(flags).base[p], in)
    IN /\ what' = NextWhat
       /\ receiver' = [p \in Protocols |->
            Told(receiver[p], p, Decoded(byte(p)).what, Decoded(byte(p)).value)]
       /\ sent' = [values |-> [p \in Protocols |-> Told(sent.values[p], p, in.what, ValueOf(in))],
                   moved |-> IF in.what = 1 THEN SummaryBits(moves) # {} ELSE sent.moved,
                   updates |-> Atmost(sent.updates + 1, 3)]
       /\ UNCHANGED <<sensor, flags>>

(* A client writes status_flags; a receiver starts afresh. *)
SetStatus ==
  /\ flags' \in Flags \ {flags}
  /\ receiver' = NothingHeard
  /\ sent' = NothingSent
  /\ UNCHANGED <<sensor, what>>

Accelerometer ==
  \E d \in 1..MaxLook :
    NotDue(d) \/ ReadFailed(d) \/ \E n \in 0..2 : Read(d, n)

Next == Accelerometer \/ SetThreshold \/ UpdateStatus \/ SetStatus

Spec == Init /\ [][Next]_vars

--------------------------------------------------------------------------------
(* The youngest movement slot k can stand for; Oldest has the oldest.        *)
Youngest(k) ==
  CASE k = 0 -> 0
    [] k = 1 -> Half * ReadingInterval
    [] OTHER -> (Half + 1) * ReadingInterval + (k - 2) * (SlotSeconds + 1)

BitCovers(b, youngest, oldest) ==
  Youngest(Edges[b]) <= oldest /\ youngest <= Oldest(Edges[b + 1] - 1)

(* Every variable holds a value of its type; the arrays keep their length,   *)
(* and what is received fits a byte.                                         *)
TypeOK ==
  /\ on \in BOOLEAN /\ stale \in BOOLEAN
  /\ moves \in [recent : [0..(2 * Half - 1) -> BOOLEAN], slots : [0..(Slots - 1) -> BOOLEAN]]
  /\ sinceRead \in 0..ReadingInterval /\ sinceShift \in 0..(SlotSeconds + 1)
  /\ flags \in Flags /\ what \in 0..2
  /\ seen \subseteq [age : Nat, again : BOOLEAN]
  /\ receiver \in [Protocols -> [0..2 -> {NotHeard} \cup Byte]]
  /\ sent.values \in [Protocols -> [0..2 -> {NotHeard} \cup Byte]]

(* A bit of the summary stands for a movement of about its age: with all     *)
(* readings taken there was one no older and no younger than the slots of    *)
(* the bit can hold, however the two arrays moved on.                        *)
NothingInvented ==
  ~stale => \A b \in SummaryBits(moves) : \E m \in seen : BitCovers(b, m.age, m.age)

(* A movement within the last 2 * Half reading intervals is in the summary   *)
(* (in its first bit, or what the first two slots belong to), whatever       *)
(* readings failed.                                                          *)
RecentMovementShown ==
  \A m \in seen : m.age < 2 * Half * ReadingInterval =>
    \E b \in SummaryBits(moves) : Edges[b] < 2

(* A movement that lasts over two readings is kept, in a bit of about its    *)
(* age, until it is as old as the array; one that falls into a single        *)
(* reading can be lost when the long array moves on.                         *)
LastingMovementKept ==
  ~stale => \A m \in seen : m.again /\ m.age + Gap < Youngest(Slots) =>
    \E b \in SummaryBits(moves) : BitCovers(b, m.age, m.age + Gap)

(* In the cycling modes a receiver takes every status byte for the kind of   *)
(* value it is, and after three updates it has one of each kind.             *)
ReceiverUnderstands ==
  \A p \in Protocols : Cycles(p) =>
    /\ receiver[p] = sent.values[p]
    /\ sent.updates = 3 => \A k \in 0..2 : receiver[p][k] # NotHeard

(* What README.md says: movement is encoded in the status byte; so when the  *)
(* accelerometer's history had some, the movement received is not zero.      *)
MovementReported ==
  \A p \in Protocols : sent.moved /\ receiver[p][1] # NotHeard => receiver[p][1] > 0

================================================================================
