----------------------------- MODULE Movement_proofs -----------------------------
(* What the history arrays promise of a movement, recent or lasting, that    *)
(* they invent none, and what a receiver makes of the status byte, for every *)
(* length of the arrays and of the intervals.                                *)
EXTENDS Movement, Telemetry_proofs, WellFoundedInduction, TLAPS

Last == 2 * Half - 1
Reach == 2 * Half * ReadingInterval

ArraysType ==
  /\ moves \in [recent : [0..Last -> BOOLEAN], slots : [0..(Slots - 1) -> BOOLEAN]]
  /\ sinceRead \in 0..ReadingInterval
  /\ seen \subseteq [age : Nat, again : BOOLEAN]

(* The first two slots are computed anew from the short array.               *)
HalvesInv ==
  /\ (\E i \in NewerHalf : moves.recent[i]) <=> moves.slots[0]
  /\ (\E i \in OlderHalf : moves.recent[i]) <=> moves.slots[1]

(* A movement that is not too old is in the short array, no further down     *)
(* than its age, however late the readings were.                             *)
KeptFor(age) ==
  age < Reach =>
    \E i \in 0..Last : moves.recent[i] /\ i * ReadingInterval + sinceRead <= age
AgesInv == \A m \in seen : KeptFor(m.age)

MInv == ArraysType /\ HalvesInv /\ AgesInv

(* As long as every reading that was due was taken, ...                      *)

(* ... the timers are the times they stand for: a reading is less than its   *)
(* interval ago, and the long array moved on at a reading.                   *)
ClockInv ==
  /\ sinceRead < ReadingInterval
  /\ sinceShift \in 0..(SlotSeconds + 1)
  /\ Atmost(sinceRead, SlotSeconds + 1) <= sinceShift

(* The oldest a movement was when the long array moved it into slot k, and   *)
(* how old it is now; the same for an age of at least young.                 *)
Upper(k) == 2 * Half * Gap + (k - 2) * (SlotSeconds + Gap)
InSlot(k, young, old) ==
  /\ Youngest(k) + sinceShift <= old
  /\ young <= Upper(k) + SlotSeconds + sinceRead
  /\ sinceShift <= SlotSeconds => young <= Upper(k) + sinceShift
AtReading(i, age) ==
  i * ReadingInterval + sinceRead <= age /\ age <= i * Gap + sinceRead

(* ... what the arrays show was seen, as long ago as they say, ...           *)
ShownWasSeen ==
  /\ \A i \in 0..Last : moves.recent[i] => \E m \in seen : AtReading(i, m.age)
  /\ \A k \in 2..(Slots - 1) : moves.slots[k] => \E m \in seen : InSlot(k, m.age, m.age)

(* ... and a movement that both readings saw is in the short array twice,    *)
(* with no shift since it came to its second half, or a shift took it, or    *)
(* the reading before it, over into the long array.                          *)
Twice(m) ==
  \E i \in 0..Last :
    /\ moves.recent[i] /\ (i < Last => moves.recent[i + 1])
    /\ AtReading(i, m.age)
    /\ i >= Half =>
         Atmost((i - Half + 1) * ReadingInterval + sinceRead, SlotSeconds + 1) <= sinceShift
Shifted(m) ==
  \E k \in 2..(Slots - 1) : moves.slots[k] /\ InSlot(k, m.age, m.age + Gap)
SeenIsShown ==
  \A m \in seen : m.again =>
    Twice(m) \/ Shifted(m) \/ Youngest(Slots) <= m.age + Gap

SInv == MInv /\ (~stale => ClockInv /\ ShownWasSeen /\ SeenIsShown)

--------------------------------------------------------------------------------
LEMMA Lengths ==
  /\ Half \in Nat \ {0} /\ ReadingInterval \in Nat \ {0} /\ Last \in Nat /\ MaxLook \in Nat
  /\ Slots - 1 \in Nat /\ 0 \in 0..(Slots - 1) /\ 1 \in 0..(Slots - 1)
  BY TimingAssumption, EdgesAssumption DEF Last

LEMMA PushedIn ==
  ASSUME NEW n \in Nat, NEW f \in [0..n -> BOOLEAN], NEW x \in BOOLEAN
  PROVE  /\ Pushed(f, x) \in [0..n -> BOOLEAN]
         /\ Pushed(f, x)[0] = x
         /\ \A i \in 1..n : Pushed(f, x)[i] = f[i - 1]
  BY DEF Pushed

LEMMA Times ==
  /\ Reach = (Last + 1) * ReadingInterval /\ Reach \in Nat
  /\ \A i \in Nat : /\ i * ReadingInterval \in Nat
                    /\ (i + 1) * ReadingInterval = i * ReadingInterval + ReadingInterval
<1>1. \A h, p \in Nat : 2 * h * p = (2 * h - 1 + 1) * p /\ 2 * h * p \in Nat
  OBVIOUS
<1>2. \A i, p \in Nat : i * p \in Nat /\ (i + 1) * p = i * p + p
  OBVIOUS
<1> QED
  BY <1>1, <1>2, Lengths DEF Reach, Last

LEMMA AgedMembers ==
  ASSUME ArraysType, NEW d \in Nat, NEW m \in Aged(d)
  PROVE  /\ m \in [age : Nat, again : BOOLEAN]
         /\ \E n \in seen : m.age = n.age + d
  BY DEF Aged, ArraysType

(* Without a reading the arrays stay, and the timer starts again or runs on. *)
LEMMA NoReading ==
  ASSUME MInv, NEW d \in Nat, UNCHANGED moves, sinceRead' \in 0..ReadingInterval,
         sinceRead' <= sinceRead + d, seen' = Aged(d)
  PROVE  MInv'
<1>1. ArraysType' /\ HalvesInv'
  BY AgedMembers DEF MInv, ArraysType, HalvesInv
<1>2. ASSUME NEW m \in seen', m.age < Reach
      PROVE  \E i \in 0..Last : moves'.recent[i] /\ i * ReadingInterval + sinceRead' <= m.age
  <2>1. PICK n \in seen : m.age = n.age + d
    BY AgedMembers DEF MInv
  <2>2. n.age \in Nat /\ n.age < Reach
    <3>1. n.age \in Nat
      BY DEF MInv, ArraysType
    <3> QED BY <1>2, <2>1, <3>1, Times
  <2>3. PICK i \in 0..Last : moves.recent[i] /\ i * ReadingInterval + sinceRead <= n.age
    BY <2>2 DEF MInv, AgesInv, KeptFor
  <2>4. i * ReadingInterval \in Nat
    BY Times
  <2>5. i * ReadingInterval + sinceRead' <= m.age
    BY <2>1, <2>2, <2>3, <2>4 DEF MInv, ArraysType
  <2> QED BY <2>3, <2>5
<1>3. AgesInv'
  BY <1>2 DEF AgesInv, KeptFor
<1> QED
  BY <1>1, <1>3 DEF MInv

(* What one reading makes of the arrays.                                     *)
LEMMA ReadArrays ==
  ASSUME ArraysType, NEW moving \in BOOLEAN, NEW shift \in BOOLEAN,
         moves' = Recorded(moves, moving, shift)
  PROVE  /\ moves' \in [recent : [0..Last -> BOOLEAN], slots : [0..(Slots - 1) -> BOOLEAN]]
         /\ moves'.recent[0] = moving
         /\ \A i \in 1..Last : moves'.recent[i] = moves.recent[i - 1]
         /\ moves'.slots[0] = (\E i \in NewerHalf : moves'.recent[i])
         /\ moves'.slots[1] = (\E i \in OlderHalf : moves'.recent[i])
<1> DEFINE recent == Pushed(moves.recent, moving)
           slots == IF shift THEN Pushed(moves.slots, FALSE) ELSE moves.slots
           newer == \E i \in NewerHalf : recent[i]
           older == \E i \in OlderHalf : recent[i]
<1>1. /\ recent \in [0..Last -> BOOLEAN] /\ recent[0] = moving
      /\ \A i \in 1..Last : recent[i] = moves.recent[i - 1]
  BY Lengths, PushedIn DEF ArraysType
<1>2. slots \in [0..(Slots - 1) -> BOOLEAN]
  <2>1. moves.slots \in [0..(Slots - 1) -> BOOLEAN]
    BY DEF ArraysType
  <2>2. Pushed(moves.slots, FALSE) \in [0..(Slots - 1) -> BOOLEAN]
    BY <2>1, Lengths, PushedIn
  <2> QED BY <2>1, <2>2
<1>3. moves' = [recent |-> recent, slots |-> [slots EXCEPT ![0] = newer, ![1] = older]]
  BY DEF Recorded
<1>4. newer \in BOOLEAN /\ older \in BOOLEAN
  OBVIOUS
<1> HIDE DEF recent, slots, newer, older
<1>5. [slots EXCEPT ![0] = newer, ![1] = older] \in [0..(Slots - 1) -> BOOLEAN]
  BY <1>2, <1>4
<1>6. /\ [slots EXCEPT ![0] = newer, ![1] = older][0] = newer
      /\ [slots EXCEPT ![0] = newer, ![1] = older][1] = older
  BY <1>2, Lengths
<1>7. moves'.recent = recent /\ moves'.slots = [slots EXCEPT ![0] = newer, ![1] = older]
  BY <1>3
<1>8. moves' \in [recent : [0..Last -> BOOLEAN], slots : [0..(Slots - 1) -> BOOLEAN]]
  <2> DEFINE x == [slots EXCEPT ![0] = newer, ![1] = older]
  <2>1. x \in [0..(Slots - 1) -> BOOLEAN] /\ moves' = [recent |-> recent, slots |-> x]
    BY <1>3, <1>5
  <2> HIDE DEF x
  <2> QED BY <1>1, <2>1
<1>9. moves'.slots[0] = (\E i \in NewerHalf : moves'.recent[i])
  <2>1. newer = (\E i \in NewerHalf : moves'.recent[i])
    BY <1>7 DEF newer
  <2> QED BY <1>6, <1>7, <2>1
<1>10. moves'.slots[1] = (\E i \in OlderHalf : moves'.recent[i])
  <2>1. older = (\E i \in OlderHalf : moves'.recent[i])
    BY <1>7 DEF older
  <2> QED BY <1>6, <1>7, <2>1
<1> QED
  BY <1>1, <1>7, <1>8, <1>9, <1>10

LEMMA ReadStep ==
  ASSUME MInv, NEW d \in Nat, NEW n \in 0..2, Read(d, n)
  PROVE  MInv'
<1> DEFINE moving == n > 1
           shift == ShiftAfter(d)
<1>1. /\ moves' = Recorded(moves, moving, shift) /\ sinceRead' = 0
      /\ sinceRead + d >= ReadingInterval
      /\ seen' = Aged(d) \cup
                 (IF moving THEN {[age |-> 0, again |-> moves.recent[0]]} ELSE {})
  BY DEF Read, DueAfter
<1>2. moving \in BOOLEAN /\ shift \in BOOLEAN
  BY DEF ShiftAfter
<1>3. /\ moves' \in [recent : [0..Last -> BOOLEAN], slots : [0..(Slots - 1) -> BOOLEAN]]
      /\ moves'.recent[0] = moving
      /\ \A i \in 1..Last : moves'.recent[i] = moves.recent[i - 1]
      /\ HalvesInv'
  <2>1. ArraysType
    BY DEF MInv
  <2> HIDE DEF moving, shift
  <2>2. /\ moves' \in [recent : [0..Last -> BOOLEAN], slots : [0..(Slots - 1) -> BOOLEAN]]
        /\ moves'.recent[0] = moving
        /\ \A i \in 1..Last : moves'.recent[i] = moves.recent[i - 1]
        /\ moves'.slots[0] = (\E i \in NewerHalf : moves'.recent[i])
        /\ moves'.slots[1] = (\E i \in OlderHalf : moves'.recent[i])
    BY <1>1, <1>2, <2>1, ReadArrays
  <2> QED BY <2>2 DEF HalvesInv
<1>4. moves.recent[0] \in BOOLEAN
  BY Lengths DEF MInv, ArraysType
<1>5. ArraysType'
  BY <1>1, <1>3, <1>4, AgedMembers, Lengths DEF MInv, ArraysType
<1>6. ASSUME NEW m \in seen', m.age < Reach
      PROVE  \E i \in 0..Last : moves'.recent[i] /\ i * ReadingInterval + sinceRead' <= m.age
  <2>1. CASE m \in Aged(d)
    <3>1. PICK k \in seen : m.age = k.age + d
      BY <2>1, AgedMembers DEF MInv
    <3>2. k.age \in Nat /\ k.age < Reach
      <4>1. k.age \in Nat
        BY DEF MInv, ArraysType
      <4> QED BY <1>6, <3>1, <4>1, Times
    <3>3. PICK i \in 0..Last : moves.recent[i] /\ i * ReadingInterval + sinceRead <= k.age
      BY <3>2 DEF MInv, AgesInv, KeptFor
    <3>4. i * ReadingInterval \in Nat
          /\ (i + 1) * ReadingInterval = i * ReadingInterval + ReadingInterval
      BY Times
    <3>5. (i + 1) * ReadingInterval <= m.age
      BY <1>1, <3>1, <3>2, <3>3, <3>4, Lengths DEF MInv, ArraysType
    <3>6. i # Last
      BY <1>6, <3>1, <3>2, <3>4, <3>5, Times
    <3>7. i + 1 \in 1..Last /\ moves'.recent[i + 1]
      <4>1. i + 1 \in 1..Last /\ (i + 1) - 1 = i
        BY <3>6, Lengths
      <4>2. moves'.recent[i + 1] = moves.recent[i]
        BY <1>3, <4>1
      <4> QED BY <3>3, <4>1, <4>2
    <3>8. (i + 1) * ReadingInterval + sinceRead' <= m.age
      BY <1>1, <3>1, <3>2, <3>4, <3>5, Lengths
    <3> QED BY <3>7, <3>8, Lengths
  <2>2. CASE m \notin Aged(d)
    <3>1. moving /\ m.age = 0
      BY <1>1, <2>2
    <3>2. 0 \in 0..Last /\ 0 * ReadingInterval + 0 <= 0
      BY Lengths
    <3> QED BY <1>1, <1>3, <3>1, <3>2
  <2> QED BY <2>1, <2>2
<1>7. AgesInv'
  BY <1>6 DEF AgesInv, KeptFor
<1> QED
  BY <1>3, <1>5, <1>7 DEF MInv

LEMMA MovementStep ==
  ASSUME MInv, [Next]_vars
  PROVE  MInv'
<1>1. CASE Accelerometer
  <2>1. PICK d \in 1..MaxLook : NotDue(d) \/ ReadFailed(d) \/ \E n \in 0..2 : Read(d, n)
    BY <1>1 DEF Accelerometer
  <2>2. d \in Nat
    BY Lengths
  <2>3. CASE NotDue(d)
    <3>1. sinceRead' \in 0..ReadingInterval /\ sinceRead' <= sinceRead + d
      BY <2>2, <2>3, Lengths DEF NotDue, Atmost, MInv, ArraysType
    <3> QED BY <2>2, <2>3, <3>1, NoReading DEF NotDue
  <2>4. CASE ReadFailed(d)
    <3>1. sinceRead' \in 0..ReadingInterval /\ sinceRead' <= sinceRead + d
      BY <2>2, <2>4, Lengths DEF ReadFailed, MInv, ArraysType
    <3> QED BY <2>2, <2>4, <3>1, NoReading DEF ReadFailed
  <2>5. CASE \E n \in 0..2 : Read(d, n)
    BY <2>2, <2>5, ReadStep
  <2> QED BY <2>1, <2>3, <2>4, <2>5
<1>2. CASE SetThreshold \/ UpdateStatus \/ SetStatus \/ UNCHANGED vars
  <2>1. UNCHANGED <<moves, sinceRead, seen>>
    BY <1>2 DEF SetThreshold, UpdateStatus, SetStatus, vars, sensor
  <2> QED BY <2>1 DEF MInv, ArraysType, HalvesInv, AgesInv, KeptFor
<1> QED
  BY <1>1, <1>2 DEF Next

LEMMA KeptIsShown == MInv => RecentMovementShown
<1> SUFFICES ASSUME MInv, NEW m \in seen, m.age < Reach
             PROVE  \E b \in SummaryBits(moves) : Edges[b] < 2
  BY DEF RecentMovementShown, Reach
<1>1. PICK i \in 0..Last : moves.recent[i]
  BY DEF MInv, AgesInv, KeptFor
<1>2. i \in NewerHalf \/ i \in OlderHalf
  BY Lengths DEF NewerHalf, OlderHalf, Last
<1>3. PICK k \in {0, 1} : moves.slots[k]
  BY <1>1, <1>2 DEF MInv, HalvesInv
<1>4. 1 \in 1..(Len(Edges) - 1) /\ k \in Edges[1]..(Edges[1 + 1] - 1)
  BY EdgesAssumption
<1>5. 1 \in SummaryBits(moves)
  BY <1>3, <1>4 DEF SummaryBits
<1> QED
  BY <1>5, EdgesAssumption

LEMMA InitMInv == Init => MInv
  BY Lengths, EdgesAssumption DEF Init, NoMovement, MInv, ArraysType, HalvesInv, AgesInv,
     NewerHalf, OlderHalf, Last

(* However late the readings come and whichever of them fail, a movement of  *)
(* the last 2 * Half reading intervals is in the first bit of the summary.   *)
THEOREM RecentMovementInSummary == Spec => []RecentMovementShown
<1>1. Spec => []MInv
  BY InitMInv, MovementStep, PTL DEF Spec
<1> QED
  BY <1>1, KeptIsShown, PTL

--------------------------------------------------------------------------------
(* The grid of ages: multiples of the two gaps, and the bounds of the slots. *)

LEMMA Steps ==
  /\ Gap \in Nat /\ ReadingInterval <= Gap /\ SlotSeconds \in Nat /\ SlotSeconds > 0
  /\ \A i \in Nat : i * Gap \in Nat /\ (i + 1) * Gap = i * Gap + Gap
  /\ \A i, j \in Nat : i <= j => /\ i * ReadingInterval <= j * ReadingInterval
                                 /\ i * Gap <= j * Gap
<1>1. Gap \in Nat /\ ReadingInterval <= Gap /\ SlotSeconds \in Nat /\ SlotSeconds > 0
  BY TimingAssumption DEF Gap
<1>2. \A i, p \in Nat : i * p \in Nat /\ (i + 1) * p = i * p + p
  OBVIOUS
<1>3. \A i, j, p \in Nat : i <= j => i * p <= j * p
  <2> SUFFICES ASSUME NEW i \in Nat, NEW j \in Nat, NEW p \in Nat, i <= j
               PROVE  i * p <= j * p
    OBVIOUS
  <2>1. j - i \in Nat /\ (j - i) * p \in Nat /\ j * p = i * p + (j - i) * p
    OBVIOUS
  <2>2. i * p \in Nat /\ j * p \in Nat
    OBVIOUS
  <2> QED BY <2>1, <2>2
<1> QED
  BY <1>1, <1>2, <1>3, Lengths

LEMMA SlotBounds ==
  /\ Youngest(0) = 0 /\ Youngest(1) = Half * ReadingInterval
  /\ Youngest(2) = (Half + 1) * ReadingInterval
  /\ Oldest(0) = Half * Gap /\ Oldest(1) = 2 * Half * Gap
  /\ Upper(2) = 2 * Half * Gap
  /\ \A k \in Nat : Youngest(k) \in Nat /\ Oldest(k) \in Nat
  /\ \A k \in Nat : k >= 2 =>
       /\ Upper(k) \in Nat
       /\ Youngest(k + 1) = Youngest(k) + SlotSeconds + 1
       /\ Oldest(k) = Upper(k) + SlotSeconds + Gap /\ Upper(k + 1) = Oldest(k)
<1>1. /\ Half \in Nat \ {0} /\ ReadingInterval \in Nat \ {0} /\ Gap \in Nat /\ SlotSeconds \in Nat
  BY Lengths, Steps
<1>2. \A a, b, c \in Nat : 2 * a * b \in Nat /\ (a + 1) * c \in Nat /\ a * c \in Nat
  OBVIOUS
<1>3. \A n \in Nat : (n + 1) * (SlotSeconds + 1) = n * (SlotSeconds + 1) + SlotSeconds + 1
  BY <1>1
<1>4. \A n \in Nat : (n + 1) * (SlotSeconds + Gap) = n * (SlotSeconds + Gap) + SlotSeconds + Gap
  BY <1>1
<1>5. \A n \in Nat : n * (SlotSeconds + 1) \in Nat /\ n * (SlotSeconds + Gap) \in Nat
  BY <1>1
<1>6. \A k \in Nat : k >= 2 => k - 2 \in Nat /\ k - 1 \in Nat /\ (k + 1) - 2 = (k - 2) + 1
                               /\ (k - 1) = (k - 2) + 1 /\ (k + 1) - 1 = (k - 1) + 1
  OBVIOUS
<1>7. /\ Youngest(0) = 0 /\ Youngest(1) = Half * ReadingInterval
      /\ Oldest(0) = Half * Gap
  BY DEF Youngest, Oldest
<1>8. /\ Youngest(2) = (Half + 1) * ReadingInterval
      /\ Oldest(1) = 2 * Half * Gap /\ Upper(2) = 2 * Half * Gap
  <2>1. 0 * (SlotSeconds + 1) = 0 /\ 0 * (SlotSeconds + Gap) = 0
    BY <1>1
  <2>2. /\ (Half + 1) * ReadingInterval \in Nat /\ 2 * Half * Gap \in Nat
    BY <1>1, <1>2
  <2>3. 2 - 2 = 0 /\ 1 - 1 = 0
    OBVIOUS
  <2>4. /\ Youngest(2) = (Half + 1) * ReadingInterval + (2 - 2) * (SlotSeconds + 1)
        /\ Oldest(1) = 2 * Half * Gap + (1 - 1) * (SlotSeconds + Gap)
        /\ Upper(2) = 2 * Half * Gap + (2 - 2) * (SlotSeconds + Gap)
    BY DEF Youngest, Oldest, Upper
  <2> QED BY <2>1, <2>2, <2>3, <2>4
<1>9. ASSUME NEW k \in Nat, k >= 2
      PROVE  /\ Youngest(k) \in Nat /\ Oldest(k) \in Nat /\ Upper(k) \in Nat
             /\ Youngest(k + 1) = Youngest(k) + SlotSeconds + 1
             /\ Oldest(k) = Upper(k) + SlotSeconds + Gap /\ Upper(k + 1) = Oldest(k)
  <2> DEFINE a == (Half + 1) * ReadingInterval
             b == 2 * Half * Gap
             y == (k - 2) * (SlotSeconds + 1)
             u == (k - 2) * (SlotSeconds + Gap)
  <2>1. a \in Nat /\ b \in Nat /\ y \in Nat /\ u \in Nat
    BY <1>1, <1>2, <1>5, <1>6, <1>9
  <2>2. ((k + 1) - 2) * (SlotSeconds + 1) = y + SlotSeconds + 1
    BY <1>3, <1>6, <1>9
  <2>3. /\ (k - 1) * (SlotSeconds + Gap) = u + SlotSeconds + Gap
        /\ ((k + 1) - 2) * (SlotSeconds + Gap) = u + SlotSeconds + Gap
    BY <1>4, <1>6, <1>9
  <2>4. /\ Youngest(k) = a + y /\ Upper(k) = b + u
        /\ Youngest(k + 1) = a + ((k + 1) - 2) * (SlotSeconds + 1)
        /\ Oldest(k) = b + (k - 1) * (SlotSeconds + Gap)
        /\ Upper(k + 1) = b + ((k + 1) - 2) * (SlotSeconds + Gap)
    <3>1. k # 0 /\ k # 1 /\ k + 1 # 0 /\ k + 1 # 1
      BY <1>9
    <3> QED BY <3>1 DEF Youngest, Oldest, Upper
  <2> HIDE DEF a, b, y, u
  <2> QED BY <1>1, <2>1, <2>2, <2>3, <2>4
<1>10. ASSUME NEW k \in Nat PROVE Youngest(k) \in Nat /\ Oldest(k) \in Nat
  <2>1. CASE k = 0
    BY <1>1, <1>2, <1>7, <2>1
  <2>2. CASE k = 1
    BY <1>1, <1>2, <1>7, <1>8, <2>2
  <2> QED BY <1>9, <2>1, <2>2
<1> QED
  BY <1>7, <1>8, <1>9, <1>10

(* A slot further down stands for an older movement.                         *)
LEMMA SlotsOrdered ==
  ASSUME NEW j \in Nat, NEW k \in Nat, j <= k
  PROVE  Youngest(j) <= Youngest(k) /\ Oldest(j) <= Oldest(k)
<1>1. \A a, b, c \in Nat : a <= b => a * c <= b * c
  <2> SUFFICES ASSUME NEW a \in Nat, NEW b \in Nat, NEW c \in Nat, a <= b
               PROVE  a * c <= b * c
    OBVIOUS
  <2>1. b - a \in Nat /\ (b - a) * c \in Nat /\ b * c = a * c + (b - a) * c
    OBVIOUS
  <2>2. a * c \in Nat /\ b * c \in Nat
    OBVIOUS
  <2> QED BY <2>1, <2>2
<1>2. /\ Half \in Nat \ {0} /\ ReadingInterval \in Nat \ {0} /\ Gap \in Nat /\ SlotSeconds \in Nat
  BY Lengths, Steps
<1>3. Half * ReadingInterval <= (Half + 1) * ReadingInterval /\ Half * Gap <= 2 * Half * Gap
  <2>1. Half * Gap \in Nat /\ 2 * Half * Gap = Half * Gap + Half * Gap
    BY <1>2
  <2> QED BY <1>1, <1>2, <2>1
<1>4. ASSUME NEW p \in Nat, NEW q \in Nat, 2 <= p, p <= q
      PROVE  Youngest(p) <= Youngest(q)
  <2>1. (p - 2) * (SlotSeconds + 1) <= (q - 2) * (SlotSeconds + 1)
    BY <1>1, <1>2, <1>4
  <2>2. /\ Youngest(p) = (Half + 1) * ReadingInterval + (p - 2) * (SlotSeconds + 1)
        /\ Youngest(q) = (Half + 1) * ReadingInterval + (q - 2) * (SlotSeconds + 1)
    <3>1. p # 0 /\ p # 1 /\ q # 0 /\ q # 1
      BY <1>4
    <3> QED BY <3>1 DEF Youngest
  <2>3. /\ (p - 2) * (SlotSeconds + 1) \in Int /\ (q - 2) * (SlotSeconds + 1) \in Int
        /\ (Half + 1) * ReadingInterval \in Int
    BY <1>2
  <2> QED BY <2>1, <2>2, <2>3
<1>5. ASSUME NEW p \in Nat, NEW q \in Nat, 1 <= p, p <= q
      PROVE  Oldest(p) <= Oldest(q)
  <2>1. (p - 1) * (SlotSeconds + Gap) <= (q - 1) * (SlotSeconds + Gap)
    BY <1>1, <1>2, <1>5
  <2>2. /\ Oldest(p) = 2 * Half * Gap + (p - 1) * (SlotSeconds + Gap)
        /\ Oldest(q) = 2 * Half * Gap + (q - 1) * (SlotSeconds + Gap)
    <3>1. p # 0 /\ q # 0
      BY <1>5
    <3> QED BY <3>1 DEF Oldest
  <2>3. /\ (p - 1) * (SlotSeconds + Gap) \in Int /\ (q - 1) * (SlotSeconds + Gap) \in Int
        /\ 2 * Half * Gap \in Int
    BY <1>2
  <2> QED BY <2>1, <2>2, <2>3
<1>6. Youngest(0) <= Youngest(1) /\ Youngest(1) <= Youngest(2) /\ Oldest(0) <= Oldest(1)
  BY <1>2, <1>3, SlotBounds
<1>7. Youngest(j) <= Youngest(k)
  <2>1. CASE j >= 2
    BY <1>4, <2>1
  <2>2. CASE j < 2 /\ k >= 2
    <3>1. Youngest(2) <= Youngest(k)
      BY <1>4, <2>2
    <3>2. Youngest(j) \in Nat /\ Youngest(k) \in Nat /\ Youngest(1) \in Nat /\ Youngest(2) \in Nat
      BY SlotBounds
    <3> QED BY <1>6, <2>2, <3>1, <3>2
  <2>3. CASE k < 2
    <3>1. j = k \/ (j = 0 /\ k = 1)
      BY <2>3
    <3> QED BY <1>6, <3>1, SlotBounds
  <2> QED BY <2>1, <2>2, <2>3
<1>8. Oldest(j) <= Oldest(k)
  <2>1. CASE j >= 1
    BY <1>5, <2>1
  <2>2. CASE j = 0 /\ k >= 1
    <3>1. Oldest(1) <= Oldest(k)
      BY <1>5, <2>2
    <3>2. Oldest(j) \in Nat /\ Oldest(k) \in Nat /\ Oldest(1) \in Nat
      BY SlotBounds
    <3> QED BY <1>6, <2>2, <3>1, <3>2
  <2>3. CASE j = 0 /\ k = 0
    BY <2>3, SlotBounds
  <2> QED BY <2>1, <2>2, <2>3
<1> QED
  BY <1>7, <1>8

LEMMA EdgeNumbers ==
  /\ Len(Edges) \in Nat /\ Len(Edges) > 1 /\ Slots \in Nat
  /\ \A b \in 1..Len(Edges) : Edges[b] \in Nat
  /\ Edges[1] = 0 /\ Edges[Len(Edges)] = Slots
  /\ \A a, b \in 1..Len(Edges) : a < b => Edges[a] < Edges[b]
<1>1. Edges \in Seq(Nat) /\ Len(Edges) > 1
  BY EdgesAssumption
<1>2. Len(Edges) \in Nat /\ \A b \in 1..Len(Edges) : Edges[b] \in Nat
  BY <1>1
<1> QED
  BY <1>1, <1>2, EdgesAssumption, Zenon

(* Every slot belongs to a bit, and the slots of the bits exist.             *)
LEMMA BitOfSlot ==
  ASSUME NEW k \in 0..(Slots - 1)
  PROVE  \E b \in 1..(Len(Edges) - 1) : k \in Edges[b]..(Edges[b + 1] - 1)
<1> DEFINE After == {b \in 2..Len(Edges) : k < Edges[b]}
<1>1. Len(Edges) \in Nat /\ \A b \in 1..Len(Edges) : Edges[b] \in Nat
  BY EdgeNumbers
<1>2. After \subseteq Nat /\ After # {}
  <2>1. Len(Edges) \in After
    BY <1>1, EdgeNumbers
  <2> QED BY <1>1, <2>1
<1>3. PICK b \in After : \A c \in After : ~(<<c, b>> \in OpToRel(<, Nat))
  BY <1>2, NatLessThanWellFounded, WFMin
<1>4. \A c \in After : ~(c < b)
  BY <1>2, <1>3 DEF OpToRel
<1>5. b - 1 \in 1..(Len(Edges) - 1) /\ (b - 1) + 1 = b
  BY <1>1
<1>6. Edges[b - 1] <= k
  <2>1. CASE b = 2
    BY <2>1, EdgeNumbers
  <2>2. CASE b > 2
    <3>1. b - 1 \in 2..Len(Edges) /\ b - 1 < b
      BY <1>1, <2>2
    <3>2. b - 1 \notin After
      BY <1>4, <3>1
    <3> QED BY <1>1, <3>1, <3>2
  <2> QED BY <1>1, <2>1, <2>2
<1>7. k \in Edges[b - 1]..(Edges[b] - 1)
  BY <1>1, <1>5, <1>6
<1> QED
  BY <1>5, <1>7

LEMMA SlotOfBit ==
  ASSUME NEW b \in 1..(Len(Edges) - 1), NEW k \in Edges[b]..(Edges[b + 1] - 1)
  PROVE  /\ k \in 0..(Slots - 1) /\ Edges[b] \in Nat /\ Edges[b + 1] - 1 \in Nat
         /\ Edges[b] <= k /\ k <= Edges[b + 1] - 1
<1>1. /\ Len(Edges) \in Nat /\ Len(Edges) >= 2 /\ b \in 1..Len(Edges) /\ b + 1 \in 1..Len(Edges)
      /\ Len(Edges) \in 1..Len(Edges)
  BY EdgeNumbers
<1>2. Edges[b] \in Nat /\ Edges[b + 1] \in Nat /\ Slots \in Nat
  BY <1>1, EdgeNumbers
<1>3. Edges[b + 1] <= Slots
  <2>1. b + 1 < Len(Edges) => Edges[b + 1] < Edges[Len(Edges)]
    BY <1>1, EdgeNumbers
  <2> QED BY <1>1, <1>2, <2>1, EdgeNumbers
<1> QED
  BY <1>2, <1>3

--------------------------------------------------------------------------------
(* The long array after one reading, past its first two slots.               *)
LEMMA ReadSlots ==
  ASSUME ArraysType, NEW moving \in BOOLEAN, NEW shift \in BOOLEAN,
         moves' = Recorded(moves, moving, shift), NEW k \in 2..(Slots - 1)
  PROVE  moves'.slots[k] = IF shift THEN moves.slots[k - 1] ELSE moves.slots[k]
<1> DEFINE slots == IF shift THEN Pushed(moves.slots, FALSE) ELSE moves.slots
           newer == \E i \in NewerHalf : Pushed(moves.recent, moving)[i]
           older == \E i \in OlderHalf : Pushed(moves.recent, moving)[i]
<1>1. moves.slots \in [0..(Slots - 1) -> BOOLEAN]
  BY DEF ArraysType
<1>2. moves'.slots = [slots EXCEPT ![0] = newer, ![1] = older]
  BY DEF Recorded
<1>3. /\ Pushed(moves.slots, FALSE) \in [0..(Slots - 1) -> BOOLEAN]
      /\ \A i \in 1..(Slots - 1) : Pushed(moves.slots, FALSE)[i] = moves.slots[i - 1]
  BY <1>1, Lengths, PushedIn
<1>4. /\ slots \in [0..(Slots - 1) -> BOOLEAN]
      /\ slots[k] = IF shift THEN moves.slots[k - 1] ELSE moves.slots[k]
  <2>1. k \in 1..(Slots - 1)
    OBVIOUS
  <2>2. CASE shift
    BY <1>3, <2>1, <2>2
  <2>3. CASE ~shift
    BY <1>1, <2>3
  <2> QED BY <2>2, <2>3
<1> HIDE DEF slots, newer, older
<1>5. [slots EXCEPT ![0] = newer, ![1] = older][k] = slots[k]
  BY <1>4, Lengths
<1> QED
  BY <1>2, <1>4, <1>5

(* What both steps of the timers need of the types.                          *)
LEMMA Typed ==
  ASSUME SInv
  PROVE  /\ sinceRead \in Nat /\ Gap \in Nat /\ SlotSeconds \in Nat /\ ReadingInterval \in Nat
         /\ Half \in Nat \ {0} /\ Last \in Nat /\ Last = 2 * Half - 1
         /\ ~stale => sinceShift \in Nat
         /\ \A m \in seen : m.age \in Nat /\ m.again \in BOOLEAN
BY Lengths, Steps DEF SInv, MInv, ArraysType, ClockInv, Last

(* Nothing that a slot stands for is forgotten: it is not older than the     *)
(* last slot can be.                                                         *)
LEMMA Remembered ==
  ASSUME NEW d \in Nat, NEW k \in 0..(Slots - 1), ~stale,
         NEW m \in seen, m \in [age : Nat, again : BOOLEAN], m.age + d <= Oldest(k)
  PROVE  [m EXCEPT !.age = @ + d] \in Aged(d)
<1>1. Oldest(k) <= Oldest(Slots - 1) /\ Oldest(k) \in Nat /\ Oldest(Slots - 1) \in Nat
  BY SlotsOrdered, SlotBounds, Lengths
<1> QED
  BY <1>1 DEF Aged, Horizon

(* Time passes without a reading that was due. *)
LEMMA WaitStep ==
  ASSUME SInv, NEW d \in 1..MaxLook, NotDue(d), ~stale'
  PROVE  ClockInv' /\ ShownWasSeen' /\ SeenIsShown'
<1>1. /\ ~stale /\ sinceRead + d < ReadingInterval /\ UNCHANGED moves
      /\ sinceRead' = Atmost(sinceRead + d, ReadingInterval)
      /\ sinceShift' = Atmost(sinceShift + d, SlotSeconds + 1)
      /\ seen' = Aged(d) /\ d \in Nat
  <2>1. ~stale /\ ~DueAfter(d) /\ d \in Nat
    <3>1. stale' = (stale \/ DueAfter(d))
      BY DEF NotDue
    <3>2. ~stale /\ ~DueAfter(d)
      BY <3>1, Zenon
    <3>3. d \in Nat
      BY Lengths
    <3> QED BY <3>2, <3>3
  <2>2. sinceRead + d < ReadingInterval
    BY <2>1, Typed DEF DueAfter
  <2> QED BY <2>1, <2>2 DEF NotDue
<1>2. ClockInv /\ ShownWasSeen /\ SeenIsShown /\ sinceShift \in Nat
  BY <1>1, Typed DEF SInv
<1>3. sinceRead' = sinceRead + d /\ sinceRead' < ReadingInterval /\ ReadingInterval <= Gap
  BY <1>1, Typed, Steps DEF Atmost
<1>4. /\ sinceShift' \in 0..(SlotSeconds + 1) /\ sinceShift' <= sinceShift + d
      /\ sinceShift' <= SlotSeconds => sinceShift' = sinceShift + d
  BY <1>1, <1>2, Typed DEF Atmost
<1>5. ClockInv'
  BY <1>1, <1>2, <1>3, <1>4, Typed DEF ClockInv, Atmost
<1>6. ASSUME NEW i \in 0..Last, moves.recent[i]
      PROVE  \E m \in seen' : AtReading(i, m.age)'
  <2>1. PICK n \in seen : AtReading(i, n.age)
    BY <1>2, <1>6 DEF ShownWasSeen
  <2>2. i * ReadingInterval \in Nat /\ i * Gap \in Nat /\ i * Gap + Gap <= Oldest(1)
    <3>1. (i + 1) * Gap <= (2 * Half) * Gap /\ (i + 1) * Gap = i * Gap + Gap
      BY Typed, Steps, Lengths DEF Last
    <3> QED BY <3>1, Times, Steps, SlotBounds
  <2>3. n.age + d <= Oldest(1)
    BY <1>3, <2>1, <2>2, Typed, SlotBounds DEF AtReading
  <2>4. n \in [age : Nat, again : BOOLEAN]
    BY DEF SInv, MInv, ArraysType
  <2>5. [n EXCEPT !.age = @ + d] \in seen'
    BY <1>1, <2>3, <2>4, Remembered, Lengths
  <2>6. [n EXCEPT !.age = @ + d].age = n.age + d
    BY <2>4
  <2>7. /\ i * ReadingInterval + sinceRead' <= n.age + d
        /\ n.age + d <= i * Gap + sinceRead'
    BY <1>3, <2>1, <2>2, Typed DEF AtReading
  <2> QED BY <2>5, <2>6, <2>7 DEF AtReading
<1>7. ASSUME NEW k \in 2..(Slots - 1), NEW young \in Nat, NEW old \in Nat, InSlot(k, young, old)
      PROVE  /\ InSlot(k, young + d, old + d)'
             /\ young + d <= Oldest(k)
  <2>1. /\ Youngest(k) \in Nat /\ Upper(k) \in Nat /\ Oldest(k) = Upper(k) + SlotSeconds + Gap
    BY SlotBounds
  <2> QED BY <1>2, <1>3, <1>4, <1>7, <2>1, Typed DEF InSlot
<1>8. ASSUME NEW k \in 2..(Slots - 1), moves.slots[k]
      PROVE  \E m \in seen' : InSlot(k, m.age, m.age)'
  <2>1. PICK n \in seen : InSlot(k, n.age, n.age)
    BY <1>2, <1>8 DEF ShownWasSeen
  <2>2. InSlot(k, n.age + d, n.age + d)' /\ n.age + d <= Oldest(k)
    BY <1>7, <2>1, Typed
  <2>3. n \in [age : Nat, again : BOOLEAN]
    BY DEF SInv, MInv, ArraysType
  <2>4. [n EXCEPT !.age = @ + d] \in seen'
    BY <1>1, <2>2, <2>3, Remembered, Lengths
  <2>5. [n EXCEPT !.age = @ + d].age = n.age + d
    BY <2>3
  <2> QED BY <2>2, <2>4, <2>5
<1>9. ShownWasSeen'
  BY <1>1, <1>6, <1>8 DEF ShownWasSeen
<1>10. ASSUME NEW m \in seen', m.again
       PROVE  Twice(m)' \/ Shifted(m)' \/ Youngest(Slots) <= m.age + Gap
  <2>1. PICK n \in seen : m = [n EXCEPT !.age = @ + d]
    BY <1>1 DEF Aged
  <2>2. n \in [age : Nat, again : BOOLEAN]
    BY DEF SInv, MInv, ArraysType
  <2>3. m.age = n.age + d /\ n.again /\ n.age \in Nat
    BY <1>10, <2>1, <2>2
  <2>4. CASE Twice(n)
    <3>1. PICK i \in 0..Last :
            /\ moves.recent[i] /\ (i < Last => moves.recent[i + 1])
            /\ AtReading(i, n.age)
            /\ i >= Half =>
                 Atmost((i - Half + 1) * ReadingInterval + sinceRead, SlotSeconds + 1) <= sinceShift
      BY <2>4 DEF Twice
    <3>2. i * ReadingInterval \in Nat /\ i * Gap \in Nat
      BY Times, Steps
    <3>3. AtReading(i, m.age)'
      BY <1>3, <2>3, <3>1, <3>2, Typed DEF AtReading
    <3>4. i >= Half => (i - Half + 1) * ReadingInterval \in Nat
      BY Typed
    <3> DEFINE x == (i - Half + 1) * ReadingInterval
    <3>5. ASSUME i >= Half
          PROVE  Atmost(x + sinceRead', SlotSeconds + 1) <= sinceShift'
      <4>1. x \in Nat /\ Atmost(x + sinceRead, SlotSeconds + 1) <= sinceShift
        BY <3>1, <3>4, <3>5
      <4> HIDE DEF x
      <4> QED BY <1>1, <1>2, <1>3, <4>1, Typed DEF Atmost
    <3>6. Twice(m)'
      BY <1>1, <3>1, <3>3, <3>5 DEF Twice
    <3> QED BY <3>6
  <2>5. CASE Shifted(n)
    <3>1. PICK k \in 2..(Slots - 1) : moves.slots[k] /\ InSlot(k, n.age, n.age + Gap)
      BY <2>5 DEF Shifted
    <3>2. n.age + Gap \in Nat /\ (n.age + Gap) + d = m.age + Gap
      BY <1>1, <2>3, Typed
    <3>3. InSlot(k, m.age, m.age + Gap)'
      BY <1>7, <2>3, <3>1, <3>2
    <3> QED BY <1>1, <3>1, <3>3 DEF Shifted
  <2>6. CASE Youngest(Slots) <= n.age + Gap
    <3>1. Slots \in Nat
      BY EdgesAssumption
    <3>2. Youngest(Slots) \in Nat
      BY <3>1, SlotBounds
    <3> QED BY <1>1, <2>3, <2>6, <3>2, Typed
  <2> QED BY <1>2, <2>3, <2>4, <2>5, <2>6 DEF SeenIsShown
<1>11. SeenIsShown'
  BY <1>10 DEF SeenIsShown
<1> QED
  BY <1>5, <1>9, <1>11

(* What was seen i readings ago was seen i + 1 readings ago after the next.  *)
LEMMA OneReadingLater ==
  ASSUME SInv, NEW i \in 0..Last, NEW age \in Nat, NEW d \in Nat, AtReading(i, age),
         ReadingInterval <= sinceRead + d, sinceRead + d <= Gap
  PROVE  /\ (i + 1) * ReadingInterval <= age + d /\ age + d <= (i + 1) * Gap
         /\ age + d <= Oldest(1)
<1>1. /\ i * ReadingInterval \in Nat /\ i * Gap \in Nat
      /\ (i + 1) * ReadingInterval = i * ReadingInterval + ReadingInterval
      /\ (i + 1) * Gap = i * Gap + Gap
  BY Times, Steps
<1>2. /\ (i + 1) * ReadingInterval <= age + d /\ age + d <= (i + 1) * Gap
  BY <1>1, Typed DEF AtReading
<1>3. (i + 1) * Gap <= (2 * Half) * Gap
  BY Typed, Steps, Lengths DEF Last
<1> QED
  BY <1>1, <1>2, <1>3, SlotBounds, Typed

LEMMA ReadKeeps ==
  ASSUME SInv, ~stale, NEW d \in 1..MaxLook, NEW n \in 0..2, Read(d, n)
  PROVE  ClockInv' /\ ShownWasSeen' /\ SeenIsShown'
<1> DEFINE moving == n > 1
           shift == ShiftAfter(d)
           now == [age |-> 0, again |-> moves.recent[0]]
<1>1. /\ ClockInv /\ ShownWasSeen /\ SeenIsShown /\ ArraysType /\ HalvesInv
      /\ d \in Nat /\ moving \in BOOLEAN /\ shift \in BOOLEAN /\ sinceShift \in Nat
  BY Typed, Lengths DEF SInv, MInv, ShiftAfter
<1>2. /\ moves' = Recorded(moves, moving, shift) /\ sinceRead' = 0
      /\ ReadingInterval <= sinceRead + d /\ sinceRead + d <= Gap
      /\ seen' = Aged(d) \cup (IF moving THEN {now} ELSE {})
  <2>1. /\ moves' = Recorded(moves, moving, shift) /\ sinceRead' = 0
        /\ sinceRead + d >= ReadingInterval
        /\ seen' = Aged(d) \cup (IF moving THEN {now} ELSE {})
    BY DEF Read, DueAfter
  <2>2. sinceRead + d <= Gap
    BY <1>1, Typed, Lengths DEF ClockInv, Gap
  <2> QED BY <1>1, <2>1, <2>2, Typed
<1>3. /\ shift => sinceShift' = 0 /\ sinceShift + d >= SlotSeconds + 1
      /\ ~shift => sinceShift' = sinceShift + d /\ sinceShift + d <= SlotSeconds
  BY <1>1, Typed DEF Read, ShiftAfter
<1>4. /\ moves'.recent[0] = moving
      /\ \A i \in 1..Last : moves'.recent[i] = moves.recent[i - 1]
      /\ \A k \in 2..(Slots - 1) :
           moves'.slots[k] = IF shift THEN moves.slots[k - 1] ELSE moves.slots[k]
  <2> HIDE DEF moving, shift
  <2> QED BY <1>1, <1>2, ReadArrays, ReadSlots
<1> HIDE DEF moving, shift
<1>5. ClockInv'
  BY <1>1, <1>2, <1>3, Typed, Lengths DEF ClockInv, Atmost
<1>6. ASSUME NEW m \in seen, NEW k \in 0..(Slots - 1), m.age + d <= Oldest(k)
      PROVE  \E x \in seen' : x.age = m.age + d
  <2>1. m \in [age : Nat, again : BOOLEAN]
    BY <1>1 DEF ArraysType
  <2>2. [m EXCEPT !.age = @ + d] \in seen'
    BY <1>1, <1>2, <1>6, <2>1, Remembered
  <2>3. [m EXCEPT !.age = @ + d].age = m.age + d
    BY <2>1
  <2> QED BY <2>2, <2>3
<1>7. ASSUME NEW i \in 0..Last, moves'.recent[i]
      PROVE  \E m \in seen' : AtReading(i, m.age)'
  <2>1. CASE i = 0
    <3>1. now \in seen' /\ now.age = 0
      BY <1>2, <1>4, <1>7, <2>1
    <3>2. 0 * ReadingInterval + 0 <= 0 /\ 0 <= 0 * Gap + 0
      BY Typed
    <3> QED BY <1>2, <2>1, <3>1, <3>2 DEF AtReading
  <2>2. CASE i # 0
    <3>1. i - 1 \in 0..Last /\ moves.recent[i - 1] /\ (i - 1) + 1 = i
      BY <1>4, <1>7, <2>2, Lengths
    <3>2. PICK m \in seen : AtReading(i - 1, m.age)
      BY <1>1, <3>1 DEF ShownWasSeen
    <3>3. /\ i * ReadingInterval <= m.age + d /\ m.age + d <= i * Gap
          /\ m.age + d <= Oldest(1)
      BY <1>1, <1>2, <3>1, <3>2, OneReadingLater, Typed
    <3>4. PICK x \in seen' : x.age = m.age + d
      BY <1>6, <3>3, Lengths
    <3>5. i * ReadingInterval \in Nat /\ i * Gap \in Nat
      BY Times, Steps
    <3> QED BY <1>2, <3>3, <3>4, <3>5 DEF AtReading
  <2> QED BY <2>1, <2>2
<1>8. ASSUME NEW k \in 2..(Slots - 1), NEW young \in Nat, NEW old \in Nat, InSlot(k, young, old)
      PROVE  /\ young + d <= Oldest(k)
             /\ shift => InSlot(k + 1, young + d, old + d)'
             /\ ~shift => InSlot(k, young + d, old + d)'
  <2>1. /\ Youngest(k) \in Nat /\ Upper(k) \in Nat /\ Oldest(k) = Upper(k) + SlotSeconds + Gap
        /\ Youngest(k + 1) = Youngest(k) + SlotSeconds + 1 /\ Upper(k + 1) = Oldest(k)
    BY SlotBounds
  <2>2. young + d <= Oldest(k)
    BY <1>1, <1>2, <1>8, <2>1, Typed DEF InSlot
  <2>3. ASSUME shift PROVE InSlot(k + 1, young + d, old + d)'
    BY <1>1, <1>2, <1>3, <1>8, <2>1, <2>2, <2>3, Typed DEF InSlot
  <2>4. ASSUME ~shift PROVE InSlot(k, young + d, old + d)'
    BY <1>1, <1>2, <1>3, <1>8, <2>1, <2>4, Typed DEF InSlot
  <2> QED BY <2>2, <2>3, <2>4
<1>9. ASSUME shift, NEW young \in Nat, NEW old \in Nat,
             young <= 2 * Half * Gap, (Half + 1) * ReadingInterval <= old
      PROVE  InSlot(2, young, old)'
  <2>1. Youngest(2) \in Nat /\ Upper(2) \in Nat
    BY SlotBounds
  <2> QED BY <1>2, <1>3, <1>9, <2>1, SlotBounds, Typed DEF InSlot
<1>10. ASSUME NEW k \in 2..(Slots - 1), moves'.slots[k]
       PROVE  \E m \in seen' : InSlot(k, m.age, m.age)'
  <2>1. CASE ~shift
    <3>1. PICK m \in seen : InSlot(k, m.age, m.age)
      BY <1>1, <1>4, <1>10, <2>1 DEF ShownWasSeen
    <3>2. InSlot(k, m.age + d, m.age + d)' /\ m.age + d <= Oldest(k)
      BY <1>8, <2>1, <3>1, Typed
    <3>3. PICK x \in seen' : x.age = m.age + d
      BY <1>6, <3>2
    <3> QED BY <3>2, <3>3
  <2>2. CASE shift /\ k > 2
    <3>1. k - 1 \in 2..(Slots - 1) /\ moves.slots[k - 1] /\ (k - 1) + 1 = k
      BY <1>4, <1>10, <2>2, Lengths
    <3>2. PICK m \in seen : InSlot(k - 1, m.age, m.age)
      BY <1>1, <3>1 DEF ShownWasSeen
    <3>3. InSlot(k, m.age + d, m.age + d)' /\ m.age + d <= Oldest(k - 1)
      BY <1>8, <2>2, <3>1, <3>2, Typed
    <3>4. PICK x \in seen' : x.age = m.age + d
      BY <1>6, <3>1, <3>3
    <3> QED BY <3>3, <3>4
  <2>3. CASE shift /\ k = 2
    <3>1. moves.slots[1]
      BY <1>4, <1>10, <2>3
    <3>2. PICK i \in OlderHalf : moves.recent[i]
      BY <1>1, <3>1 DEF HalvesInv
    <3>3. i \in 0..Last /\ Half <= i
      BY <3>2, Lengths DEF OlderHalf, Last
    <3>4. PICK m \in seen : AtReading(i, m.age)
      BY <1>1, <3>2, <3>3 DEF ShownWasSeen
    <3>5. (i + 1) * ReadingInterval <= m.age + d /\ m.age + d <= Oldest(1)
      BY <1>1, <1>2, <3>3, <3>4, OneReadingLater, Typed
    <3>6. (Half + 1) * ReadingInterval <= (i + 1) * ReadingInterval
      BY <3>3, Typed, Steps
    <3>7. /\ (Half + 1) * ReadingInterval \in Nat /\ (i + 1) * ReadingInterval \in Nat
          /\ m.age + d \in Nat /\ m.age + d <= 2 * Half * Gap
      <4>1. Half + 1 \in Nat /\ i + 1 \in Nat /\ m.age + d \in Nat
        BY <1>1, <3>3, Typed
      <4>2. Oldest(1) = 2 * Half * Gap
        BY SlotBounds
      <4>3. (Half + 1) * ReadingInterval \in Nat /\ (i + 1) * ReadingInterval \in Nat
        BY <4>1, Times
      <4>4. m.age + d <= 2 * Half * Gap
        BY <3>5, <4>2
      <4> QED BY <4>1, <4>3, <4>4
    <3>8. InSlot(2, m.age + d, m.age + d)'
      <4>1. (Half + 1) * ReadingInterval <= m.age + d
        BY <3>5, <3>6, <3>7
      <4> QED BY <1>9, <2>3, <3>7, <4>1
    <3>9. PICK x \in seen' : x.age = m.age + d
      BY <1>6, <3>5, Lengths
    <3> QED BY <2>3, <3>8, <3>9
  <2> QED BY <2>1, <2>2, <2>3
<1>11. ShownWasSeen'
  BY <1>7, <1>10 DEF ShownWasSeen
<1>12. ASSUME NEW m \in seen', m.again
       PROVE  Twice(m)' \/ Shifted(m)' \/ Youngest(Slots) <= m.age + Gap
  <2>1. CASE m \notin Aged(d)
    <3>1. m = now /\ moving
      BY <1>2, <2>1
    <3>2. m.age = 0 /\ moves.recent[0] /\ moves'.recent[0] /\ 0 \in 0..Last /\ 0 < Half
      BY <1>4, <1>12, <3>1, Lengths
    <3>3. 0 < Last => moves'.recent[0 + 1]
      BY <1>4, <3>2, Lengths
    <3>4. 0 * ReadingInterval + 0 <= 0 /\ 0 <= 0 * Gap + 0
      BY Typed
    <3>5. AtReading(0, m.age)'
      BY <1>2, <3>2, <3>4 DEF AtReading
    <3>6. Twice(m)'
      BY <3>2, <3>3, <3>5, Lengths DEF Twice
    <3> QED BY <3>6
  <2>2. CASE m \in Aged(d)
    <3>1. PICK x \in seen : m = [x EXCEPT !.age = @ + d]
      BY <2>2 DEF Aged
    <3>2. x \in [age : Nat, again : BOOLEAN]
      BY <1>1 DEF ArraysType
    <3>3. m.age = x.age + d /\ x.again /\ x.age \in Nat /\ m.age \in Nat
      BY <1>1, <1>12, <3>1, <3>2
    <3>4. CASE Twice(x)
      <4>1. PICK i \in 0..Last :
              /\ moves.recent[i] /\ (i < Last => moves.recent[i + 1])
              /\ AtReading(i, x.age)
              /\ i >= Half =>
                   Atmost((i - Half + 1) * ReadingInterval + sinceRead, SlotSeconds + 1)
                     <= sinceShift
        BY <3>4 DEF Twice
      <4>2. /\ (i + 1) * ReadingInterval <= m.age /\ m.age <= (i + 1) * Gap
            /\ m.age <= 2 * Half * Gap
        <5>1. /\ (i + 1) * ReadingInterval <= x.age + d /\ x.age + d <= (i + 1) * Gap
              /\ x.age + d <= Oldest(1)
          BY <1>1, <1>2, <3>3, <4>1, OneReadingLater
        <5>2. Oldest(1) = 2 * Half * Gap
          BY SlotBounds
        <5> QED BY <3>3, <5>1, <5>2
      <4> DEFINE later == (i - Half + 1) * ReadingInterval
                 evenLater == ((i + 1) - Half + 1) * ReadingInterval
      <4>3. i >= Half - 1 =>
              /\ later \in Nat /\ Atmost(later + sinceRead, SlotSeconds + 1) <= sinceShift
              /\ evenLater = later + ReadingInterval
        <5>1. CASE i >= Half
          <6>1. i - Half + 1 \in Nat /\ ((i + 1) - Half + 1) = (i - Half + 1) + 1
            BY <5>1, Typed
          <6> QED BY <4>1, <5>1, <6>1, Times
        <5>2. CASE i = Half - 1
          <6>1. i - Half + 1 = 0 /\ (i + 1) - Half + 1 = 1 /\ 0 * ReadingInterval = 0
                /\ 1 * ReadingInterval = ReadingInterval
            BY <5>2, Typed
          <6>2. later = 0 /\ evenLater = ReadingInterval
            BY <6>1
          <6>3. 0 + sinceRead = sinceRead /\ 0 + ReadingInterval = ReadingInterval
            BY Typed
          <6> HIDE DEF later, evenLater
          <6> QED BY <1>1, <6>2, <6>3 DEF ClockInv
        <5>3. i >= Half - 1 => i >= Half \/ i = Half - 1
          BY Typed
        <5> HIDE DEF later, evenLater
        <5> QED BY <5>1, <5>2, <5>3
      <4>4. CASE shift /\ i >= Half - 1
        <5>1. moves.slots[1]
          <6>1. CASE i >= Half
            BY <1>1, <4>1, <6>1, Lengths DEF HalvesInv, OlderHalf, Last
          <6>2. CASE i = Half - 1
            BY <1>1, <4>1, <6>2, Lengths DEF HalvesInv, OlderHalf, Last
          <6> QED BY <4>4, <6>1, <6>2, Typed
        <5>2. 2 \in 2..(Slots - 1) /\ moves'.slots[2]
          <6>1. 2 \in 2..(Slots - 1) /\ 2 - 1 = 1
            BY EdgesAssumption
          <6> QED BY <1>4, <4>4, <5>1, <6>1
        <5>3. (Half + 1) * ReadingInterval <= m.age + Gap
          <6>1. Half * ReadingInterval <= (i + 1) * ReadingInterval
            BY <4>4, Typed, Steps
          <6>2. /\ Half * ReadingInterval \in Nat /\ (i + 1) * ReadingInterval \in Nat
                /\ (Half + 1) * ReadingInterval = Half * ReadingInterval + ReadingInterval
            BY Typed, Times
          <6> QED BY <3>3, <4>2, <6>1, <6>2, Typed, Steps
        <5>4. InSlot(2, m.age, m.age + Gap)'
          BY <1>9, <3>3, <4>2, <4>4, <5>3, Typed
        <5> QED BY <5>2, <5>4 DEF Shifted
      <4>5. CASE ~shift /\ i = Last
        <5>1. i >= Half - 1 /\ later = Half * ReadingInterval
          <6>1. i - Half + 1 = Half
            BY <4>5, Typed
          <6> QED BY <4>5, <6>1, Typed
        <5>2. later + sinceRead > SlotSeconds \/ sinceShift + d > SlotSeconds
          <6>1. later \in Nat /\ Atmost(later + sinceRead, SlotSeconds + 1) <= sinceShift
            BY <4>3, <5>1
          <6>2. SlotSeconds <= later
            BY <5>1, SlotAssumption
          <6> HIDE DEF later
          <6> QED BY <1>1, <1>2, <6>1, <6>2, Typed, Lengths DEF Atmost
        <5>3. sinceShift + d > SlotSeconds
          <6>1. later \in Nat /\ Atmost(later + sinceRead, SlotSeconds + 1) <= sinceShift
            BY <4>3, <5>1
          <6> HIDE DEF later
          <6> QED BY <1>1, <5>2, <6>1, Typed DEF Atmost
        <5> QED BY <1>1, <1>3, <4>5, <5>3, Typed
      <4>6. CASE i # Last /\ (shift => i < Half - 1)
        <5>1. /\ i + 1 \in 0..Last /\ moves'.recent[i + 1]
              /\ i + 1 < Last => moves'.recent[(i + 1) + 1]
          <6>1. /\ i + 1 \in 1..Last /\ (i + 1) - 1 = i
                /\ i + 1 < Last => (i + 1) + 1 \in 1..Last /\ ((i + 1) + 1) - 1 = i + 1
            BY <4>6, Typed
          <6>2. i + 1 \in 0..Last /\ (i + 1 < Last => i < Last) /\ i < Last
            BY <4>6, Typed
          <6>3. moves'.recent[i + 1] /\ moves.recent[i + 1]
            BY <1>4, <4>1, <6>1, <6>2
          <6>4. i + 1 < Last => moves'.recent[(i + 1) + 1]
            BY <1>4, <6>1, <6>3
          <6> QED BY <6>2, <6>3, <6>4
        <5>2. AtReading(i + 1, m.age)'
          <6>1. (i + 1) * ReadingInterval \in Nat /\ (i + 1) * Gap \in Nat
            BY Times, Steps
          <6> QED BY <1>2, <4>2, <6>1 DEF AtReading
        <5>3. ASSUME i + 1 >= Half
              PROVE  Atmost(((i + 1) - Half + 1) * ReadingInterval + sinceRead',
                            SlotSeconds + 1) <= sinceShift'
          <6>1. ~shift /\ i >= Half - 1
            BY <4>6, <5>3, Typed
          <6>2. /\ later \in Nat /\ Atmost(later + sinceRead, SlotSeconds + 1) <= sinceShift
                /\ evenLater = later + ReadingInterval
            BY <4>3, <6>1
          <6> HIDE DEF later
          <6>3. Atmost((later + ReadingInterval) + 0, SlotSeconds + 1) <= sinceShift + d
            BY <1>1, <1>2, <1>3, <6>1, <6>2, Typed DEF Atmost
          <6> QED BY <1>2, <1>3, <6>1, <6>2, <6>3
        <5> QED BY <5>1, <5>2, <5>3 DEF Twice
      <4> QED BY <4>4, <4>5, <4>6, Typed
    <3>5. CASE Shifted(x)
      <4>1. PICK k \in 2..(Slots - 1) : moves.slots[k] /\ InSlot(k, x.age, x.age + Gap)
        BY <3>5 DEF Shifted
      <4>2. x.age + Gap \in Nat /\ (x.age + Gap) + d = m.age + Gap
        BY <1>1, <3>3, Typed
      <4>3. /\ shift => InSlot(k + 1, m.age, m.age + Gap)'
            /\ ~shift => InSlot(k, m.age, m.age + Gap)'
        BY <1>8, <3>3, <4>1, <4>2
      <4>4. CASE ~shift
        BY <1>4, <4>1, <4>3, <4>4 DEF Shifted
      <4>5. CASE shift /\ k < Slots - 1
        <5>1. k + 1 \in 2..(Slots - 1) /\ (k + 1) - 1 = k
          BY <4>5, Lengths
        <5> QED BY <1>4, <4>1, <4>3, <4>5, <5>1 DEF Shifted
      <4>6. CASE shift /\ k = Slots - 1
        <5>1. k + 1 = Slots /\ Youngest(Slots) = Youngest(k) + SlotSeconds + 1
              /\ Youngest(k) \in Nat
          <6>1. Slots \in Nat
            BY EdgesAssumption
          <6>2. k + 1 = Slots /\ k \in Nat /\ k >= 2
            BY <4>6, <6>1
          <6> QED BY <6>2, SlotBounds
        <5>2. Youngest(k) + sinceShift <= x.age + Gap /\ sinceShift + d >= SlotSeconds + 1
          BY <1>3, <4>1, <4>6 DEF InSlot
        <5>3. /\ SlotSeconds \in Nat /\ x.age + Gap \in Nat /\ sinceShift \in Nat /\ d \in Nat
          BY <1>1, <4>2, Typed
        <5>4. Youngest(Slots) <= (x.age + Gap) + d
          BY <5>1, <5>2, <5>3
        <5> QED BY <4>2, <5>4
      <4> QED BY <4>4, <4>5, <4>6, Lengths
    <3>6. CASE Youngest(Slots) <= x.age + Gap
      <4>1. Slots \in Nat
        BY EdgesAssumption
      <4>2. Youngest(Slots) \in Nat
        BY <4>1, SlotBounds
      <4> QED BY <1>1, <3>3, <3>6, <4>2, Typed
    <3> QED BY <1>1, <3>3, <3>4, <3>5, <3>6 DEF SeenIsShown
  <2> QED BY <2>1, <2>2
<1>13. SeenIsShown'
  BY <1>12 DEF SeenIsShown
<1> QED
  BY <1>5, <1>11, <1>13

(* A slot's bounds while it holds: those of Youngest and Oldest.             *)
LEMMA WithinSlot ==
  ASSUME SInv, ~stale, NEW k \in 2..(Slots - 1), NEW young \in Nat, NEW old \in Nat,
         InSlot(k, young, old)
  PROVE  Youngest(k) <= old /\ young <= Oldest(k)
<1>1. /\ Youngest(k) \in Nat /\ Upper(k) \in Nat /\ Oldest(k) = Upper(k) + SlotSeconds + Gap
  BY SlotBounds
<1>2. sinceRead <= Gap
  BY Typed, Steps DEF SInv, ClockInv
<1> QED
  BY <1>1, <1>2, Typed DEF InSlot

LEMMA HalfLengths ==
  ASSUME NEW i \in 0..Last
  PROVE  /\ i < Half => (i + 1) * Gap <= Half * Gap
         /\ (i + 1) * Gap <= (2 * Half) * Gap
         /\ (i + 1) * Gap = i * Gap + Gap /\ i * Gap \in Nat
         /\ Half * Gap \in Nat /\ (2 * Half) * Gap \in Nat
<1>1. /\ Half \in Nat /\ 2 * Half \in Nat /\ i \in Nat /\ i + 1 \in Nat
      /\ i + 1 <= 2 * Half /\ (i < Half => i + 1 <= Half)
  BY Lengths DEF Last
<1> QED
  BY <1>1, Steps

LEMMA WithinHalf ==
  ASSUME SInv, ~stale, NEW i \in 0..Last, moves.recent[i], NEW age \in Nat, AtReading(i, age)
  PROVE  \E k \in {0, 1} : moves.slots[k] /\ Youngest(k) <= age /\ age <= Oldest(k)
<1>1. HalvesInv /\ sinceRead <= Gap /\ ReadingInterval \in Nat
  BY Typed, Steps DEF SInv, MInv, ClockInv
<1>2. /\ i * ReadingInterval \in Nat /\ i * Gap \in Nat /\ (i + 1) * Gap = i * Gap + Gap
      /\ age <= (i + 1) * Gap
  <2>1. i * ReadingInterval \in Nat /\ i * Gap \in Nat /\ (i + 1) * Gap = i * Gap + Gap
    BY Times, Steps
  <2> QED BY <1>1, <2>1, Typed DEF AtReading
<1>3. CASE i < Half
  <2>1. moves.slots[0]
    BY <1>1, <1>3, Typed DEF HalvesInv, NewerHalf
  <2>2. (i + 1) * Gap <= Half * Gap /\ Half * Gap \in Nat
    BY <1>3, HalfLengths
  <2>3. age <= Oldest(0) /\ Youngest(0) <= age
    BY <1>2, <2>2, SlotBounds, Typed
  <2> QED BY <2>1, <2>3
<1>4. CASE i >= Half
  <2>1. moves.slots[1]
    BY <1>1, <1>4, Typed DEF HalvesInv, OlderHalf
  <2>2. (i + 1) * Gap <= (2 * Half) * Gap /\ (2 * Half) * Gap \in Nat
    BY <1>4, HalfLengths
  <2>3. Half * ReadingInterval <= i * ReadingInterval /\ Half * ReadingInterval \in Nat
    BY <1>4, Typed, Steps, Times
  <2>4. age <= Oldest(1)
    BY <1>2, <2>2, SlotBounds, Typed
  <2>5. Youngest(1) <= age
    BY <1>2, <2>3, SlotBounds, Typed DEF AtReading
  <2> QED BY <2>1, <2>4, <2>5
<1> QED
  BY <1>3, <1>4, Typed

(* The bit a slot belongs to covers what the slot covers.                    *)
LEMMA BitOfWiderCover ==
  ASSUME NEW b \in 1..(Len(Edges) - 1), NEW k \in Edges[b]..(Edges[b + 1] - 1),
         NEW young \in Nat, NEW old \in Nat, Youngest(k) <= old, young <= Oldest(k)
  PROVE  BitCovers(b, young, old)
<1>1. /\ k \in Nat /\ Edges[b] \in Nat /\ Edges[b + 1] - 1 \in Nat
      /\ Edges[b] <= k /\ k <= Edges[b + 1] - 1
  BY SlotOfBit
<1>2. Youngest(Edges[b]) <= Youngest(k) /\ Oldest(k) <= Oldest(Edges[b + 1] - 1)
  BY <1>1, SlotsOrdered
<1>3. /\ Youngest(Edges[b]) \in Nat /\ Youngest(k) \in Nat
      /\ Oldest(k) \in Nat /\ Oldest(Edges[b + 1] - 1) \in Nat
  BY <1>1, SlotBounds
<1> QED
  BY <1>2, <1>3 DEF BitCovers

LEMMA SInvShows == SInv => NothingInvented /\ LastingMovementKept
<1> SUFFICES ASSUME SInv, ~stale
             PROVE  NothingInvented /\ LastingMovementKept
  BY DEF NothingInvented, LastingMovementKept
<1>1. HalvesInv /\ ShownWasSeen /\ SeenIsShown
  BY DEF SInv, MInv
<1>2. ASSUME NEW b \in SummaryBits(moves)
      PROVE  \E m \in seen : BitCovers(b, m.age, m.age)
  <2>1. /\ b \in 1..(Len(Edges) - 1)
        /\ \E k \in Edges[b]..(Edges[b + 1] - 1) : moves.slots[k]
    BY <1>2 DEF SummaryBits
  <2>2. PICK k \in Edges[b]..(Edges[b + 1] - 1) : moves.slots[k]
    BY <2>1
  <2>3. k \in 0..(Slots - 1)
    BY <2>1, SlotOfBit
  <2>4. CASE k \in 2..(Slots - 1)
    <3>1. PICK m \in seen : InSlot(k, m.age, m.age)
      BY <1>1, <2>2, <2>4 DEF ShownWasSeen
    <3>2. Youngest(k) <= m.age /\ m.age <= Oldest(k) /\ m.age \in Nat
      BY <2>4, <3>1, WithinSlot, Typed
    <3> QED BY <2>1, <3>2, BitOfWiderCover
  <2>5. CASE k = 0
    <3>1. PICK i \in NewerHalf : moves.recent[i]
      BY <1>1, <2>2, <2>5 DEF HalvesInv
    <3>2. i \in 0..Last /\ i < Half
      BY <3>1, Typed DEF NewerHalf
    <3>3. PICK m \in seen : AtReading(i, m.age)
      BY <1>1, <3>1, <3>2 DEF ShownWasSeen
    <3>4. m.age \in Nat /\ Youngest(0) <= m.age
      BY Typed, SlotBounds
    <3>5. m.age <= Oldest(0)
      <4>1. (i + 1) * Gap <= Half * Gap /\ (i + 1) * Gap = i * Gap + Gap
            /\ i * Gap \in Nat /\ Half * Gap \in Nat
        BY <3>2, HalfLengths
      <4>2. sinceRead <= Gap
        BY Typed, Steps DEF SInv, ClockInv
      <4> QED BY <3>3, <3>4, <4>1, <4>2, SlotBounds, Typed DEF AtReading
    <3> QED BY <2>1, <2>5, <3>4, <3>5, BitOfWiderCover
  <2>6. CASE k = 1
    <3>1. PICK i \in OlderHalf : moves.recent[i]
      BY <1>1, <2>2, <2>6 DEF HalvesInv
    <3>2. i \in 0..Last /\ Half <= i
      BY <3>1, Typed DEF OlderHalf
    <3>3. PICK m \in seen : AtReading(i, m.age)
      BY <1>1, <3>1, <3>2 DEF ShownWasSeen
    <3>4. m.age \in Nat
      BY Typed
    <3>5. Youngest(1) <= m.age
      <4>1. /\ Half * ReadingInterval <= i * ReadingInterval
            /\ Half * ReadingInterval \in Nat /\ i * ReadingInterval \in Nat
        BY <3>2, Typed, Steps, Times
      <4> QED BY <3>3, <3>4, <4>1, SlotBounds, Typed DEF AtReading
    <3>6. m.age <= Oldest(1)
      <4>1. (i + 1) * Gap <= (2 * Half) * Gap /\ (i + 1) * Gap = i * Gap + Gap
            /\ i * Gap \in Nat /\ (2 * Half) * Gap \in Nat
        BY <3>2, HalfLengths
      <4>2. sinceRead <= Gap
        BY Typed, Steps DEF SInv, ClockInv
      <4> QED BY <3>3, <3>4, <4>1, <4>2, SlotBounds, Typed DEF AtReading
    <3> QED BY <2>1, <2>6, <3>4, <3>5, <3>6, BitOfWiderCover
  <2> QED BY <2>3, <2>4, <2>5, <2>6
<1>3. ASSUME NEW m \in seen, m.again, m.age + Gap < Youngest(Slots)
      PROVE  \E b \in SummaryBits(moves) : BitCovers(b, m.age, m.age + Gap)
  <2>1. m.age \in Nat /\ m.age + Gap \in Nat
    BY Typed
  <2>2. Youngest(Slots) \in Nat
    <3>1. Slots \in Nat
      BY EdgesAssumption
    <3> QED BY <3>1, SlotBounds
  <2>3. Twice(m) \/ Shifted(m)
    BY <1>1, <1>3, <2>1, <2>2 DEF SeenIsShown
  <2>4. \E k \in 0..(Slots - 1) :
          moves.slots[k] /\ Youngest(k) <= m.age + Gap /\ m.age <= Oldest(k)
    <3>1. CASE Twice(m)
      <4>1. PICK i \in 0..Last : moves.recent[i] /\ AtReading(i, m.age)
        BY <3>1 DEF Twice
      <4>2. PICK k \in {0, 1} : moves.slots[k] /\ Youngest(k) <= m.age /\ m.age <= Oldest(k)
        BY <2>1, <4>1, WithinHalf
      <4>3. k \in 0..(Slots - 1) /\ Youngest(k) \in Nat
        BY SlotBounds, Lengths
      <4> QED BY <2>1, <4>2, <4>3, Typed
    <3>2. CASE Shifted(m)
      <4>1. PICK k \in 2..(Slots - 1) : moves.slots[k] /\ InSlot(k, m.age, m.age + Gap)
        BY <3>2 DEF Shifted
      <4>2. Youngest(k) <= m.age + Gap /\ m.age <= Oldest(k)
        BY <2>1, <4>1, WithinSlot
      <4> QED BY <4>1, <4>2
    <3> QED BY <2>3, <3>1, <3>2
  <2>5. PICK k \in 0..(Slots - 1) :
          moves.slots[k] /\ Youngest(k) <= m.age + Gap /\ m.age <= Oldest(k)
    BY <2>4
  <2>6. PICK b \in 1..(Len(Edges) - 1) : k \in Edges[b]..(Edges[b + 1] - 1)
    BY BitOfSlot
  <2>7. BitCovers(b, m.age, m.age + Gap)
    BY <2>1, <2>5, <2>6, BitOfWiderCover
  <2>8. b \in SummaryBits(moves)
    BY <2>5, <2>6 DEF SummaryBits
  <2> QED BY <2>7, <2>8
<1>4. NothingInvented
  BY <1>2 DEF NothingInvented
<1>5. LastingMovementKept
  BY <1>3 DEF LastingMovementKept
<1> QED
  BY <1>4, <1>5

LEMMA SInvariance == Spec => []SInv
<1>1. Init => SInv
  <2> SUFFICES ASSUME Init PROVE SInv
    OBVIOUS
  <2>1. MInv
    BY InitMInv
  <2>2. ClockInv /\ ShownWasSeen /\ SeenIsShown
    BY Lengths, Steps DEF Init, NoMovement, ClockInv, ShownWasSeen, SeenIsShown, Atmost, Last
  <2> QED BY <2>1, <2>2 DEF SInv
<1>2. SInv /\ [Next]_vars => SInv'
  <2> SUFFICES ASSUME SInv, [Next]_vars PROVE SInv'
    OBVIOUS
  <2>1. MInv'
    BY MovementStep DEF SInv
  <2>2. ASSUME ~stale' PROVE ClockInv' /\ ShownWasSeen' /\ SeenIsShown'
    <3>1. CASE Accelerometer
      <4>1. PICK d \in 1..MaxLook : NotDue(d) \/ ReadFailed(d) \/ \E n \in 0..2 : Read(d, n)
        BY <3>1 DEF Accelerometer
      <4>2. CASE NotDue(d)
        BY <2>2, <4>2, WaitStep
      <4>3. CASE ReadFailed(d)
        BY <2>2, <4>3 DEF ReadFailed
      <4>4. CASE \E n \in 0..2 : Read(d, n)
        <5>1. PICK n \in 0..2 : Read(d, n)
          BY <4>4
        <5>2. ~stale
          BY <2>2, <5>1 DEF Read
        <5> QED BY <5>1, <5>2, ReadKeeps
      <4> QED BY <4>1, <4>2, <4>3, <4>4
    <3>2. CASE SetThreshold \/ UpdateStatus \/ SetStatus \/ UNCHANGED vars
      <4>1. UNCHANGED <<moves, sinceRead, sinceShift, seen, stale>>
        BY <3>2 DEF SetThreshold, UpdateStatus, SetStatus, vars, sensor
      <4>2. ClockInv /\ ShownWasSeen /\ SeenIsShown
        BY <2>2, <4>1 DEF SInv
      <4> QED
        BY <4>1, <4>2 DEF ClockInv, ShownWasSeen, SeenIsShown, AtReading, InSlot, Twice, Shifted
    <3> QED BY <3>1, <3>2 DEF Next
  <2> QED BY <2>1, <2>2 DEF SInv
<1> QED
  BY <1>1, <1>2, PTL DEF Spec

(* With every reading taken, a bit of the summary is a movement that was     *)
(* seen as long ago as the slots of the bit say: the two arrays of           *)
(* lis2dw12.c, which move on at different times, never make one up.          *)
THEOREM NoInvention == Spec => []NothingInvented
<1> QED
  BY SInvariance, SInvShows, PTL

(* With every reading taken, a movement that two readings in a row saw is    *)
(* shown, in a bit of about its age, until it is older than the long array.  *)
THEOREM LastingIsKept == Spec => []LastingMovementKept
<1> QED
  BY SInvariance, SInvShows, PTL

--------------------------------------------------------------------------------
(* The way to the receiver.                                                  *)

Heard == {NotHeard} \cup Byte
ToldType ==
  /\ what \in 0..2
  /\ receiver \in [Protocols -> [0..2 -> Heard]]
  /\ sent \in [values : [Protocols -> [0..2 -> Heard]], moved : BOOLEAN, updates : 0..3]

(* A receiver of a cycling protocol knows what was sent, and each update     *)
(* since it started adds the next of the three kinds.                        *)
ToldInv ==
  \A p \in Protocols : Cycles(p) =>
    /\ receiver[p] = sent.values[p]
    /\ sent.updates >= 1 => receiver[p][what] # NotHeard
    /\ sent.updates >= 2 => receiver[p][(what + 2) % 3] # NotHeard
    /\ sent.updates = 3 => \A k \in 0..2 : receiver[p][k] # NotHeard

LEMMA NothingToSum == Summary(Tracker.history) = 0
<1>1. Tracker.history = NoMovement
  BY DEF Tracker
<1>2. SummaryBits(NoMovement) = {}
  <2> SUFFICES ASSUME NEW b \in 1..(Len(Edges) - 1), NEW k \in Edges[b]..(Edges[b + 1] - 1)
               PROVE  ~NoMovement.slots[k]
    BY DEF SummaryBits
  <2>1. k \in 0..(Slots - 1)
    BY SlotOfBit
  <2> QED BY <2>1 DEF NoMovement
<1>3. MapThenSumSet(LAMBDA b : 2 ^ (b - 1), {}) = 0
  BY Zenon DEF MapThenSumSet, MapThenFoldSet
<1> QED
  BY <1>1, <1>2, <1>3 DEF Summary

(* Whatever kind of value is due, the receiver reads what the beacon means.  *)
LEMMA UpdateUnderstood ==
  ASSUME NEW p \in Protocols, Cycles(p), NEW k \in 0..2, NEW v \in Voltages, NEW n,
         NEW in, in = [voltage |-> v, changes |-> n, what |-> k,
                       movement |-> Summary(Tracker.history),
                       temperature |-> Tracker.temperature]
  PROVE  LET byte == StatusByte(p, Unpacked(flags).mode[p], Unpacked(flags).base[p], in)
         IN  /\ Decoded(byte).what = k /\ Decoded(byte).value = ValueOf(in)
             /\ ValueOf(in) \in Byte
<1>1. /\ in.what \in 0..2 /\ in.voltage \in 0..6399 /\ in.movement \in 0..127
      /\ in.temperature \in Int /\ in.what = k
  BY NothingToSum, VoltagesAssumption DEF Tracker
<1>2. /\ CycledByte(in) \in Byte
      /\ Decoded(CycledByte(in)) = [what |-> in.what, value |-> ValueOf(in)]
  <2>1. CycledByte(in) \in Byte /\ Decoded(CycledByte(in)) = Meant(in)
    <3>1. Measured(in)
      BY <1>1 DEF Measured
    <3> QED BY <3>1, CycledByteOf, Zenon
  <2> QED BY <2>1, Zenon DEF Meant, ValueOf
<1>3. ValueOf(in) \in Byte
  <2>1. in.voltage \div 100 \in 0..63
    BY <1>1, TenthsOfVolts
  <2>2. Degrees(in.temperature) \in 0..63
    BY <1>1, DegreesBounded
  <2> QED BY <1>1, <2>1, <2>2 DEF ValueOf, Byte
<1>4. \A mode, base : mode = Cycling \/ (p = "fmdn" /\ mode = Voltage) =>
        StatusByte(p, mode, base, in) = CycledByte(in)
  BY DEF StatusByte, Cycling, Voltage, Fixed, Incrementing, BatteryLevel
<1>5. StatusByte(p, Unpacked(flags).mode[p], Unpacked(flags).base[p], in) = CycledByte(in)
  BY <1>4 DEF Cycles
<1> QED
  BY <1>1, <1>2, <1>3, <1>5

LEMMA UpdateTold ==
  ASSUME ToldType, ToldInv, UpdateStatus
  PROVE  ToldType' /\ ToldInv'
<1>1. PICK v \in Voltages, n \in Changes :
        LET in == [voltage |-> v, changes |-> n, what |-> NextWhat,
                   movement |-> Summary(Tracker.history), temperature |-> Tracker.temperature]
            byte(p) == StatusByte(p, Unpacked(flags).mode[p], Unpacked(flags).base[p], in)
        IN /\ what' = NextWhat
           /\ receiver' = [p \in Protocols |->
                Told(receiver[p], p, Decoded(byte(p)).what, Decoded(byte(p)).value)]
           /\ sent' = [values |-> [p \in Protocols |-> Told(sent.values[p], p, in.what, ValueOf(in))],
                       moved |-> IF in.what = 1 THEN SummaryBits(moves) # {} ELSE sent.moved,
                       updates |-> Atmost(sent.updates + 1, 3)]
           /\ UNCHANGED <<sensor, flags>>
  BY DEF UpdateStatus
<1> DEFINE in == [voltage |-> v, changes |-> n, what |-> NextWhat,
                  movement |-> Summary(Tracker.history), temperature |-> Tracker.temperature]
           byte(p) == StatusByte(p, Unpacked(flags).mode[p], Unpacked(flags).base[p], in)
           value == ValueOf(in)
           values == [p \in Protocols |-> Told(sent.values[p], p, in.what, value)]
           moved == IF in.what = 1 THEN SummaryBits(moves) # {} ELSE sent.moved
<1>2. NextWhat \in 0..2 /\ in.what = NextWhat /\ what \in 0..2
  BY DEF ToldType, NextWhat
<1>3. \A p \in Protocols : Cycles(p) =>
        Decoded(byte(p)).what = NextWhat /\ Decoded(byte(p)).value = value /\ value \in Byte
  BY <1>2, UpdateUnderstood
<1>4. /\ what' = NextWhat /\ UNCHANGED flags
      /\ receiver' = [p \in Protocols |->
           Told(receiver[p], p, Decoded(byte(p)).what, Decoded(byte(p)).value)]
      /\ sent' = [values |-> values, moved |-> moved, updates |-> Atmost(sent.updates + 1, 3)]
  BY <1>1
<1>5. \A p \in Protocols : Cycles(p)' <=> Cycles(p)
  BY <1>4 DEF Cycles
<1>6. /\ receiver \in [Protocols -> [0..2 -> Heard]]
      /\ sent.values \in [Protocols -> [0..2 -> Heard]] /\ sent.moved \in BOOLEAN
      /\ sent.updates \in 0..3
  BY DEF ToldType
<1> HIDE DEF in, byte, value
<1>7. \A p \in Protocols :
        /\ Cycles(p) => /\ receiver'[p] = [receiver[p] EXCEPT ![NextWhat] = value]
                        /\ values[p] = [sent.values[p] EXCEPT ![NextWhat] = value]
        /\ ~Cycles(p) => receiver'[p] = receiver[p] /\ values[p] = sent.values[p]
  BY <1>2, <1>3, <1>4 DEF Told
<1>8. \A p \in Protocols :
        receiver'[p] \in [0..2 -> Heard] /\ values[p] \in [0..2 -> Heard]
  <2> TAKE p \in Protocols
  <2> HIDE DEF values
  <2>1. receiver[p] \in [0..2 -> Heard] /\ sent.values[p] \in [0..2 -> Heard]
    BY <1>6
  <2>2. CASE Cycles(p)
    <3>1. value \in Heard
      BY <1>3, <2>2 DEF Heard
    <3>2. \A f \in [0..2 -> Heard] : [f EXCEPT ![NextWhat] = value] \in [0..2 -> Heard]
      BY <1>2, <3>1
    <3>3. /\ receiver'[p] = [receiver[p] EXCEPT ![NextWhat] = value]
          /\ values[p] = [sent.values[p] EXCEPT ![NextWhat] = value]
      BY <1>7, <2>2
    <3> QED BY <2>1, <3>2, <3>3
  <2>3. CASE ~Cycles(p)
    BY <1>7, <2>1, <2>3
  <2> QED BY <2>2, <2>3
<1>9. moved \in BOOLEAN
  BY <1>6
<1>10. Atmost(sent.updates + 1, 3) \in 0..3
       /\ \A j \in 1..3 : Atmost(sent.updates + 1, 3) >= j => sent.updates >= j - 1
  BY <1>6 DEF Atmost
<1>11. receiver' \in [Protocols -> [0..2 -> Heard]] /\ values \in [Protocols -> [0..2 -> Heard]]
  BY <1>4, <1>8
<1> HIDE DEF values, moved
<1>12. ToldType'
  BY <1>2, <1>4, <1>9, <1>10, <1>11 DEF ToldType
<1>13. ASSUME NEW p \in Protocols, Cycles(p)
       PROVE  /\ receiver'[p] = sent'.values[p]
              /\ sent'.updates >= 1 => receiver'[p][what'] # NotHeard
              /\ sent'.updates >= 2 => receiver'[p][(what' + 2) % 3] # NotHeard
              /\ sent'.updates = 3 => \A k \in 0..2 : receiver'[p][k] # NotHeard
  <2>1. receiver[p] = sent.values[p] /\ receiver[p] \in [0..2 -> Heard]
    BY <1>6, <1>13 DEF ToldInv
  <2>2. receiver'[p] = sent'.values[p]
    <3>1. sent'.values = values
      BY <1>4
    <3>2. /\ receiver'[p] = [receiver[p] EXCEPT ![NextWhat] = value]
          /\ values[p] = [sent.values[p] EXCEPT ![NextWhat] = value]
      BY <1>7, <1>13
    <3> QED BY <2>1, <3>1, <3>2
  <2>3. /\ receiver'[p][NextWhat] = value /\ value # NotHeard
        /\ \A k \in 0..2 : k # NextWhat => receiver'[p][k] = receiver[p][k]
    <3>1. value # NotHeard
      BY <1>3, <1>13 DEF NotHeard, Byte
    <3>2. receiver'[p] = [receiver[p] EXCEPT ![NextWhat] = value]
      BY <1>7, <1>13
    <3> QED BY <1>2, <2>1, <3>1, <3>2
  <2>4. /\ (NextWhat + 2) % 3 = what /\ what # NextWhat
        /\ (NextWhat + 1) % 3 = (what + 2) % 3 /\ (what + 2) % 3 # NextWhat
        /\ (what + 2) % 3 \in 0..2
        /\ \A k \in 0..2 : k \in {NextWhat, what, (what + 2) % 3}
    BY <1>2 DEF NextWhat
  <2>5. sent'.updates = Atmost(sent.updates + 1, 3)
    BY <1>4
  <2>6. sent'.updates >= 2 => receiver'[p][what] # NotHeard
    <3>1. sent'.updates >= 2 => sent.updates >= 1
      BY <1>10, <2>5
    <3> QED BY <1>2, <1>13, <2>3, <2>4, <3>1 DEF ToldInv
  <2>7. sent'.updates = 3 => receiver'[p][(what + 2) % 3] # NotHeard
    <3>1. sent'.updates = 3 => sent.updates >= 2
      BY <1>10, <2>5
    <3> QED BY <1>2, <1>13, <2>3, <2>4, <3>1 DEF ToldInv
  <2>8. sent'.updates \in 0..3
    BY <1>10, <2>5
  <2>9. receiver'[p][what'] # NotHeard
    BY <1>4, <2>3
  <2>10. (what' + 2) % 3 = what
    BY <1>4, <2>4
  <2>11. sent'.updates = 3 => \A k \in 0..2 : receiver'[p][k] # NotHeard
    <3>1. sent'.updates = 3 => sent'.updates >= 2
      BY <2>8
    <3> QED BY <2>3, <2>4, <2>6, <2>7, <3>1
  <2> QED BY <2>2, <2>6, <2>9, <2>10, <2>11
<1>14. ToldInv'
  BY <1>5, <1>13 DEF ToldInv
<1> QED
  BY <1>12, <1>14

LEMMA StartOver ==
  ASSUME receiver = NothingHeard, sent = NothingSent, what \in 0..2
  PROVE  ToldType /\ ToldInv
<1>1. NothingHeard \in [Protocols -> [0..2 -> Heard]]
  BY DEF NothingHeard, Heard
<1>2. ToldType
  BY <1>1 DEF ToldType, NothingSent
<1> QED
  BY <1>2 DEF ToldInv, NothingSent

LEMMA ToldInvariance == Spec => [](ToldType /\ ToldInv)
<1>1. Init => ToldType /\ ToldInv
  BY StartOver DEF Init
<1>2. ToldType /\ ToldInv /\ [Next]_vars => (ToldType /\ ToldInv)'
  <2> SUFFICES ASSUME ToldType, ToldInv, [Next]_vars PROVE ToldType' /\ ToldInv'
    OBVIOUS
  <2>1. CASE UpdateStatus
    BY <2>1, UpdateTold
  <2>2. CASE SetStatus
    <3>1. /\ receiver' = NothingHeard /\ sent' = NothingSent /\ what' \in 0..2
      BY <2>2 DEF SetStatus, ToldType
    <3>2. NothingHeard \in [Protocols -> [0..2 -> Heard]]
      BY DEF NothingHeard, Heard
    <3>3. ToldType'
      BY <3>1, <3>2 DEF ToldType, NothingSent
    <3> QED BY <3>1, <3>3 DEF ToldInv, NothingSent
  <2>3. CASE Accelerometer \/ SetThreshold \/ UNCHANGED vars
    <3>1. UNCHANGED <<flags, what, receiver, sent>>
      BY <2>3 DEF Accelerometer, NotDue, Read, ReadFailed, SetThreshold, vars, status
    <3> QED BY <3>1 DEF ToldType, ToldInv, Cycles
  <2> QED BY <2>1, <2>2, <2>3 DEF Next
<1> QED
  BY <1>1, <1>2, PTL DEF Spec

(* In the cycling modes, for every battery voltage a board can measure, a    *)
(* receiver takes every status byte for the kind of value it is, and three   *)
(* updates after a change of status_flags it has one value of each kind.     *)
THEOREM CycleUnderstood == Spec => []ReceiverUnderstands
<1>1. ToldType /\ ToldInv => ReceiverUnderstands
  BY DEF ToldInv, ReceiverUnderstands
<1> QED
  BY ToldInvariance, <1>1, PTL

(* The variables keep their types: the arrays their length, the timers their *)
(* bounds, and what is received fits a byte.                                 *)
THEOREM TypeCorrect == Spec => []TypeOK
<1> DEFINE Timers == /\ on \in BOOLEAN /\ stale \in BOOLEAN /\ flags \in Flags
                     /\ sinceShift \in 0..(SlotSeconds + 1)
<1>1. Init => Timers
  <2>1. Init => sinceShift \in 0..(SlotSeconds + 1)
    BY Steps DEF Init
  <2>2. Init => on \in BOOLEAN /\ stale \in BOOLEAN /\ flags \in Flags
    BY Zenon DEF Init
  <2> QED BY <2>1, <2>2
<1>2. Timers /\ [Next]_vars => Timers'
  <2> SUFFICES ASSUME Timers, [Next]_vars PROVE Timers'
    OBVIOUS
  <2>1. CASE Accelerometer
    <3>1. PICK d \in 1..MaxLook : NotDue(d) \/ ReadFailed(d) \/ \E n \in 0..2 : Read(d, n)
      BY <2>1 DEF Accelerometer
    <3>2. d \in Nat /\ SlotSeconds \in Nat
      BY Lengths, Steps
    <3>3. on' \in BOOLEAN /\ flags' \in Flags
      BY <3>1 DEF NotDue, ReadFailed, Read, status
    <3>4. stale' \in BOOLEAN
      BY <3>1 DEF NotDue, ReadFailed, Read
    <3>5. sinceShift' \in 0..(SlotSeconds + 1)
      BY <3>1, <3>2 DEF NotDue, ReadFailed, Read, ShiftAfter, Atmost
    <3> QED BY <3>3, <3>4, <3>5
  <2>2. CASE SetThreshold \/ UpdateStatus \/ SetStatus \/ UNCHANGED vars
    BY <2>2 DEF SetThreshold, UpdateStatus, SetStatus, vars, sensor, status
  <2> QED BY <2>1, <2>2 DEF Next
<1>3. Spec => []Timers
  BY <1>1, <1>2, PTL DEF Spec
<1>4. SInv /\ ToldType /\ ToldInv /\ Timers => TypeOK
  BY DEF SInv, MInv, ArraysType, Last, ToldType, Heard, TypeOK
<1> QED
  BY SInvariance, ToldInvariance, <1>3, <1>4, PTL

================================================================================
