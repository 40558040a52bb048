---------------------------- MODULE Telemetry_proofs ----------------------------
(* What the encodings of Telemetry promise, for every input.                 *)
EXTENDS Telemetry, TLAPS

(* The address of every key is a random static one: its two top bits are set.*)
THEOREM AddressIsStatic ==
  \A key \in Key : MacOf(key) \in [0..5 -> Byte] /\ MacOf(key)[5] >= 192
<1> SUFFICES ASSUME NEW key \in Key
             PROVE  MacOf(key) \in [0..5 -> Byte] /\ MacOf(key)[5] >= 192
  OBVIOUS
<1>1. \A i \in 0..27 : key[i] \in 0..255
  BY DEF Key, Byte
<1>2. key[0] % 64 \in 0..63
  BY <1>1
<1> QED
  BY <1>1, <1>2 DEF MacOf, Byte

(* No key is lost between derive_mac_from_key() and fill_adv_template(): a   *)
(* receiver that joins address and payload has the key the owner uploaded,   *)
(* the two bits too that the address type took.                              *)
THEOREM KeyRecovered ==
  \A key \in Key : KeyOf(MacOf(key), PayloadOf(key)) = key
<1> SUFFICES ASSUME NEW key \in Key
             PROVE  KeyOf(MacOf(key), PayloadOf(key)) = key
  OBVIOUS
<1> DEFINE K == KeyOf(MacOf(key), PayloadOf(key))
<1>1. \A i \in 0..27 : key[i] \in 0..255
  BY DEF Key, Byte
<1>2. K[0] = key[0]
  <2>1. (192 + (key[0] % 64)) % 64 = key[0] % 64
    BY <1>1
  <2>2. (key[0] % 64) + 64 * (key[0] \div 64) = key[0]
    BY <1>1
  <2> QED BY <2>1, <2>2 DEF KeyOf, MacOf, PayloadOf
<1>3. \A i \in 1..5 : K[i] = key[i]
  BY <1>1 DEF KeyOf, MacOf
<1>4. \A i \in 6..27 : K[i] = key[i]
  <2>1. \A i \in 6..27 : K[i] = PayloadOf(key)[i - 6]
    BY DEF KeyOf
  <2>2. \A j \in 0..22 : j # 22 => PayloadOf(key)[j] = key[j + 6]
    BY DEF PayloadOf
  <2>3. \A i \in 6..27 : i - 6 \in 0..22 /\ i - 6 # 22 /\ (i - 6) + 6 = i
    OBVIOUS
  <2> HIDE DEF K
  <2> QED BY <2>1, <2>2, <2>3
<1>5. \A i \in 0..27 : K[i] = key[i]
  BY <1>2, <1>3, <1>4
<1>6. K = [i \in 0..27 |-> K[i]] /\ key = [i \in 0..27 |-> key[i]]
  BY DEF KeyOf, Key
<1> QED
  BY <1>5, <1>6

LEMMA DegreesBounded ==
  \A tenths \in Int : Degrees(tenths) \in 0..63
<1> SUFFICES ASSUME NEW tenths \in Int
             PROVE  Degrees(tenths) \in 0..63
  OBVIOUS
<1>1. Quotient(tenths + 5, 10) \in Int
  BY DEF Quotient
<1> DEFINE t == Quotient(tenths + 5, 10) + 10
<1> HIDE DEF t
<1>2. t \in Int
  BY <1>1 DEF t
<1>3. Degrees(tenths) = IF t < 0 THEN 0 ELSE IF t > 63 THEN 63 ELSE t
  BY DEF Degrees, t
<1> QED
  BY <1>2, <1>3

LEMMA TenthsOfVolts ==
  ASSUME NEW mv, mv \in 0..6399
  PROVE  mv \div 100 \in 0..63
<1>1. mv \in Int /\ 0 <= mv /\ mv <= 6399
  OBVIOUS
<1>2. mv \div 100 \in Int
  BY <1>1
<1>3. 0 <= mv \div 100 /\ mv \div 100 <= 63
  BY <1>1
<1> QED
  BY <1>2, <1>3

(* The marks keep the three kinds apart.                                     *)
LEMMA Marks ==
  /\ \A v \in 0..63 : v \in Byte /\ Decoded(v) = [what |-> 0, value |-> v]
  /\ \A m \in 0..127 : 128 + m \in Byte /\ Decoded(128 + m) = [what |-> 1, value |-> m]
  /\ \A d \in 0..63 : 64 + d \in Byte /\ Decoded(64 + d) = [what |-> 2, value |-> d]
<1>1. ASSUME NEW v \in 0..63
      PROVE  v \in Byte /\ Decoded(v) = [what |-> 0, value |-> v]
  BY DEF Byte, Decoded
<1>2. ASSUME NEW m \in 0..127
      PROVE  128 + m \in Byte /\ Decoded(128 + m) = [what |-> 1, value |-> m]
  <2>1. 128 + m >= 128 /\ (128 + m) - 128 = m
    OBVIOUS
  <2> QED BY <2>1 DEF Byte, Decoded
<1>3. ASSUME NEW d \in 0..63
      PROVE  64 + d \in Byte /\ Decoded(64 + d) = [what |-> 2, value |-> d]
  <2>1. ~(64 + d >= 128) /\ 64 + d >= 64 /\ (64 + d) - 64 = d
    OBVIOUS
  <2> QED BY <2>1 DEF Byte, Decoded
<1> QED
  BY <1>1, <1>2, <1>3

(* What the beacon can measure, and what a cycled byte of it is to say.      *)
Measured(in) ==
  /\ in.what \in 0..2 /\ in.voltage \in 0..6399 /\ in.movement \in 0..127
  /\ in.temperature \in Int
Meant(in) ==
  [what |-> in.what, value |-> CASE in.what = 0 -> in.voltage \div 100
                                 [] in.what = 1 -> in.movement
                                 [] OTHER -> Degrees(in.temperature)]

LEMMA CycledByteOf ==
  ASSUME NEW in, Measured(in)
  PROVE  CycledByte(in) \in Byte /\ Decoded(CycledByte(in)) = Meant(in)
<1>1. in.what \in 0..2 /\ in.movement \in 0..127 /\ Degrees(in.temperature) \in 0..63
  BY DegreesBounded DEF Measured
<1>2. /\ VoltageByte(in.voltage) = in.voltage \div 100
      /\ in.voltage \div 100 \in 0..63
  <2>1. in.voltage \div 100 \in 0..63
    BY TenthsOfVolts DEF Measured
  <2>2. \A n \in 0..63 : n % 256 = n
    OBVIOUS
  <2> QED BY <2>1, <2>2 DEF VoltageByte
<1>3. CASE in.what = 0
  <2>1. /\ CycledByte(in) = in.voltage \div 100
        /\ Meant(in) = [what |-> 0, value |-> in.voltage \div 100]
    BY <1>2, <1>3 DEF CycledByte, Meant
  <2> QED BY <1>2, <2>1, Marks
<1>4. CASE in.what = 1
  <2>1. /\ CycledByte(in) = 128 + in.movement
        /\ Meant(in) = [what |-> 1, value |-> in.movement]
    BY <1>4 DEF CycledByte, Meant
  <2> QED BY <1>1, <2>1, Marks
<1>5. CASE in.what = 2
  <2>1. /\ CycledByte(in) = 64 + Degrees(in.temperature)
        /\ Meant(in) = [what |-> 2, value |-> Degrees(in.temperature)]
    BY <1>5 DEF CycledByte, Meant
  <2> QED BY <1>1, <2>1, Marks
<1> QED
  BY <1>1, <1>3, <1>4, <1>5

(* A receiver takes every cycled byte for what it is, whatever the battery,  *)
(* the movement and the temperature.                                         *)
THEOREM CycledByteUnderstood ==
  \A what \in 0..2, voltage \in 0..6399, movement \in 0..127, temperature \in Int :
    LET in == [what |-> what, voltage |-> voltage, movement |-> movement,
               temperature |-> temperature]
    IN /\ CycledByte(in) \in Byte
       /\ Decoded(CycledByte(in)) =
            [what |-> what, value |-> CASE what = 0 -> voltage \div 100
                                        [] what = 1 -> movement
                                        [] OTHER -> Degrees(temperature)]
<1> SUFFICES ASSUME NEW what \in 0..2, NEW voltage \in 0..6399, NEW movement \in 0..127,
                    NEW temperature \in Int
             PROVE  LET in == [what |-> what, voltage |-> voltage, movement |-> movement,
                               temperature |-> temperature]
                    IN /\ CycledByte(in) \in Byte
                       /\ Decoded(CycledByte(in)) =
                            [what |-> what, value |-> CASE what = 0 -> voltage \div 100
                                                        [] what = 1 -> movement
                                                        [] OTHER -> Degrees(temperature)]
  OBVIOUS
<1> DEFINE in == [what |-> what, voltage |-> voltage, movement |-> movement,
                  temperature |-> temperature]
<1>1. /\ in.what = what /\ in.voltage = voltage /\ in.movement = movement
      /\ in.temperature = temperature
  OBVIOUS
<1>2. Measured(in)
  BY <1>1 DEF Measured
<1>3. CycledByte(in) \in Byte /\ Decoded(CycledByte(in)) = Meant(in)
  <2> HIDE DEF in
  <2> QED BY <1>2, CycledByteOf
<1> QED
  BY <1>1, <1>3 DEF Meant

================================================================================
