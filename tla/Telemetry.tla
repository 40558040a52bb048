------------------------------- MODULE Telemetry -------------------------------
(****************************************************************************)
(* What the beacon puts into its advertisements (beacon_logic.cpp): the      *)
(* status byte, and an AirTag key split between address and payload; and how *)
(* a receiver reads both.                                                    *)
(****************************************************************************)
EXTENDS Integers, FiniteSets

(* StatusMode; the other values of the four bits act as Off *)
Fixed == 1
Incrementing == 2
Voltage == 3
BatteryLevel == 4
Cycling == 5  \* StatusMode::Telemetry

(* StatusFlags::unpack() *)
Unpacked(flags) ==
  [base |-> [airtag |-> flags % 256, fmdn |-> (flags \div 256) % 256],
   mode |-> [airtag |-> (flags \div 65536) % 16, fmdn |-> (flags \div 1048576) % 16]]

\* Or of two two-bit numbers
Or2(a, b) == IF {a, b} = {1, 2} THEN 3 ELSE IF a > b THEN a ELSE b

\* How full the battery is: 0 full, 1 normal, 2 low, 3 critical; FMDN has 0 for unknown
Level(protocol, mv) ==
  IF protocol = "airtag" THEN Cardinality({t \in {4000, 3700, 3300} : mv <= t})
  ELSE IF mv = 0 THEN 0
  ELSE 1 + Cardinality({t \in {3700, 3300} : mv <= t})

WithLevel(protocol, base, level) ==
  IF protocol = "airtag" THEN Or2(base \div 64, level) * 64 + (base % 64)
  ELSE (base \div 128) * 128 + Or2((base \div 32) % 4, level) * 32 + (base % 32)

\* Division in C rounds to zero
Quotient(a, b) == IF a < 0 THEN -((-a) \div b) ELSE a \div b

(* tenths of a degree to six bits, from -10 degrees *)
Degrees(tenths) ==
  LET t == Quotient(tenths + 5, 10) + 10 IN IF t < 0 THEN 0 ELSE IF t > 63 THEN 63 ELSE t

VoltageByte(mv) == (mv \div 100) % 256

MovementUnmarked(in) ==  \* mutant: the movement has the mark of the temperature
  CASE in.what = 0 -> VoltageByte(in.voltage)
    [] in.what = 1 -> (64 + in.movement) % 256
    [] OTHER -> 64 + Degrees(in.temperature)
CycledByte(in) ==
  CASE in.what = 0 -> VoltageByte(in.voltage)
    [] in.what = 1 -> 128 + in.movement
    [] OTHER -> 64 + Degrees(in.temperature)

(* compute_one_status() *)
StatusByte(protocol, mode, base, in) ==
  CASE mode = Fixed -> base
    [] mode = Incrementing -> in.changes % 256
    [] mode = Voltage /\ protocol = "airtag" -> VoltageByte(in.voltage)
    [] mode \in {Voltage, Cycling} -> CycledByte(in)
    [] mode = BatteryLevel -> WithLevel(protocol, base, Level(protocol, in.voltage))
    [] OTHER -> base

(* A receiver tells the three values by the top bits. *)
Decoded(byte) ==
  IF byte >= 128 THEN [what |-> 1, value |-> byte - 128]
  ELSE IF byte >= 64 THEN [what |-> 2, value |-> byte - 64]
  ELSE [what |-> 0, value |-> byte]

--------------------------------------------------------------------------------
Byte == 0..255
Key == [0..27 -> Byte]

(* derive_mac_from_key(): the first six bytes of the key, reversed, the      *)
(* first with the bits of a random static address.                           *)
MacOf(key) == [i \in 0..5 |-> IF i = 5 THEN 192 + (key[0] % 64) ELSE key[5 - i]]

(* fill_adv_template(): the other bytes, and the two bits the address hides. *)
PayloadOf(key) == [i \in 0..22 |-> IF i = 22 THEN key[0] \div 64 ELSE key[i + 6]]

(* A receiver puts the key together again. *)
KeyOf(mac, payload) ==
  [i \in 0..27 |-> IF i = 0 THEN (mac[5] % 64) + 64 * payload[22]
                   ELSE IF i < 6 THEN mac[5 - i] ELSE payload[i - 6]]

================================================================================
