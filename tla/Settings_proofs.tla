----------------------------- MODULE Settings_proofs -----------------------------
(****************************************************************************)
(* No setting is ever out of range, a reset finds the settings the beacon    *)
(* was running with, and the ring that was last uploaded whole: whatever     *)
(* clients send, in whatever order, with any number of crashes, failing      *)
(* writes and failing mounts.                                                *)
(****************************************************************************)
EXTENDS Settings, SequenceTheorems, WellFoundedInduction, TLAPS

Writes ==
  [op : {"auth", "newauth"}, code : Codes] \cup [op : {"key"}, half : HalfKey]
  \cup [op : {"set"}, field : FieldNames \ {"turnedOn"}, value : Int]

ConfType == conf \in [FieldNames -> Int] /\ InRange
FlashType == flash \in [field : [FieldNames -> Int \cup {Absent}], keys : KeyArray]
KeysType == keys \in KeyArray /\ keysReceived \in 0..(2 * MaxKeys)
TodoType == todo \in Seq(Writes)

IInv ==
  /\ ConfType /\ FlashType /\ KeysType /\ TodoType
  /\ unsaved \subseteq FieldNames
  /\ SettingsSurviveReset

--------------------------------------------------------------------------------
(* Lemmas about the setters: what they make of a value is in range, and      *)
(* applying it again, as load() does, changes nothing.                       *)

LEMMA Bounds == MaxInterval \in Nat /\ MaxThreshold \in Nat
  BY SMT DEF MaxInterval, MaxThreshold

LEMMA Defaults ==
  /\ DefaultInterval \in Nat /\ DefaultInterval >= 32 /\ DefaultInterval <= MaxInterval
  /\ DefaultInterval % 8 = 0
  /\ DefaultThreshold \in Nat /\ DefaultThreshold <= MaxThreshold
  /\ DefaultStatus \in Nat
  BY SMT DEF DefaultInterval, DefaultThreshold, DefaultStatus, MaxInterval, MaxThreshold

LEMMA Narrow == \A v \in Int : Byte(v) \in Nat /\ Word(v) \in Nat
  BY SMT DEF Byte, Word

LEMMA NarrowSmall ==
  ASSUME NEW v \in Nat
  PROVE  /\ v <= 8 => Byte(v) = v
         /\ v <= MaxInterval => Word(v) = v
         /\ v <= MaxThreshold => Word(v) = v
<1>1. v <= 8 => Byte(v) = v
  BY SMT DEF Byte
<1>2. v <= MaxInterval => Word(v) = v
  BY SMT DEF Word, MaxInterval
<1>3. v <= MaxThreshold => Word(v) = v
  BY SMT DEF Word, MaxThreshold
<1> QED BY <1>1, <1>2, <1>3

LEMMA AlignedBelow ==
  ASSUME NEW w \in Nat
  PROVE  Aligned(w) \in Nat /\ Aligned(w) <= w /\ Aligned(w) % 8 = 0
  BY SMT DEF Aligned

LEMMA OfFlag ==
  ASSUME NEW f, f \in {"fmdn", "airtag", "turnedOn"}
  PROVE  /\ Valid[f] = {0, 1}
         /\ \A old, v : Applied(f, old, v) = Truth(v)
<1>1. CASE f = "fmdn"
  <2>1. Valid[f] = {0, 1}
    BY <1>1 DEF Valid, FieldNames
  <2>2. \A old, v : Applied(f, old, v) = Truth(v)
    BY <1>1 DEF Applied
  <2> QED BY <2>1, <2>2
<1>2. CASE f = "airtag"
  <2>1. Valid[f] = {0, 1}
    BY <1>2 DEF Valid, FieldNames
  <2>2. \A old, v : Applied(f, old, v) = Truth(v)
    BY <1>2 DEF Applied
  <2> QED BY <2>1, <2>2
<1>3. CASE f = "turnedOn"
  <2>1. Valid[f] = {0, 1}
    BY <1>3 DEF Valid, FieldNames
  <2>2. \A old, v : Applied(f, old, v) = Truth(v)
    BY <1>3 DEF Applied
  <2> QED BY <2>1, <2>2
<1> QED BY <1>1, <1>2, <1>3

LEMMA OfPeriod ==
  ASSUME NEW f, f = "period"
  PROVE  /\ Valid[f] = Periods
         /\ \A old, v : Applied(f, old, v) = IF Byte(v) \in Periods THEN Byte(v) ELSE old
<1>1. Valid[f] = Periods
  BY DEF Valid, FieldNames
<1>2. \A old, v : Applied(f, old, v) = IF Byte(v) \in Periods THEN Byte(v) ELSE old
  BY DEF Applied
<1> QED BY <1>1, <1>2

LEMMA OfInterval ==
  ASSUME NEW f, f = "changeInterval"
  PROVE  /\ Valid[f] = {w \in 32..MaxInterval : w % 8 = 0}
         /\ \A old, v : Applied(f, old, v) =
              IF Aligned(Word(v)) >= 32 /\ Word(v) <= MaxInterval THEN Aligned(Word(v)) ELSE old
<1>1. Valid[f] = {w \in 32..MaxInterval : w % 8 = 0}
  BY DEF Valid, FieldNames
<1>2. \A old, v : Applied(f, old, v) =
              IF Aligned(Word(v)) >= 32 /\ Word(v) <= MaxInterval THEN Aligned(Word(v)) ELSE old
  BY DEF Applied
<1> QED BY <1>1, <1>2

LEMMA OfPower ==
  ASSUME NEW f, f = "power"
  PROVE  /\ Valid[f] = 0..2
         /\ \A old, v : Applied(f, old, v) = IF Byte(v) <= 2 THEN Byte(v) ELSE old
<1>1. Valid[f] = 0..2
  BY DEF Valid, FieldNames
<1>2. \A old, v : Applied(f, old, v) = IF Byte(v) <= 2 THEN Byte(v) ELSE old
  BY DEF Applied
<1> QED BY <1>1, <1>2

LEMMA OfAccel ==
  ASSUME NEW f, f = "accel"
  PROVE  /\ Valid[f] = 0..MaxThreshold
         /\ \A old, v : Applied(f, old, v) = IF Word(v) <= MaxThreshold THEN Word(v) ELSE old
<1>1. Valid[f] = 0..MaxThreshold
  BY DEF Valid, FieldNames
<1>2. \A old, v : Applied(f, old, v) = IF Word(v) <= MaxThreshold THEN Word(v) ELSE old
  BY DEF Applied
<1> QED BY <1>1, <1>2

LEMMA OfData ==
  ASSUME NEW f, f \in {"fmdnKey", "status", "settingsMAC"}
  PROVE  /\ Valid[f] = Int
         /\ \A old, v : Applied(f, old, v) = v
<1>1. CASE f = "fmdnKey"
  <2>1. Valid[f] = Int
    BY <1>1 DEF Valid, FieldNames
  <2>2. \A old, v : Applied(f, old, v) = v
    BY <1>1 DEF Applied
  <2> QED BY <2>1, <2>2
<1>2. CASE f = "status"
  <2>1. Valid[f] = Int
    BY <1>2 DEF Valid, FieldNames
  <2>2. \A old, v : Applied(f, old, v) = v
    BY <1>2 DEF Applied
  <2> QED BY <2>1, <2>2
<1>3. CASE f = "settingsMAC"
  <2>1. Valid[f] = Int
    BY <1>3 DEF Valid, FieldNames
  <2>2. \A old, v : Applied(f, old, v) = v
    BY <1>3 DEF Applied
  <2> QED BY <2>1, <2>2
<1> QED BY <1>1, <1>2, <1>3

LEMMA ValidInt ==
  ASSUME NEW f \in FieldNames
  PROVE  Valid[f] \subseteq Int
<1>1. CASE f \in {"fmdn", "airtag", "turnedOn"}
  BY <1>1, OfFlag
<1>2. CASE f = "period"
  BY <1>2, OfPeriod DEF Periods
<1>3. CASE f = "changeInterval"
  <2>1. Valid[f] = {w \in 32..MaxInterval : w % 8 = 0}
    BY <1>3, OfInterval
  <2> QED BY <2>1, Bounds
<1>4. CASE f = "power"
  BY <1>4, OfPower
<1>5. CASE f = "accel"
  <2>1. Valid[f] = 0..MaxThreshold
    BY <1>5, OfAccel
  <2> QED BY <2>1, Bounds
<1>6. CASE f \in {"fmdnKey", "status", "settingsMAC"}
  BY <1>6, OfData
<1> QED BY <1>1, <1>2, <1>3, <1>4, <1>5, <1>6 DEF FieldNames

LEMMA DefaultValid == \A f \in FieldNames : Default[f] \in Valid[f]
<1> SUFFICES ASSUME NEW f \in FieldNames PROVE Default[f] \in Valid[f]
  OBVIOUS
<1>1. CASE f \in {"fmdn", "airtag", "turnedOn"}
  BY <1>1, OfFlag DEF Default
<1>2. CASE f = "period"
  BY <1>2, OfPeriod DEF Default, Periods
<1>3. CASE f = "changeInterval"
  <2>1. Default[f] = DefaultInterval
    BY <1>3 DEF Default
  <2>2. DefaultInterval \in 32..MaxInterval /\ DefaultInterval % 8 = 0
    BY Defaults, Bounds
  <2> QED BY <1>3, <2>1, <2>2, OfInterval
<1>4. CASE f = "power"
  BY <1>4, OfPower DEF Default
<1>5. CASE f = "accel"
  <2>1. Default[f] = DefaultThreshold
    BY <1>5 DEF Default
  <2>2. DefaultThreshold \in 0..MaxThreshold
    BY Defaults, Bounds
  <2> QED BY <1>5, <2>1, <2>2, OfAccel
<1>6. CASE f \in {"fmdnKey", "status", "settingsMAC"}
  BY <1>6, Defaults, OfData DEF Default
<1> QED BY <1>1, <1>2, <1>3, <1>4, <1>5, <1>6 DEF FieldNames

LEMMA DefaultType == Default \in [FieldNames -> Int]
  BY Defaults DEF Default, FieldNames

LEMMA AppliedValid ==
  ASSUME NEW f \in FieldNames, NEW old \in Valid[f], NEW v \in Int
  PROVE  Applied(f, old, v) \in Valid[f]
<1>1. CASE f \in {"fmdn", "airtag", "turnedOn"}
  <2>1. Valid[f] = {0, 1}
    BY <1>1, OfFlag
  <2>2. Applied(f, old, v) = Truth(v)
    BY <1>1, OfFlag
  <2> QED BY <2>1, <2>2 DEF Truth
<1>2. CASE f = "period"
  <2>1. Valid[f] = Periods
    BY <1>2, OfPeriod
  <2>2. Applied(f, old, v) = IF Byte(v) \in Periods THEN Byte(v) ELSE old
    BY <1>2, OfPeriod
  <2> QED BY <2>1, <2>2
<1>3. CASE f = "changeInterval"
  <2>1. Valid[f] = {w \in 32..MaxInterval : w % 8 = 0}
    BY <1>3, OfInterval
  <2>2. Applied(f, old, v) = IF Aligned(Word(v)) >= 32 /\ Word(v) <= MaxInterval
                              THEN Aligned(Word(v)) ELSE old
    BY <1>3, OfInterval
  <2>3. Word(v) \in Nat
    BY Narrow
  <2>5. Aligned(Word(v)) \in Nat /\ Aligned(Word(v)) <= Word(v) /\ Aligned(Word(v)) % 8 = 0
    BY <2>3, AlignedBelow
  <2>6. CASE Aligned(Word(v)) >= 32 /\ Word(v) <= MaxInterval
    <3>1. Aligned(Word(v)) \in 32..MaxInterval
      BY <2>3, <2>5, <2>6, Bounds
    <3> QED BY <2>1, <2>2, <2>5, <2>6, <3>1
  <2>7. CASE ~(Aligned(Word(v)) >= 32 /\ Word(v) <= MaxInterval)
    BY <2>2, <2>7
  <2> QED BY <2>6, <2>7
<1>4. CASE f = "power"
  <2>1. Valid[f] = 0..2
    BY <1>4, OfPower
  <2>2. Applied(f, old, v) = IF Byte(v) <= 2 THEN Byte(v) ELSE old
    BY <1>4, OfPower
  <2>3. Byte(v) \in Nat
    BY Narrow
  <2> QED BY <2>1, <2>2, <2>3
<1>5. CASE f = "accel"
  <2>1. Valid[f] = 0..MaxThreshold
    BY <1>5, OfAccel
  <2>2. Applied(f, old, v) = IF Word(v) <= MaxThreshold THEN Word(v) ELSE old
    BY <1>5, OfAccel
  <2>3. Word(v) \in Nat
    BY Narrow
  <2> QED BY <2>1, <2>2, <2>3, Bounds
<1>6. CASE f \in {"fmdnKey", "status", "settingsMAC"}
  <2>1. Valid[f] = Int
    BY <1>6, OfData
  <2>2. Applied(f, old, v) = v
    BY <1>6, OfData
  <2> QED BY <2>1, <2>2
<1> QED BY <1>1, <1>2, <1>3, <1>4, <1>5, <1>6 DEF FieldNames

LEMMA AppliedAgain ==
  ASSUME NEW f \in FieldNames, NEW old, NEW v \in Valid[f]
  PROVE  Applied(f, old, v) = v
<1>1. CASE f \in {"fmdn", "airtag", "turnedOn"}
  <2>1. Valid[f] = {0, 1}
    BY <1>1, OfFlag
  <2>2. Applied(f, old, v) = Truth(v)
    BY <1>1, OfFlag
  <2> QED BY <2>1, <2>2 DEF Truth
<1>2. CASE f = "period"
  <2>1. Valid[f] = Periods
    BY <1>2, OfPeriod
  <2>2. Applied(f, old, v) = IF Byte(v) \in Periods THEN Byte(v) ELSE old
    BY <1>2, OfPeriod
  <2>3. Byte(v) = v
    BY <2>1, NarrowSmall DEF Periods
  <2> QED BY <2>1, <2>2, <2>3
<1>3. CASE f = "changeInterval"
  <2>1. Valid[f] = {w \in 32..MaxInterval : w % 8 = 0}
    BY <1>3, OfInterval
  <2>2. Applied(f, old, v) = IF Aligned(Word(v)) >= 32 /\ Word(v) <= MaxInterval
                              THEN Aligned(Word(v)) ELSE old
    BY <1>3, OfInterval
  <2>3. v \in 32..MaxInterval /\ v % 8 = 0
    BY <2>1
  <2>4. v \in Nat /\ v >= 32 /\ v <= MaxInterval /\ Word(v) = v
    BY <2>3, Bounds, NarrowSmall
  <2>5. Aligned(v) = v
    BY <2>3, <2>4 DEF Aligned
  <2>6. Applied(f, old, v) = IF v >= 32 /\ v <= MaxInterval THEN v ELSE old
    BY <2>2, <2>4, <2>5
  <2> QED BY <2>4, <2>6
<1>4. CASE f = "power"
  <2>1. Valid[f] = 0..2
    BY <1>4, OfPower
  <2>2. Applied(f, old, v) = IF Byte(v) <= 2 THEN Byte(v) ELSE old
    BY <1>4, OfPower
  <2>3. v \in Nat /\ v <= 2
    BY <2>1
  <2>4. Byte(v) = v
    BY <2>3, NarrowSmall
  <2> QED BY <2>2, <2>3, <2>4
<1>5. CASE f = "accel"
  <2>1. Valid[f] = 0..MaxThreshold
    BY <1>5, OfAccel
  <2>2. Applied(f, old, v) = IF Word(v) <= MaxThreshold THEN Word(v) ELSE old
    BY <1>5, OfAccel
  <2>3. v \in 0..MaxThreshold
    BY <2>1
  <2>4. Word(v) = v /\ v <= MaxThreshold
    BY <2>3, Bounds, NarrowSmall
  <2> QED BY <2>2, <2>4
<1>6. CASE f \in {"fmdnKey", "status", "settingsMAC"}
  <2>1. Valid[f] = Int
    BY <1>6, OfData
  <2>2. Applied(f, old, v) = v
    BY <1>6, OfData
  <2> QED BY <2>1, <2>2
<1> QED BY <1>1, <1>2, <1>3, <1>4, <1>5, <1>6 DEF FieldNames

LEMMA LoadedValid ==
  ASSUME NEW f \in FieldNames, NEW v \in Int \cup {Absent}
  PROVE  LoadedField(f, v) \in Valid[f]
  BY DefaultValid, AppliedValid DEF LoadedField

LEMMA LoadedAgain ==
  ASSUME NEW f \in FieldNames, NEW v \in Valid[f]
  PROVE  LoadedField(f, v) = v
  BY AppliedAgain, ValidInt, AbsentAssumption DEF LoadedField

--------------------------------------------------------------------------------
(* What a client is yet to write is always made of writes. *)

LEMMA KeyWritesType ==
  ASSUME NEW r \in Seq(Key)
  PROVE  KeyWrites(r) \in Seq(Writes)
<1>1. ASSUME NEW i \in 1..(2 * Len(r)) PROVE HalfOf(r, i) \in HalfKey
  <2>1. Len(r) \in Nat /\ \A n \in 1..Len(r) : r[n] \in Key
    OBVIOUS
  <2>2. CASE i % 2 = 1
    <3>1. (i + 1) \div 2 \in 1..Len(r)
      BY <2>1, <2>2
    <3> QED BY <2>1, <2>2, <3>1 DEF HalfOf, Key, HalfKey
  <2>3. CASE i % 2 # 1
    <3>1. i \div 2 \in 1..Len(r)
      BY <2>1, <2>3
    <3> QED BY <2>1, <2>3, <3>1 DEF HalfOf, Key, HalfKey
  <2> QED BY <2>2, <2>3
<1>2. ASSUME NEW h \in HalfKey PROVE [op |-> "key", half |-> h] \in Writes
  BY DEF Writes
<1>3. Unterminated(r) \in Seq(Writes)
  BY <1>1, <1>2 DEF Unterminated
<1>4. <<[op |-> "key", half |-> Zero], [op |-> "key", half |-> Zero]>> \in Seq(Writes)
  BY <1>2 DEF HalfKey
<1> QED BY <1>3, <1>4 DEF KeyWrites

LEMMA ScriptType ==
  ASSUME NEW j \in Jobs
  PROVE  Script(j) \in Seq(Writes)
<1>1. j \in Job
  BY JobsAssumption
<1>2. <<Auth(j.code)>> \in Seq(Writes)
  BY <1>1 DEF Auth, Job, Writes
<1>3. j.ring # NoRing => KeyWrites(j.ring) \in Seq(Writes)
  BY <1>1, KeyWritesType DEF Job, Ring
<1>4. SettingWrites(j.settings) \in Seq(Writes)
  <2> DEFINE s == j.settings
  <2>1. s \in Seq((FieldNames \ {"turnedOn"}) \X Int)
    BY <1>1 DEF Job
  <2>2. DOMAIN s = 1..Len(s) /\ Len(s) \in Nat
    BY <2>1
  <2>3. ASSUME NEW i \in 1..Len(s)
        PROVE  [op |-> "set", field |-> s[i][1], value |-> s[i][2]] \in Writes
    <3>1. s[i][1] \in FieldNames \ {"turnedOn"} /\ s[i][2] \in Int
      BY <2>1
    <3> QED BY <3>1 DEF Writes
  <2> QED BY <2>2, <2>3 DEF SettingWrites
<1>5. j.newCode # NoCode => <<[op |-> "newauth", code |-> j.newCode]>> \in Seq(Writes)
  BY <1>1 DEF Job, Writes
<1> DEFINE K == IF j.ring = NoRing THEN <<>> ELSE KeyWrites(j.ring)
           N == IF j.newCode = NoCode THEN <<>> ELSE <<[op |-> "newauth", code |-> j.newCode]>>
<1>6. K \in Seq(Writes) /\ N \in Seq(Writes)
  BY <1>3, <1>5
<1>7. <<Auth(j.code)>> \o K \o SettingWrites(j.settings) \o N \in Seq(Writes)
  BY <1>2, <1>4, <1>6
<1> QED BY <1>7 DEF Script

LEMMA HeadType ==
  ASSUME TodoType, todo # <<>>
  PROVE  /\ Head(todo) \in Writes /\ Tail(todo) \in Seq(Writes)
         /\ Head(todo).op = "key" => Head(todo).half \in HalfKey
         /\ Head(todo).op = "set" =>
              Head(todo).field \in FieldNames \ {"turnedOn"} /\ Head(todo).value \in Int
<1>1. Head(todo) \in Writes /\ Tail(todo) \in Seq(Writes)
  BY DEF TodoType
<1> QED BY <1>1 DEF Writes

--------------------------------------------------------------------------------
(* The invariant. *)

LEMMA InitInv == Init => IInv
<1> SUFFICES ASSUME Init PROVE IInv
  OBVIOUS
<1>1. ConfType
  BY DefaultType, DefaultValid DEF Init, ConfType, InRange
<1>2. FlashType /\ KeysType
  <2>1. NoKeys \in KeyArray
    BY DEF NoKeys, KeyArray, ZeroKey, HalfKey
  <2> QED BY <2>1, MaxKeysAssumption DEF Init, FlashType, KeysType
<1>3. TodoType /\ unsaved \subseteq FieldNames
  BY DEF Init, TodoType
<1>4. SettingsSurviveReset
  BY DEF Init, SettingsSurviveReset, LoadedField
<1> QED BY <1>1, <1>2, <1>3, <1>4 DEF IInv

(* A reset: what load() makes of flash is in range, and would be made again. *)
LEMMA StartInv ==
  ASSUME IInv, NEW ok \in BOOLEAN, NEW button \in BOOLEAN, Start(ok, button)
  PROVE  IInv'
<1> DEFINE c == IF ok THEN LoadedConf ELSE Default
<1>1. /\ mounted' = ok
      /\ conf' = IF button THEN [c EXCEPT !.turnedOn = 1] ELSE c
      /\ keys' = IF ok THEN flash.keys ELSE NoKeys
      /\ flash' = IF ok /\ button THEN [flash EXCEPT !.field.turnedOn = 1] ELSE flash
      /\ keysReceived' = 0 /\ unsaved' = {} /\ todo' = <<>>
  BY DEF Start, NoSession
<1>2. /\ flash.field \in [FieldNames -> Int \cup {Absent}] /\ flash.keys \in KeyArray
      /\ flash \in [field : [FieldNames -> Int \cup {Absent}], keys : KeyArray]
  BY DEF IInv, FlashType
<1>3. \A f \in FieldNames : LoadedField(f, flash.field[f]) \in Valid[f]
  BY <1>2, LoadedValid
<1>4. "turnedOn" \in FieldNames /\ 1 \in Valid["turnedOn"]
  BY OfFlag DEF FieldNames
<1>5. c \in [FieldNames -> Int] /\ \A f \in FieldNames : c[f] \in Valid[f]
  <2>1. LoadedConf \in [FieldNames -> Int]
    BY <1>3, ValidInt DEF LoadedConf
  <2>2. \A f \in FieldNames : LoadedConf[f] \in Valid[f]
    BY <1>3 DEF LoadedConf
  <2> QED BY <2>1, <2>2, DefaultType, DefaultValid
<1>6. ConfType'
  BY <1>1, <1>4, <1>5 DEF ConfType, InRange
<1>7. FlashType'
  BY <1>1, <1>2 DEF FlashType
<1>8. KeysType' /\ TodoType' /\ unsaved' \subseteq FieldNames
  <2>1. NoKeys \in KeyArray
    BY DEF NoKeys, KeyArray, ZeroKey, HalfKey
  <2> QED BY <1>1, <1>2, <2>1, MaxKeysAssumption DEF KeysType, TodoType
<1>9. SettingsSurviveReset'
  <2> SUFFICES ASSUME ok, NEW f \in FieldNames PROVE LoadedField(f, flash'.field[f]) = conf'[f]
    BY <1>1 DEF SettingsSurviveReset
  <2>1. c[f] = LoadedField(f, flash.field[f])
    BY DEF LoadedConf
  <2>2. CASE button /\ f = "turnedOn"
    <3>1. flash'.field[f] = 1 /\ conf'[f] = 1
      BY <1>1, <1>2, <1>5, <2>2
    <3> QED BY <1>4, <2>2, <3>1, LoadedAgain
  <2>3. CASE ~(button /\ f = "turnedOn")
    <3>1. flash'.field[f] = flash.field[f] /\ conf'[f] = c[f]
      BY <1>1, <1>2, <1>5, <2>3
    <3> QED BY <2>1, <3>1
  <2> QED BY <2>2, <2>3
<1> QED BY <1>6, <1>7, <1>8, <1>9 DEF IInv

(* A field that is set, and saved if the write works. *)
LEMMA SavedInv ==
  ASSUME IInv, NEW f \in FieldNames, NEW v \in Valid[f],
         conf' = [conf EXCEPT ![f] = v], mounted' = mounted,
         \/ flash' = [flash EXCEPT !.field[f] = v] /\ unsaved' = unsaved \ {f}
         \/ flash' = flash /\ unsaved' = unsaved \cup {f}
  PROVE  ConfType' /\ FlashType' /\ unsaved' \subseteq FieldNames /\ SettingsSurviveReset'
<1>1. v \in Int
  BY ValidInt
<1>2. conf \in [FieldNames -> Int] /\ \A g \in FieldNames : conf[g] \in Valid[g]
  BY DEF IInv, ConfType, InRange
<1>3. flash \in [field : [FieldNames -> Int \cup {Absent}], keys : KeyArray]
  BY DEF IInv, FlashType
<1>4. ConfType'
  BY <1>1, <1>2 DEF ConfType, InRange
<1>5. FlashType'
  BY <1>1, <1>3 DEF FlashType
<1>6. unsaved' \subseteq FieldNames
  BY DEF IInv
<1>7. SettingsSurviveReset'
  <2> SUFFICES ASSUME mounted, NEW g \in FieldNames \ unsaved'
               PROVE  LoadedField(g, flash'.field[g]) = conf'[g]
    BY DEF SettingsSurviveReset
  <2>1. CASE g = f
    <3>1. flash'.field[g] = v /\ conf'[g] = v
      BY <1>2, <1>3, <2>1
    <3> QED BY <2>1, <3>1, LoadedAgain
  <2>2. CASE g # f
    <3>1. flash'.field[g] = flash.field[g] /\ conf'[g] = conf[g] /\ g \notin unsaved
      BY <1>2, <1>3, <2>2
    <3> QED BY <3>1 DEF IInv, SettingsSurviveReset
  <2> QED BY <2>1, <2>2
<1> QED BY <1>4, <1>5, <1>6, <1>7

(* Steps that leave the fields alone. *)
LEMMA FieldsKept ==
  ASSUME IInv, conf' = conf, mounted' = mounted, unsaved' = unsaved,
         flash'.field = flash.field, FlashType', KeysType', TodoType'
  PROVE  IInv'
<1>1. ConfType' /\ unsaved' \subseteq FieldNames
  BY DEF IInv, ConfType, InRange
<1>2. SettingsSurviveReset'
  BY DEF IInv, SettingsSurviveReset
<1> QED BY <1>1, <1>2 DEF IInv

LEMMA HangupType ==
  ASSUME IInv, NEW ok \in BOOLEAN, Hangup(ok), keys' = keys
  PROVE  flash'.field = flash.field /\ FlashType' /\ KeysType' /\ TodoType'
<1>1. flash \in [field : [FieldNames -> Int \cup {Absent}], keys : KeyArray] /\ keys \in KeyArray
  BY DEF IInv, FlashType, KeysType
<1>2. flash' = flash \/ flash' = [flash EXCEPT !.keys = keys]
  BY DEF Hangup
<1>3. keysReceived' = 0 /\ todo' = <<>>
  BY DEF Hangup, NoSession, ForgetUpload
<1> QED BY <1>1, <1>2, <1>3, MaxKeysAssumption DEF FlashType, KeysType, TodoType

LEMMA StepInv == IInv /\ [Next]_vars => IInv'
<1> SUFFICES ASSUME IInv, [Next]_vars PROVE IInv'
  OBVIOUS
<1>1. ASSUME NEW ok \in BOOLEAN, PowerOn(ok) PROVE IInv'
  BY <1>1, StartInv DEF PowerOn
<1>2. ASSUME NEW ok \in BOOLEAN, NEW button \in BOOLEAN, Crash(ok, button) PROVE IInv'
  BY <1>2, StartInv DEF Crash
<1>3. ASSUME NEW ok \in BOOLEAN, CloseWithReset(ok) PROVE IInv'
  BY <1>3, StartInv DEF CloseWithReset
<1>4. ASSUME NEW ok \in BOOLEAN, SwitchOff(ok) PROVE IInv'
  <2>1. "turnedOn" \in FieldNames /\ 0 \in Valid["turnedOn"]
    BY OfFlag DEF FieldNames
  <2>2. /\ conf' = [conf EXCEPT !["turnedOn"] = 0] /\ mounted' = mounted
        /\ \/ flash' = [flash EXCEPT !.field["turnedOn"] = 0] /\ unsaved' = unsaved \ {"turnedOn"}
           \/ flash' = flash /\ unsaved' = unsaved \cup {"turnedOn"}
    BY <1>4 DEF SwitchOff
  <2>3. ConfType' /\ FlashType' /\ unsaved' \subseteq FieldNames /\ SettingsSurviveReset'
    BY <2>1, <2>2, SavedInv
  <2>4. KeysType' /\ TodoType'
    BY <1>4 DEF SwitchOff, IInv, KeysType, TodoType, upload, session
  <2> QED BY <2>3, <2>4 DEF IInv
<1>5. CASE OpenWindow
  BY <1>5, FieldsKept, MaxKeysAssumption
     DEF OpenWindow, ForgetUpload, IInv, FlashType, KeysType, TodoType, config, session
<1>6. ASSUME NEW j \in Jobs, Connect(j) PROVE IInv'
  BY <1>6, FieldsKept, ScriptType DEF Connect, IInv, FlashType, KeysType, TodoType, config, upload
<1>7. ASSUME NEW ok \in BOOLEAN, Disconnect(ok) \/ CloseWindow(ok) PROVE IInv'
  <2>1. Hangup(ok) /\ UNCHANGED <<config, mounted, unsaved>>
    BY <1>7 DEF Disconnect, CloseWindow
  <2> QED BY <2>1, FieldsKept, HangupType DEF config
<1>8. CASE WriteAuth
  BY <1>8, FieldsKept, HeadType
     DEF WriteAuth, Write, Done, IInv, FlashType, KeysType, TodoType, config, upload
<1>9. CASE Refused
  <2>1. todo # <<>> /\ (todo' = Tail(todo) \/ todo' = <<>>)
    BY <1>9 DEF Refused, Write, Done, Abort
  <2>2. Tail(todo) \in Seq(Writes)
    BY <2>1, HeadType DEF IInv
  <2>3. <<>> \in Seq(Writes)
    OBVIOUS
  <2>4. TodoType'
    BY <2>1, <2>2, <2>3 DEF TodoType
  <2> QED BY <1>9, <2>4, FieldsKept DEF Refused, IInv, FlashType, KeysType, config, upload
<1>10. CASE WriteKey
  <2>1. /\ Head(todo).half \in HalfKey /\ TodoType'
    BY <1>10, HeadType DEF WriteKey, Write, Done, IInv, TodoType
  <2>2. KeyAt \in KeyIndex
    BY <1>10, MaxKeysAssumption DEF WriteKey, KeyAt, KeyIndex, IInv, KeysType
  <2>3. keys' \in KeyArray
    BY <1>10, <2>1, <2>2 DEF WriteKey, IInv, KeysType, KeyArray
  <2>4. KeysType'
    BY <1>10, <2>3, MaxKeysAssumption DEF WriteKey, IInv, KeysType
  <2> QED BY <1>10, <2>1, <2>4, FieldsKept DEF WriteKey, IInv, FlashType
<1>11. ASSUME NEW ok \in BOOLEAN, WriteSetting(ok) PROVE IInv'
  <2> DEFINE f == Head(todo).field
             v == Head(todo).value
  <2>1. f \in FieldNames /\ v \in Int /\ TodoType'
    BY <1>11, HeadType DEF WriteSetting, Write, Done, IInv, TodoType
  <2>2. KeysType'
    BY <1>11 DEF WriteSetting, IInv, KeysType, upload
  <2>3. CASE UNCHANGED <<conf, flash, unsaved>>
    BY <1>11, <2>1, <2>2, <2>3, FieldsKept DEF WriteSetting, IInv, FlashType
  <2>4. CASE /\ conf' = [conf EXCEPT ![f] = Applied(f, conf[f], v)]
             /\ \/ flash' = [flash EXCEPT !.field[f] = Stored(f, v)] /\ unsaved' = unsaved \ {f}
                \/ flash' = flash /\ unsaved' = unsaved \cup {f}
    <3>1. Applied(f, conf[f], v) \in Valid[f]
      BY <2>1, AppliedValid DEF IInv, ConfType, InRange
    <3>2. mounted' = mounted
      BY <1>11 DEF WriteSetting
    <3>3. ConfType' /\ FlashType' /\ unsaved' \subseteq FieldNames /\ SettingsSurviveReset'
      BY <2>1, <2>4, <3>1, <3>2, SavedInv DEF Stored
    <3> QED BY <2>1, <2>2, <3>3 DEF IInv
  <2> QED BY <1>11, <2>3, <2>4 DEF WriteSetting
<1>12. CASE UNCHANGED vars
  BY <1>12, FieldsKept DEF vars, config, upload, session, IInv, FlashType, KeysType, TodoType
<1> QED BY <1>1, <1>2, <1>3, <1>4, <1>5, <1>6, <1>7, <1>8, <1>9, <1>10, <1>11, <1>12 DEF Next

LEMMA Inductive == Spec => []IInv
  BY InitInv, StepInv, PTL DEF Spec

(* No setting is ever out of its range. *)
THEOREM SettingsInRange == Spec => []InRange
<1>1. IInv => InRange BY DEF IInv, ConfType
<1> QED BY <1>1, Inductive, PTL

(* What the beacon runs with is what load() would find, for every field      *)
(* whose last save did not fail.                                             *)
THEOREM ResetKeepsSettings == Spec => []SettingsSurviveReset
<1>1. IInv => SettingsSurviveReset BY DEF IInv
<1> QED BY <1>1, Inductive, PTL

--------------------------------------------------------------------------------
(* The count of the keys in an array.                                        *)

CountOf(k, n) == (\A i \in 0..(n - 1) : k[i] # ZeroKey) /\ (n < MaxKeys => k[n] = ZeroKey)

LEMMA CountUnique ==
  ASSUME NEW k, NEW n \in 0..MaxKeys, CountOf(k, n)
  PROVE  Count(k) = n
<1>1. ASSUME NEW m \in 0..MaxKeys, CountOf(k, m) PROVE m = n
  BY <1>1, MaxKeysAssumption DEF CountOf
<1>2. Count(k) = CHOOSE m \in 0..MaxKeys : CountOf(k, m)
  BY DEF Count, CountOf
<1> QED BY <1>1, <1>2

LEMMA CountType ==
  ASSUME NEW k
  PROVE  Count(k) \in 0..MaxKeys
<1>1. CASE \A i \in KeyIndex : k[i] # ZeroKey
  <2>1. MaxKeys \in 0..MaxKeys /\ CountOf(k, MaxKeys)
    BY <1>1, MaxKeysAssumption DEF CountOf, KeyIndex
  <2> QED BY <2>1, CountUnique
<1>2. CASE \E i \in KeyIndex : k[i] = ZeroKey
  <2> DEFINE Zeros == {i \in KeyIndex : k[i] = ZeroKey}
  <2>1. Zeros \subseteq Nat /\ Zeros # {}
    BY <1>2, MaxKeysAssumption DEF KeyIndex
  <2>2. PICK n \in Zeros : \A i \in Zeros : ~(<<i, n>> \in OpToRel(<, Nat))
    BY <2>1, NatLessThanWellFounded, WFMin
  <2>3. \A i \in Zeros : ~(i < n)
    BY <2>1, <2>2 DEF OpToRel
  <2>4. n \in 0..MaxKeys /\ CountOf(k, n)
    BY <2>3, MaxKeysAssumption DEF CountOf, KeyIndex
  <2> QED BY <2>4, CountUnique
<1> QED BY <1>1, <1>2

(* The array k holds the ring r, and ends with it. *)
Holds(k, r) ==
  /\ r \in Seq(Key) /\ Len(r) <= MaxKeys
  /\ \A i \in 1..Len(r) : k[i - 1] = r[i]
  /\ Len(r) < MaxKeys => k[Len(r)] = ZeroKey

LEMMA KeyNotZero == \A x \in Key : x # ZeroKey
  BY HalfAssumption DEF Key, ZeroKey

LEMMA RingLoaded ==
  ASSUME NEW r, Holds(flash.keys, r)
  PROVE  LoadedRing = r
<1>1. /\ r \in Seq(Key) /\ Len(r) \in 0..MaxKeys
      /\ \A i \in 1..Len(r) : flash.keys[i - 1] = r[i] /\ r[i] \in Key
  BY MaxKeysAssumption DEF Holds
<1>2. \A i \in 0..(Len(r) - 1) : flash.keys[i] # ZeroKey
  <2> SUFFICES ASSUME NEW i \in 0..(Len(r) - 1) PROVE flash.keys[i] # ZeroKey
    OBVIOUS
  <2>1. i + 1 \in 1..Len(r) /\ (i + 1) - 1 = i
    BY <1>1
  <2> QED BY <1>1, <2>1, KeyNotZero
<1>3. Count(flash.keys) = Len(r)
  BY <1>1, <1>2, CountUnique DEF Holds, CountOf
<1>4. LoadedRing = [i \in 1..Len(r) |-> r[i]]
  BY <1>1, <1>3 DEF LoadedRing
<1> QED BY <1>1, <1>4

--------------------------------------------------------------------------------
(* The writes of a ring, one half key after the other.                       *)

HalfAt(k, i) == IF i % 2 = 1 THEN k[(i - 1) \div 2].first ELSE k[(i - 1) \div 2].second

LEMMA KeyWritesOf ==
  ASSUME NEW r \in Seq(Key), Len(r) <= MaxKeys
  PROVE  /\ Len(KeyWrites(r)) = IF Len(r) < MaxKeys THEN 2 * Len(r) + 2 ELSE 2 * Len(r)
         /\ Len(KeyWrites(r)) \in 2..(2 * MaxKeys)
         /\ \A i \in 1..Len(KeyWrites(r)) :
              KeyWrites(r)[i] = [op |-> "key", half |-> IF i <= 2 * Len(r) THEN HalfOf(r, i) ELSE Zero]
<1> DEFINE Z == [op |-> "key", half |-> Zero]
           U == Unterminated(r)
           E == IF Len(r) < MaxKeys THEN <<Z, Z>> ELSE <<>>
<1>1. Len(r) \in Nat /\ MaxKeys \in Nat \ {0}
  BY MaxKeysAssumption
<1>2. KeyWrites(r) = U \o E
  BY DEF KeyWrites
<1>3. U = [i \in 1..(2 * Len(r)) |-> [op |-> "key", half |-> HalfOf(r, i)]]
  BY DEF Unterminated
<1> DEFINE Things == {[op |-> "key", half |-> HalfOf(r, i)] : i \in 1..(2 * Len(r))} \cup {Z}
<1>4. U \in Seq(Things) /\ Len(U) = 2 * Len(r)
  BY <1>1, <1>3
<1>5. E \in Seq(Things) /\ Len(E) = (IF Len(r) < MaxKeys THEN 2 ELSE 0) /\ \A i \in 1..Len(E) : E[i] = Z
  <2>1. Z \in Things
    OBVIOUS
  <2> HIDE DEF Z, Things
  <2> QED BY <2>1
<1> HIDE DEF E, Things
<1>6. /\ Len(U \o E) = Len(U) + Len(E)
      /\ \A i \in 1..(Len(U) + Len(E)) : (U \o E)[i] = IF i <= Len(U) THEN U[i] ELSE E[i - Len(U)]
  BY <1>4, <1>5, ConcatProperties
<1>7. ASSUME NEW i \in 1..Len(KeyWrites(r))
      PROVE  KeyWrites(r)[i] = [op |-> "key", half |-> IF i <= 2 * Len(r) THEN HalfOf(r, i) ELSE Zero]
  <2>1. CASE i <= 2 * Len(r)
    <3>1. (U \o E)[i] = U[i] /\ i \in 1..(2 * Len(r))
      BY <1>2, <1>4, <1>5, <1>6, <1>7, <2>1
    <3> QED BY <1>2, <1>3, <2>1, <3>1
  <2>2. CASE ~(i <= 2 * Len(r))
    <3>1. i - Len(U) \in 1..Len(E) /\ (U \o E)[i] = E[i - Len(U)]
      BY <1>1, <1>2, <1>4, <1>5, <1>6, <1>7, <2>2
    <3> QED BY <1>2, <1>5, <2>2, <3>1
  <2> QED BY <2>1, <2>2
<1> QED BY <1>1, <1>2, <1>4, <1>5, <1>6, <1>7

(* All of them written leave an array that holds the ring. *)
LEMMA WrittenHolds ==
  ASSUME NEW r \in Seq(Key), Len(r) <= MaxKeys, NEW k \in KeyArray,
         \A i \in 1..Len(KeyWrites(r)) : HalfAt(k, i) = KeyWrites(r)[i].half
  PROVE  Holds(k, r)
<1> DEFINE N == Len(KeyWrites(r))
<1>1. /\ Len(r) \in Nat /\ MaxKeys \in Nat /\ N \in Nat
      /\ N = IF Len(r) < MaxKeys THEN 2 * Len(r) + 2 ELSE 2 * Len(r)
  BY KeyWritesOf, MaxKeysAssumption
<1>2. \A i \in 1..N : HalfAt(k, i) = IF i <= 2 * Len(r) THEN HalfOf(r, i) ELSE Zero
  <2> SUFFICES ASSUME NEW i \in 1..N
               PROVE  HalfAt(k, i) = IF i <= 2 * Len(r) THEN HalfOf(r, i) ELSE Zero
    OBVIOUS
  <2> DEFINE h == IF i <= 2 * Len(r) THEN HalfOf(r, i) ELSE Zero
  <2>1. KeyWrites(r)[i] = [op |-> "key", half |-> h]
    BY KeyWritesOf
  <2> HIDE DEF h
  <2>2. HalfAt(k, i) = h
    BY <2>1
  <2> QED BY <2>2 DEF h
<1> HIDE DEF N
<1>3. \A m \in 1..MaxKeys : /\ HalfAt(k, 2 * m - 1) = k[m - 1].first
                            /\ HalfAt(k, 2 * m) = k[m - 1].second
                            /\ k[m - 1] \in [first : HalfKey, second : HalfKey]
  <2> SUFFICES ASSUME NEW m \in 1..MaxKeys
               PROVE  /\ HalfAt(k, 2 * m - 1) = k[m - 1].first
                      /\ HalfAt(k, 2 * m) = k[m - 1].second
                      /\ k[m - 1] \in [first : HalfKey, second : HalfKey]
    OBVIOUS
  <2>1. (2 * m - 1) % 2 = 1 /\ ((2 * m - 1) - 1) \div 2 = m - 1
    BY <1>1
  <2>2. (2 * m) % 2 # 1 /\ (2 * m - 1) \div 2 = m - 1
    BY <1>1
  <2>3. m - 1 \in KeyIndex
    BY <1>1 DEF KeyIndex
  <2> QED BY <2>1, <2>2, <2>3 DEF HalfAt, KeyArray
<1>4. ASSUME NEW m \in 1..Len(r) PROVE k[m - 1] = r[m]
  <2>1. m \in 1..MaxKeys /\ 2 * m - 1 \in 1..N /\ 2 * m \in 1..N /\ 2 * m <= 2 * Len(r)
    BY <1>1, <1>4
  <2>2. HalfOf(r, 2 * m - 1) = r[m].first /\ HalfOf(r, 2 * m) = r[m].second
    <3>1. (2 * m - 1) % 2 = 1 /\ ((2 * m - 1) + 1) \div 2 = m /\ (2 * m) % 2 # 1 /\ (2 * m) \div 2 = m
      BY <1>1
    <3> QED BY <3>1 DEF HalfOf
  <2>3. k[m - 1].first = r[m].first /\ k[m - 1].second = r[m].second
    BY <1>1, <1>2, <1>3, <2>1, <2>2
  <2>4. r[m] \in Key
    OBVIOUS
  <2> QED BY <1>3, <2>1, <2>3, <2>4 DEF Key
<1>5. ASSUME Len(r) < MaxKeys PROVE k[Len(r)] = ZeroKey
  <2> DEFINE m == Len(r) + 1
  <2>1. /\ m \in 1..MaxKeys /\ 2 * m - 1 \in 1..N /\ 2 * m \in 1..N /\ m - 1 = Len(r)
        /\ ~(2 * m - 1 <= 2 * Len(r)) /\ ~(2 * m <= 2 * Len(r))
    BY <1>1, <1>5
  <2>2. k[m - 1].first = Zero /\ k[m - 1].second = Zero
    BY <1>2, <1>3, <2>1
  <2> QED BY <1>3, <2>1, <2>2 DEF ZeroKey
<1> QED BY <1>4, <1>5 DEF Holds

(* The rest t of a script from which n half keys were written. *)
Remaining(t, n) ==
  /\ n <= Len(KeyWrites(ring)) /\ Len(KeyWrites(ring)) - n <= Len(t)
  /\ \A i \in 1..Len(t) : IF n + i <= Len(KeyWrites(ring)) THEN t[i] = KeyWrites(ring)[n + i]
                          ELSE t[i].op # "key"

(* A session, with no key to come; before its code; and uploading a ring:    *)
(* what was received is in the array, the rest is in the script.             *)
NoKeyLeft == keysReceived = 0 /\ \A i \in 1..Len(todo) : todo[i].op # "key"
CodeFirst ==
  /\ keysReceived = 0 /\ ring \in Ring
  /\ todo # <<>> /\ Head(todo).op = "auth" /\ Remaining(Tail(todo), 0)
Uploading ==
  /\ ring \in Ring /\ Remaining(todo, keysReceived)
  /\ keysReceived \in 1..(Len(KeyWrites(ring)) - 1) => authorizedGatt /\ allowedChange
  /\ \A i \in 1..keysReceived : HalfAt(keys, i) = KeyWrites(ring)[i].half

UploadInv ==
  /\ link => life = "window" /\ (NoKeyLeft \/ CodeFirst \/ Uploading)
  /\ ~link => keysReceived = 0
  /\ keysReceived = 0 => ~updateKeysAtDisconnect
  /\ uploaded # Unknown => Holds(flash.keys, uploaded)

LEMMA InitUpload == Init => UploadInv
<1> SUFFICES ASSUME Init PROVE UploadInv
  OBVIOUS
<1>1. Len(<<>>) = 0 /\ <<>> \in Seq(Key) /\ 0 \in KeyIndex
  BY MaxKeysAssumption DEF KeyIndex
<1>2. Holds(NoKeys, <<>>)
  BY <1>1, MaxKeysAssumption DEF Holds, NoKeys
<1> QED BY <1>2 DEF Init, UploadInv

(* Where the client stands when it has connected. *)
LEMMA ScriptForm ==
  ASSUME NEW j \in Jobs, todo' = Script(j), ring' = j.ring, keysReceived' = 0
  PROVE  NoKeyLeft' \/ CodeFirst'
<1> DEFINE A == <<Auth(j.code)>>
           K == IF j.ring = NoRing THEN <<>> ELSE KeyWrites(j.ring)
           S == SettingWrites(j.settings)
           N == IF j.newCode = NoCode THEN <<>> ELSE <<[op |-> "newauth", code |-> j.newCode]>>
           Rest == S \o N
<1>1. j \in Job /\ todo' = A \o K \o S \o N
  BY JobsAssumption DEF Script
<1>2. A \in Seq(Writes) /\ Len(A) = 1 /\ A[1].op = "auth"
  BY <1>1 DEF Auth, Job, Writes
<1>3. K \in Seq(Writes)
  BY <1>1, KeyWritesType DEF Job, Ring
<1>4. S \in Seq(Writes) /\ \A i \in 1..Len(S) : S[i].op = "set"
  <2>1. j.settings \in Seq((FieldNames \ {"turnedOn"}) \X Int)
    BY <1>1 DEF Job
  <2>2. DOMAIN j.settings = 1..Len(j.settings) /\ Len(j.settings) \in Nat
    BY <2>1
  <2>3. ASSUME NEW i \in 1..Len(j.settings)
        PROVE  [op |-> "set", field |-> j.settings[i][1], value |-> j.settings[i][2]] \in Writes
    <3>1. j.settings[i][1] \in FieldNames \ {"turnedOn"} /\ j.settings[i][2] \in Int
      BY <2>1
    <3> QED BY <3>1 DEF Writes
  <2> QED BY <2>2, <2>3 DEF SettingWrites
<1>5. N \in Seq(Writes) /\ \A i \in 1..Len(N) : N[i].op = "newauth"
  <2>1. CASE j.newCode = NoCode
    BY <2>1
  <2>2. CASE j.newCode # NoCode
    <3> DEFINE w == [op |-> "newauth", code |-> j.newCode]
    <3>1. w \in Writes /\ w.op = "newauth"
      BY <1>1, <2>2 DEF Job, Writes
    <3> HIDE DEF w
    <3>2. N = <<w>>
      BY <2>2 DEF w
    <3> HIDE DEF N
    <3> QED BY <3>1, <3>2
  <2> QED BY <2>1, <2>2
<1> HIDE DEF A, K, S, N
<1>6. Rest \in Seq(Writes) /\ \A i \in 1..Len(Rest) : Rest[i].op # "key"
  <2>1. /\ Rest \in Seq(Writes) /\ Len(Rest) = Len(S) + Len(N)
        /\ \A i \in 1..(Len(S) + Len(N)) : Rest[i] = IF i <= Len(S) THEN S[i] ELSE N[i - Len(S)]
    BY <1>4, <1>5, ConcatProperties
  <2> QED BY <1>4, <1>5, <2>1
<1>7. todo' = A \o (K \o Rest)
  <2>1. /\ A \in Seq(Writes) /\ K \in Seq(Writes) /\ S \in Seq(Writes) /\ N \in Seq(Writes)
        /\ A \o K \in Seq(Writes) /\ S \o N \in Seq(Writes)
    BY <1>2, <1>3, <1>4, <1>5, ConcatProperties
  <2>2. ((A \o K) \o S) \o N = (A \o K) \o (S \o N)
    BY <2>1, ConcatAssociative, SMTT(40)
  <2>3. (A \o K) \o (S \o N) = A \o (K \o (S \o N))
    BY <2>1, ConcatAssociative, SMTT(40)
  <2> QED BY <1>1, <2>2, <2>3
<1> HIDE DEF Rest
<1>8. /\ K \o Rest \in Seq(Writes) /\ Len(K \o Rest) = Len(K) + Len(Rest)
      /\ \A i \in 1..(Len(K) + Len(Rest)) : (K \o Rest)[i] = IF i <= Len(K) THEN K[i] ELSE Rest[i - Len(K)]
  BY <1>3, <1>6, ConcatProperties
<1>9. /\ Len(todo') = 1 + Len(K \o Rest) /\ todo' # <<>>
      /\ todo'[1] = A[1] /\ Head(todo') = A[1] /\ Tail(todo') = K \o Rest
      /\ \A i \in 2..Len(todo') : todo'[i] = (K \o Rest)[i - 1]
  <2> DEFINE B == K \o Rest
  <2> HIDE DEF B
  <2>1. B \in Seq(Writes)
    BY <1>8 DEF B
  <2>2. /\ A \o B \in Seq(Writes) /\ Len(A \o B) = 1 + Len(B)
        /\ \A i \in 1..(1 + Len(B)) : (A \o B)[i] = IF i <= 1 THEN A[i] ELSE B[i - 1]
    <3>1. /\ A \o B \in Seq(Writes) /\ Len(A \o B) = Len(A) + Len(B)
          /\ \A i \in 1..(Len(A) + Len(B)) : (A \o B)[i] = IF i <= Len(A) THEN A[i] ELSE B[i - Len(A)]
      BY <1>2, <2>1, ConcatProperties
    <3> QED BY <1>2, <3>1
  <2>3. todo' = A \o B
    BY <1>7 DEF B
  <2>4. /\ Len(todo') = 1 + Len(B) /\ todo' # <<>> /\ Len(B) \in Nat
        /\ todo'[1] = A[1] /\ \A i \in 2..Len(todo') : todo'[i] = B[i - 1]
    BY <2>1, <2>2, <2>3
  <2>5. Head(todo') = A[1]
    <3>1. Head(todo') = todo'[1]
      BY <2>2, <2>3, <2>4
    <3> QED BY <2>4, <3>1
  <2>6. Tail(todo') = B
    <3>1. /\ Tail(todo') \in Seq(Writes) /\ Len(Tail(todo')) = Len(B)
          /\ \A i \in 1..Len(B) : Tail(todo')[i] = todo'[i + 1]
      BY <2>2, <2>3, <2>4, HeadTailProperties
    <3>2. \A i \in 1..Len(B) : Tail(todo')[i] = B[i]
      BY <2>4, <3>1
    <3> QED BY <2>1, <3>1, <3>2, SeqEqual
  <2> QED BY <2>4, <2>5, <2>6 DEF B
<1>10. CASE j.ring = NoRing
  <2>1. Len(K) = 0
    BY <1>10 DEF K
  <2>2. \A i \in 2..Len(todo') : todo'[i] = Rest[i - 1] /\ i - 1 \in 1..Len(Rest)
    BY <1>6, <1>8, <1>9, <2>1
  <2>3. \A i \in 1..Len(todo') : todo'[i].op # "key"
    BY <1>2, <1>6, <1>9, <2>2
  <2> QED BY <2>3 DEF NoKeyLeft
<1>11. CASE j.ring # NoRing
  <2>1. K = KeyWrites(ring') /\ ring' \in Ring
    BY <1>1, <1>11 DEF K, Job
  <2>2. Remaining(Tail(todo), 0)'
    BY <1>3, <1>6, <1>8, <1>9, <2>1 DEF Remaining
  <2> QED BY <1>2, <1>9, <2>1, <2>2 DEF CodeFirst
<1> QED BY <1>10, <1>11

(* The next write of a session with a ring is a half key while there are     *)
(* any, and none after them.                                                 *)
LEMMA RemainingStep ==
  ASSUME TodoType, todo # <<>>, ring \in Ring, NEW n \in Nat, Remaining(todo, n)
  PROVE  /\ Head(todo).op = "key" =>
              /\ n + 1 <= Len(KeyWrites(ring)) /\ Head(todo) = KeyWrites(ring)[n + 1]
              /\ Remaining(Tail(todo), n + 1)
         /\ Head(todo).op # "key" =>
              n = Len(KeyWrites(ring)) /\ Remaining(Tail(todo), n) /\ Remaining(<<>>, n)
<1> DEFINE W == KeyWrites(ring)
<1>1. Len(W) \in Nat /\ \A i \in 1..Len(W) : W[i].op = "key"
  <2>1. ring \in Seq(Key) /\ Len(ring) <= MaxKeys
    BY DEF Ring
  <2>2. Len(W) \in Nat
    BY <2>1, KeyWritesOf, MaxKeysAssumption
  <2>3. ASSUME NEW i \in 1..Len(W) PROVE W[i].op = "key"
    <3> DEFINE h == IF i <= 2 * Len(ring) THEN HalfOf(ring, i) ELSE Zero
    <3>1. W[i] = [op |-> "key", half |-> h]
      BY <2>1, KeyWritesOf
    <3> HIDE DEF W, h
    <3> QED BY <3>1
  <2> QED BY <2>2, <2>3
<1>2. /\ n <= Len(W) /\ Len(W) - n <= Len(todo)
      /\ \A i \in 1..Len(todo) : IF n + i <= Len(W) THEN todo[i] = W[n + i] ELSE todo[i].op # "key"
  BY DEF Remaining
<1> HIDE DEF W
<1>3. /\ Head(todo) = todo[1] /\ Len(todo) \in Nat /\ Len(todo) >= 1
      /\ Len(Tail(todo)) = Len(todo) - 1
      /\ \A i \in 1..(Len(todo) - 1) : Tail(todo)[i] = todo[i + 1]
  BY DEF TodoType
<1>4. IF n + 1 <= Len(W) THEN todo[1] = W[n + 1] ELSE todo[1].op # "key"
  BY <1>2, <1>3
<1>5. \A i \in 1..Len(Tail(todo)) :
        IF n + (i + 1) <= Len(W) THEN Tail(todo)[i] = W[n + (i + 1)] ELSE Tail(todo)[i].op # "key"
  <2> SUFFICES ASSUME NEW i \in 1..Len(Tail(todo))
               PROVE  IF n + (i + 1) <= Len(W) THEN Tail(todo)[i] = W[n + (i + 1)]
                                               ELSE Tail(todo)[i].op # "key"
    OBVIOUS
  <2>1. i + 1 \in 1..Len(todo) /\ Tail(todo)[i] = todo[i + 1]
    BY <1>3
  <2> QED BY <1>2, <2>1
<1>6. CASE n + 1 <= Len(W)
  <2>1. Head(todo) = W[n + 1] /\ Head(todo).op = "key"
    BY <1>1, <1>3, <1>4, <1>6
  <2>2. \A i \in 1..Len(Tail(todo)) :
          IF (n + 1) + i <= Len(W) THEN Tail(todo)[i] = W[(n + 1) + i] ELSE Tail(todo)[i].op # "key"
    <3>1. \A i \in 1..Len(Tail(todo)) : n + (i + 1) = (n + 1) + i
      BY <1>3
    <3> QED BY <1>5, <3>1
  <2>3. Len(W) - (n + 1) <= Len(Tail(todo))
    BY <1>1, <1>2, <1>3
  <2>4. Remaining(Tail(todo), n + 1)
    BY <1>6, <2>2, <2>3 DEF Remaining, W
  <2> QED BY <1>6, <2>1, <2>4 DEF W
<1>7. CASE ~(n + 1 <= Len(W))
  <2>1. n = Len(W) /\ Head(todo).op # "key"
    BY <1>1, <1>2, <1>3, <1>4, <1>7
  <2>2. \A i \in 1..Len(Tail(todo)) : ~(n + i <= Len(W)) /\ ~(n + (i + 1) <= Len(W))
    BY <1>3, <2>1
  <2>3. Remaining(Tail(todo), n)
    BY <1>1, <1>3, <1>5, <2>1, <2>2 DEF Remaining, W
  <2>4. Remaining(<<>>, n)
    BY <1>1, <2>1 DEF Remaining, W
  <2> QED BY <2>1, <2>3, <2>4 DEF W
<1> QED BY <1>6, <1>7

(* A write that is not a half key, and an end of the script, leave a session *)
(* that is past its keys where it is.                                        *)
LEMMA OtherWrite ==
  ASSUME IInv, UploadInv, link, todo # <<>>, Head(todo).op # "key",
         todo' = Tail(todo) \/ (Head(todo).op = "set" /\ todo' = <<>>),
         ring' = ring, keysReceived' = keysReceived, keys' = keys
  PROVE  NoKeyLeft' \/ Uploading'
<1>1. TodoType /\ keysReceived \in Nat
  BY MaxKeysAssumption DEF IInv, KeysType
<1>2. CASE NoKeyLeft
  <2>1. \A i \in 1..Len(Tail(todo)) : Tail(todo)[i].op # "key"
    <3>1. /\ Len(Tail(todo)) = Len(todo) - 1 /\ Len(todo) \in Nat
          /\ \A i \in 1..Len(Tail(todo)) : Tail(todo)[i] = todo[i + 1]
      BY <1>1, HeadTailProperties, LenProperties DEF TodoType
    <3> QED BY <1>2, <3>1 DEF NoKeyLeft
  <2> QED BY <1>2, <2>1 DEF NoKeyLeft
<1>3. CASE CodeFirst
  <2>1. todo' = Tail(todo)
    BY <1>3 DEF CodeFirst
  <2>2. Remaining(todo, keysReceived)'
    BY <1>3, <2>1 DEF CodeFirst, Remaining
  <2> QED BY <1>3, <2>2 DEF CodeFirst, Uploading
<1>4. CASE Uploading
  <2>1. ring \in Ring /\ Remaining(todo, keysReceived)
    BY <1>4 DEF Uploading
  <2>2. /\ keysReceived = Len(KeyWrites(ring))
        /\ Remaining(Tail(todo), keysReceived) /\ Remaining(<<>>, keysReceived)
    BY <1>1, <2>1, RemainingStep
  <2>3. Remaining(todo, keysReceived)'
    BY <2>2 DEF Remaining
  <2>4. ~(keysReceived \in 1..(Len(KeyWrites(ring)) - 1))
    BY <1>1, <2>2
  <2> QED BY <1>4, <2>3, <2>4 DEF Uploading
<1> QED BY <1>2, <1>3, <1>4 DEF UploadInv

(* A half key that is written. *)
LEMMA HalfWritten ==
  ASSUME keys \in KeyArray, NEW n \in 0..(2 * MaxKeys - 1), NEW h,
         keys' = IF n % 2 = 1 THEN [keys EXCEPT ![n \div 2].second = h]
                 ELSE [keys EXCEPT ![n \div 2].first = h]
  PROVE  /\ HalfAt(keys', n + 1) = h
         /\ \A i \in 1..n : HalfAt(keys', i) = HalfAt(keys, i)
<1>1. n \div 2 \in KeyIndex /\ MaxKeys \in Nat
  BY MaxKeysAssumption DEF KeyIndex
<1>2. keys \in [KeyIndex -> [first : HalfKey, second : HalfKey]]
  BY DEF KeyArray
<1>3. /\ (n + 1) - 1 = n /\ ((n + 1) % 2 = 1 <=> n % 2 # 1)
  BY <1>1
<1>4. HalfAt(keys', n + 1) = h
  BY <1>1, <1>2, <1>3 DEF HalfAt
<1>5. ASSUME NEW i \in 1..n PROVE HalfAt(keys', i) = HalfAt(keys, i)
  <2>1. (i - 1) \div 2 \in KeyIndex
    BY <1>1 DEF KeyIndex
  <2>2. CASE (i - 1) \div 2 # n \div 2
    <3>1. keys'[(i - 1) \div 2] = keys[(i - 1) \div 2]
      BY <1>1, <1>2, <2>1, <2>2
    <3> QED BY <3>1 DEF HalfAt
  <2>3. CASE (i - 1) \div 2 = n \div 2
    <3>1. i % 2 = 1 /\ n % 2 = 1
      BY <1>1, <2>3
    <3>2. keys'[(i - 1) \div 2].first = keys[(i - 1) \div 2].first
      BY <1>1, <1>2, <2>1, <2>3, <3>1
    <3> QED BY <3>1, <3>2 DEF HalfAt
  <2> QED BY <2>2, <2>3
<1> QED BY <1>4, <1>5

LEMMA KeyWritten ==
  ASSUME IInv, UploadInv, WriteKey
  PROVE  UploadInv'
<1>1. /\ TodoType /\ keysReceived \in 0..(2 * MaxKeys - 1) /\ keys \in KeyArray
      /\ MaxKeys \in Nat /\ todo # <<>>
  BY MaxKeysAssumption DEF IInv, KeysType, WriteKey, Write
<1>2. /\ link /\ Head(todo).op = "key" /\ todo' = Tail(todo)
      /\ keysReceived' = keysReceived + 1
      /\ authorizedGatt' /\ allowedChange'
      /\ UNCHANGED <<life, link, ring, flash, uploaded>>
  BY DEF WriteKey, Write, Done, flags
<1>3. keys' = IF keysReceived % 2 = 1
              THEN [keys EXCEPT ![keysReceived \div 2].second = Head(todo).half]
              ELSE [keys EXCEPT ![keysReceived \div 2].first = Head(todo).half]
  BY DEF WriteKey, IsSecond, KeyAt
<1>4. Uploading
  <2>1. ~NoKeyLeft
    <3>1. Head(todo) = todo[1] /\ 1 \in 1..Len(todo)
      BY <1>1 DEF TodoType
    <3> QED BY <1>2, <3>1 DEF NoKeyLeft
  <2> QED BY <1>2, <2>1 DEF UploadInv, CodeFirst
<1>5. ring \in Ring /\ Remaining(todo, keysReceived)
  BY <1>4 DEF Uploading
<1>6. /\ Head(todo) = KeyWrites(ring)[keysReceived + 1]
      /\ Remaining(Tail(todo), keysReceived + 1)
  BY <1>1, <1>2, <1>5, RemainingStep
<1>7. Remaining(todo, keysReceived)'
  BY <1>2, <1>6 DEF Remaining
<1>8. /\ HalfAt(keys', keysReceived + 1) = Head(todo).half
      /\ \A i \in 1..keysReceived : HalfAt(keys', i) = HalfAt(keys, i)
  <2> DEFINE h == Head(todo).half
  <2> HIDE DEF h
  <2>1. keys' = IF keysReceived % 2 = 1 THEN [keys EXCEPT ![keysReceived \div 2].second = h]
                ELSE [keys EXCEPT ![keysReceived \div 2].first = h]
    BY <1>3 DEF h
  <2>2. /\ HalfAt(keys', keysReceived + 1) = h
        /\ \A i \in 1..keysReceived : HalfAt(keys', i) = HalfAt(keys, i)
    BY <1>1, <2>1, HalfWritten
  <2> QED BY <2>2 DEF h
<1>9. \A i \in 1..(keysReceived + 1) : HalfAt(keys', i) = KeyWrites(ring)[i].half
  <2> SUFFICES ASSUME NEW i \in 1..(keysReceived + 1) PROVE HalfAt(keys', i) = KeyWrites(ring)[i].half
    OBVIOUS
  <2>1. CASE i = keysReceived + 1
    BY <1>6, <1>8, <2>1
  <2>2. CASE i # keysReceived + 1
    <3>1. i \in 1..keysReceived
      BY <1>1, <2>2
    <3> QED BY <1>4, <1>8, <3>1 DEF Uploading
  <2> QED BY <2>1, <2>2
<1>10. Uploading'
  BY <1>2, <1>5, <1>7, <1>9 DEF Uploading
<1> QED BY <1>1, <1>2, <1>10 DEF UploadInv

(* The end of a session, for whatever reason: only a ring that was written   *)
(* to its end is taken for one.                                              *)
LEMMA SessionOver ==
  ASSUME IInv, UploadInv, NEW ok \in BOOLEAN, Hangup(ok)
  PROVE  UploadInv'
<1>1. /\ ~link' /\ keysReceived' = 0 /\ ~updateKeysAtDisconnect'
  BY DEF Hangup, NoSession, ForgetUpload
<1>2. flash \in [field : [FieldNames -> Int \cup {Absent}], keys : KeyArray] /\ keys \in KeyArray
      /\ TodoType /\ keysReceived \in Nat
  BY MaxKeysAssumption DEF IInv, FlashType, KeysType
<1> DEFINE saved == link /\ updateKeysAtDisconnect /\ mounted /\ ok
<1>3. /\ flash' = IF saved THEN [flash EXCEPT !.keys = keys] ELSE flash
      /\ uploaded' = IF ~saved THEN uploaded ELSE IF KeysLeft \/ ring = NoRing THEN Unknown ELSE ring
  BY DEF Hangup
<1>4. CASE ~saved
  BY <1>1, <1>3, <1>4 DEF UploadInv
<1>5. CASE saved /\ (KeysLeft \/ ring = NoRing)
  BY <1>1, <1>3, <1>5 DEF UploadInv
<1>6. CASE saved /\ ~KeysLeft
  <2>1. Uploading
    BY <1>6 DEF UploadInv, NoKeyLeft, CodeFirst
  <2>2. ring \in Seq(Key) /\ Len(ring) <= MaxKeys /\ Len(KeyWrites(ring)) \in Nat
    BY <2>1, KeyWritesOf, MaxKeysAssumption DEF Uploading, Ring
  <2>3. keysReceived = Len(KeyWrites(ring))
    <3> SUFFICES ASSUME keysReceived # Len(KeyWrites(ring)) PROVE FALSE
      OBVIOUS
    <3>1. /\ keysReceived + 1 \in 1..Len(KeyWrites(ring)) /\ 1 \in 1..Len(todo)
          /\ todo[1] = KeyWrites(ring)[keysReceived + 1]
      BY <1>2, <2>1, <2>2 DEF Uploading, Remaining, TodoType
    <3>2. todo[1].op = "key"
      <4> DEFINE h == IF keysReceived + 1 <= 2 * Len(ring) THEN HalfOf(ring, keysReceived + 1) ELSE Zero
      <4>1. KeyWrites(ring)[keysReceived + 1] = [op |-> "key", half |-> h]
        BY <2>2, <3>1, KeyWritesOf
      <4> HIDE DEF h
      <4> QED BY <3>1, <4>1
    <3>3. DOMAIN todo = 1..Len(todo)
      BY <1>2 DEF TodoType
    <3> QED BY <1>6, <3>1, <3>2, <3>3 DEF KeysLeft
  <2>4. Holds(keys, ring)
    BY <1>2, <2>1, <2>2, <2>3, WrittenHolds DEF Uploading
  <2>5. flash'.keys = keys
    BY <1>2, <1>3, <1>6
  <2> QED BY <1>1, <1>3, <1>6, <2>4, <2>5 DEF UploadInv
<1> QED BY <1>4, <1>5, <1>6

LEMMA UploadStep ==
  ASSUME IInv, UploadInv, [Next]_vars
  PROVE  UploadInv'
<1>0. /\ flash \in [field : [FieldNames -> Int \cup {Absent}], keys : KeyArray]
      /\ TodoType
  BY DEF IInv, FlashType
<1>1. ASSUME NEW ok \in BOOLEAN, NEW button \in BOOLEAN, Start(ok, button) PROVE UploadInv'
  <2>1. ~link' /\ keysReceived' = 0 /\ ~updateKeysAtDisconnect' /\ uploaded' = uploaded
    BY <1>1 DEF Start, NoSession
  <2>2. flash' = flash \/ flash' = [flash EXCEPT !.field.turnedOn = 1]
    BY <1>1 DEF Start
  <2>3. flash'.keys = flash.keys
    BY <1>0, <2>2
  <2> QED BY <2>1, <2>3 DEF UploadInv, Holds
<1>2. ASSUME NEW ok \in BOOLEAN, SwitchOff(ok) PROVE UploadInv'
  <2>1. ~link /\ UNCHANGED <<upload, session, uploaded>>
    BY <1>2 DEF SwitchOff, UploadInv
  <2>2. flash' = flash \/ flash' = [flash EXCEPT !.field.turnedOn = 0]
    BY <1>2 DEF SwitchOff
  <2>3. flash'.keys = flash.keys
    BY <1>0, <2>2
  <2> QED BY <2>1, <2>3 DEF UploadInv, Holds, upload, session
<1>3. CASE OpenWindow
  BY <1>3 DEF OpenWindow, ForgetUpload, UploadInv, Holds, session
<1>4. ASSUME NEW j \in Jobs, Connect(j) PROVE UploadInv'
  <2>1. /\ todo' = Script(j) /\ ring' = j.ring /\ keysReceived' = 0 /\ link' /\ life' = "window"
        /\ ~updateKeysAtDisconnect' /\ UNCHANGED <<flash, uploaded>>
    BY <1>4 DEF Connect, UploadInv, upload
  <2>2. NoKeyLeft' \/ CodeFirst'
    BY <2>1, ScriptForm
  <2> QED BY <2>1, <2>2 DEF UploadInv, Holds
<1>5. ASSUME NEW ok \in BOOLEAN, Disconnect(ok) \/ CloseWindow(ok) PROVE UploadInv'
  BY <1>5, SessionOver DEF Disconnect, CloseWindow
<1>6. CASE WriteAuth
  <2>1. /\ link /\ todo # <<>> /\ Head(todo).op # "key" /\ todo' = Tail(todo)
        /\ UNCHANGED <<ring, keysReceived, keys, life, link, updateKeysAtDisconnect, flash, uploaded>>
    BY <1>6 DEF WriteAuth, Write, Done, config, upload
  <2>2. NoKeyLeft' \/ Uploading'
    BY <2>1, OtherWrite
  <2> QED BY <2>1, <2>2 DEF UploadInv, Holds
<1>7. CASE Refused
  <2>1. /\ link /\ todo # <<>> /\ Head(todo).op \in {"key", "set"}
        /\ ~authorizedGatt \/ ~allowedChange
        /\ \/ Head(todo).op = "set" /\ todo' = Tail(todo)
           \/ todo' = <<>>
        /\ UNCHANGED <<ring, keysReceived, keys, life, link, updateKeysAtDisconnect, flash, uploaded>>
    BY <1>7 DEF Refused, Write, Done, Abort, config, upload
  <2>2. NoKeyLeft' \/ Uploading'
    <3>1. CASE Head(todo).op # "key"
      BY <2>1, <3>1, OtherWrite
    <3>2. CASE Head(todo).op = "key"
      <4>1. keysReceived = 0
        <5> SUFFICES ASSUME Uploading PROVE keysReceived = 0
          BY <2>1, <3>2 DEF UploadInv, NoKeyLeft, CodeFirst
        <5>1. ring \in Ring /\ Remaining(todo, keysReceived) /\ keysReceived \in Nat
          BY MaxKeysAssumption DEF Uploading, IInv, KeysType
        <5>2. keysReceived + 1 <= Len(KeyWrites(ring))
          BY <1>0, <2>1, <3>2, <5>1, RemainingStep
        <5>3. Len(KeyWrites(ring)) \in Nat
          BY <5>1, KeyWritesOf, MaxKeysAssumption DEF Ring
        <5> QED BY <2>1, <5>1, <5>2, <5>3 DEF Uploading
      <4> QED BY <2>1, <3>2, <4>1 DEF NoKeyLeft
    <3> QED BY <3>1, <3>2
  <2> QED BY <2>1, <2>2 DEF UploadInv, Holds
<1>8. CASE WriteKey
  BY <1>8, KeyWritten
<1>9. ASSUME NEW ok \in BOOLEAN, WriteSetting(ok) PROVE UploadInv'
  <2>1. /\ link /\ todo # <<>> /\ Head(todo).op # "key" /\ todo' = Tail(todo)
        /\ UNCHANGED <<ring, keysReceived, keys, life, link, updateKeysAtDisconnect, uploaded>>
    BY <1>9 DEF WriteSetting, Write, Done, upload
  <2>2. NoKeyLeft' \/ Uploading'
    BY <2>1, OtherWrite
  <2>3. flash'.keys = flash.keys
    BY <1>0, <1>9 DEF WriteSetting
  <2> QED BY <2>1, <2>2, <2>3 DEF UploadInv, Holds
<1>10. CASE UNCHANGED vars
  BY <1>10 DEF vars, config, upload, session, flags, UploadInv, NoKeyLeft, CodeFirst, Uploading,
     Remaining, Holds
<1> QED BY <1>1, <1>2, <1>3, <1>4, <1>5, <1>6, <1>7, <1>8, <1>9, <1>10
        DEF Next, PowerOn, Crash, CloseWithReset

(* A ring of any length, uploaded to its end in any number of sessions, is   *)
(* what load() finds after any reset, until another one is saved: whatever   *)
(* was in the array before, wherever other sessions broke off.               *)
THEOREM RingKept == Spec => []UploadedRingKept
<1>1. IInv /\ UploadInv /\ [Next]_vars => (IInv /\ UploadInv)'
  BY StepInv, UploadStep
<1>2. IInv /\ UploadInv => UploadedRingKept
  BY RingLoaded DEF UploadInv, UploadedRingKept
<1> QED BY <1>1, <1>2, InitInv, InitUpload, PTL DEF Spec

--------------------------------------------------------------------------------
(* The other variables. *)

RestType ==
  /\ life \in {"off", "on", "window"} /\ numKeys \in 0..MaxKeys
  /\ mounted \in BOOLEAN /\ needsReset \in BOOLEAN /\ link \in BOOLEAN
  /\ authorizedGatt \in BOOLEAN /\ allowedChange \in BOOLEAN /\ updateKeysAtDisconnect \in BOOLEAN
  /\ faults \in 0..MaxFaults

LEMMA WorksType ==
  ASSUME RestType, NEW ok \in BOOLEAN, Works(ok)
  PROVE  faults' \in 0..MaxFaults
  BY MaxFaultsAssumption DEF RestType, Works

LEMMA RestStep ==
  ASSUME IInv, RestType, [Next]_vars
  PROVE  RestType'
<1>1. ASSUME NEW ok \in BOOLEAN, NEW button \in BOOLEAN, Start(ok, button), faults' \in 0..MaxFaults
      PROVE  RestType'
  <2>1. numKeys' \in 0..MaxKeys
    BY <1>1, CountType, MaxKeysAssumption DEF Start
  <2>2. life' \in {"off", "on", "window"}
    BY <1>1 DEF Start
  <2> QED BY <1>1, <2>1, <2>2 DEF Start, NoSession, RestType
<1>2. ASSUME NEW ok \in BOOLEAN, PowerOn(ok) PROVE RestType'
  BY <1>1, <1>2, WorksType DEF PowerOn
<1>3. ASSUME NEW ok \in BOOLEAN, NEW button \in BOOLEAN, Crash(ok, button) PROVE RestType'
  <2>1. faults' \in 0..MaxFaults
    BY <1>3, MaxFaultsAssumption DEF Crash, RestType
  <2> QED BY <1>1, <1>3, <2>1 DEF Crash
<1>4. ASSUME NEW ok \in BOOLEAN, CloseWithReset(ok) PROVE RestType'
  BY <1>1, <1>4, WorksType DEF CloseWithReset
<1>5. ASSUME NEW ok \in BOOLEAN, SwitchOff(ok) PROVE RestType'
  BY <1>5, WorksType DEF SwitchOff, RestType, flags, upload, session
<1>6. ASSUME NEW ok \in BOOLEAN, Disconnect(ok) \/ CloseWindow(ok) PROVE RestType'
  BY <1>6, WorksType DEF Disconnect, CloseWindow, Hangup, NoSession, ForgetUpload, RestType, config
<1>7. CASE OpenWindow
  BY <1>7 DEF OpenWindow, ForgetUpload, RestType, config, session
<1>8. ASSUME NEW j \in Jobs, Connect(j) PROVE RestType'
  BY <1>8 DEF Connect, RestType, config, flags, upload
<1>9. CASE WriteAuth
  BY <1>9 DEF WriteAuth, RestType, config, upload
<1>10. CASE Refused
  BY <1>10 DEF Refused, RestType, config, flags, upload
<1>11. CASE WriteKey
  <2>1. KeyAt + 1 \in 0..MaxKeys
    BY <1>11, MaxKeysAssumption DEF WriteKey, KeyAt, IInv, KeysType
  <2> QED BY <1>11, <2>1 DEF WriteKey, RestType, flags
<1>12. ASSUME NEW ok \in BOOLEAN, WriteSetting(ok) PROVE RestType'
  <2>1. faults' \in 0..MaxFaults
    BY <1>12, WorksType DEF WriteSetting, RestType
  <2>2. needsReset' \in BOOLEAN
    BY <1>12, Zenon DEF WriteSetting
  <2> QED BY <1>12, <2>1, <2>2 DEF WriteSetting, RestType, flags, upload
<1>13. CASE UNCHANGED vars
  BY <1>13 DEF vars, RestType, config, flags, upload, session
<1> QED BY <1>2, <1>3, <1>4, <1>5, <1>6, <1>7, <1>8, <1>9, <1>10, <1>11, <1>12, <1>13 DEF Next

(* Every variable holds a value of its type. *)
THEOREM TypeCorrect == Spec => []TypeOK
<1>1. Init => RestType
  <2>1. 0 \in 0..MaxKeys /\ 0 \in 0..MaxFaults
    BY MaxKeysAssumption, MaxFaultsAssumption
  <2> QED BY <2>1, Zenon DEF Init, RestType
<1>2. IInv /\ RestType /\ [Next]_vars => (IInv /\ RestType)'
  BY StepInv, RestStep
<1>3. IInv /\ RestType => TypeOK
  BY DEF IInv, ConfType, FlashType, KeysType, RestType, TypeOK
<1> QED BY <1>1, <1>2, <1>3, InitInv, PTL DEF Spec

================================================================================
