-------------------------------- MODULE Settings --------------------------------
(****************************************************************************)
(* The settings between client, RAM and flash: what conn_beacon.py sends,    *)
(* what the handlers of zephyr_hardware.cpp and gatt_glue.c make of it, what *)
(* SettingsManager (beacon_config.cpp) stores, and what load() finds after a *)
(* reset.  The window is one state here (its threads are in GattGlue); the   *)
(* rest of the main loop is "on".                                            *)
(****************************************************************************)
EXTENDS Integers, Sequences, FiniteSets

CONSTANTS
  MaxKeys,       \* kMaxKeysInMemory
  Half, Zero,    \* half keys; the half key of an erased array
  Codes,         \* authentication codes
  DefaultCode,   \* auth_code of a beacon that was never configured
  Jobs,          \* what clients may be called for: see Job
  NoRing, NoCode, Absent, Unknown,
  MaxFaults      \* bound on crashes, failing writes and failing mounts

FieldNames == {"fmdn", "airtag", "period", "changeInterval", "power", "fmdnKey", "accel", "status",
               "settingsMAC", "turnedOn"}
Key == [first : Half, second : Half]
ZeroKey == [first |-> Zero, second |-> Zero]

(* The arguments of one call of conn_beacon.py.  The settings are those that *)
(* were given, in the order of the script; it sends no more keys than fit.   *)
Ring == {r \in Seq(Key) : Len(r) <= MaxKeys}
Job == [code : Codes, ring : Ring \cup {NoRing},
        settings : Seq((FieldNames \ {"turnedOn"}) \X Int), newCode : Codes \cup {NoCode}]

ASSUME MaxKeysAssumption == MaxKeys \in Nat \ {0}
ASSUME HalfAssumption == Zero \notin Half
ASSUME CodesAssumption == DefaultCode \in Codes /\ NoCode \notin Codes
ASSUME JobsAssumption == Jobs \subseteq Job
ASSUME AbsentAssumption == Absent \notin Int /\ NoRing \notin Seq(Key) /\ Unknown \notin Seq(Key)
ASSUME MaxFaultsAssumption == MaxFaults \in Nat

VARIABLES
  life,                \* off, on (broadcasting) or window
  conf,                \* BeaconConfig: the scalar fields
  keys, numKeys,       \* BeaconConfig: the key array and its count
  mounted,             \* zephyr_nvs: flash was mounted at this start
  flash,               \* the stored fields, and the stored array
  needsReset, authorizedGatt, allowedChange, keysReceived, updateKeysAtDisconnect,
  link, todo,          \* a client is connected, and what it is yet to write
  ring, newCode,       \* history: the ring it is called with, the new code it has sent
  unsaved, uploaded,   \* history: fields not in flash, the last ring saved whole
  faults

config == <<conf, keys, numKeys>>
flags == <<authorizedGatt, allowedChange>>
upload == <<keysReceived, updateKeysAtDisconnect>>
session == <<link, todo, ring, newCode>>
vars == <<life, config, mounted, flash, needsReset, flags, upload, session, unsaved, uploaded, faults>>

--------------------------------------------------------------------------------
(* BeaconConfig, its setters, and the validators of the handlers. *)

KeyIndex == 0..(MaxKeys - 1)
HalfKey == Half \cup {Zero}
KeyArray == [KeyIndex -> [first : HalfKey, second : HalfKey]]
NoKeys == [i \in KeyIndex |-> ZeroKey]

(* What a key, a MAC or the status may be is left open: they are numbers.    *)
DefaultInterval == 6000
DefaultThreshold == 800
DefaultStatus == 4554752  \* 0x458000
Default == [fmdn |-> 0, airtag |-> 0, period |-> 2, changeInterval |-> DefaultInterval, power |-> 2,
            fmdnKey |-> 0, accel |-> DefaultThreshold, status |-> DefaultStatus,
            settingsMAC |-> 1, turnedOn |-> 0]

Periods == {1, 2, 4, 8}
MaxInterval == 7200
MaxThreshold == 16383
Truth(v) == IF v # 0 THEN 1 ELSE 0
Byte(v) == v % 256
Word(v) == v % 65536
Aligned(v) == v - (v % 8)

(* The set_ operations of SettingsManager, with the narrowing casts of their *)
(* callers: a value out of range leaves the old one.                         *)
AppliedUnchecked(f, old, v) ==  \* mutant: the interval is not checked after the alignment
  CASE f \in {"fmdn", "airtag", "turnedOn"} -> Truth(v)
    [] f = "period" -> IF Byte(v) \in Periods THEN Byte(v) ELSE old
    [] f = "changeInterval" -> IF Word(v) \in 30..MaxInterval THEN Aligned(Word(v)) ELSE old
    [] f = "power" -> IF Byte(v) <= 2 THEN Byte(v) ELSE old
    [] f = "accel" -> IF Word(v) <= MaxThreshold THEN Word(v) ELSE old
    [] OTHER -> v
Applied(f, old, v) ==
  CASE f \in {"fmdn", "airtag", "turnedOn"} -> Truth(v)
    [] f = "period" -> IF Byte(v) \in Periods THEN Byte(v) ELSE old
    [] f = "changeInterval" ->
         IF Aligned(Word(v)) >= 32 /\ Word(v) <= MaxInterval THEN Aligned(Word(v)) ELSE old
    [] f = "power" -> IF Byte(v) <= 2 THEN Byte(v) ELSE old
    [] f = "accel" -> IF Word(v) <= MaxThreshold THEN Word(v) ELSE old
    [] OTHER -> v

(* validate_field() with the specification of each handler. *)
Accepts(f, v) ==
  CASE f = "period" -> v \in Periods
    [] f = "changeInterval" -> v \in 30..MaxInterval
    [] f = "power" -> v \in 0..2
    [] f = "accel" -> v \in 0..MaxThreshold
    [] OTHER -> TRUE

(* The characteristics whose callback asks for a reset. *)
NeedsReset == {"fmdn", "airtag", "period", "changeInterval", "fmdnKey", "accel"}

--------------------------------------------------------------------------------
(* SettingsManager::load() *)

LoadedField(f, v) == IF v = Absent THEN Default[f] ELSE Applied(f, Default[f], v)

(* The count of keys: up to the first slot that is zero. *)
CountAll(k) == Cardinality({i \in KeyIndex : k[i] # ZeroKey})  \* mutant: no break at a zero key
Count(k) ==
  CHOOSE n \in 0..MaxKeys :
    /\ \A i \in 0..(n - 1) : k[i] # ZeroKey
    /\ n < MaxKeys => k[n] = ZeroKey

LoadedConf == [f \in FieldNames |-> LoadedField(f, flash.field[f])]
LoadedRing == [i \in 1..Count(flash.keys) |-> flash.keys[i - 1]]

NoSession ==
  /\ authorizedGatt' = FALSE /\ allowedChange' = FALSE
  /\ link' = FALSE /\ todo' = <<>> /\ ring' = NoRing /\ newCode' = NoCode

(* main() after a reset, up to the decision of initialize(): with the button *)
(* pressed turned_on is set and saved, without it a beacon that is not       *)
(* turned on switches off again.  If the mount fails every read and write of *)
(* this life fails: it runs on defaults.                                     *)
Start(ok, button) ==
  LET c == IF ok THEN LoadedConf ELSE Default
  IN /\ mounted' = ok
     /\ conf' = IF button THEN [c EXCEPT !.turnedOn = 1] ELSE c
     /\ keys' = IF ok THEN flash.keys ELSE NoKeys
     /\ numKeys' = IF ok THEN Count(flash.keys) ELSE 0
     /\ flash' = IF ok /\ button THEN [flash EXCEPT !.field.turnedOn = 1] ELSE flash
     /\ life' = IF conf'.turnedOn = 1 THEN "on" ELSE "off"
     /\ needsReset' = FALSE /\ keysReceived' = 0 /\ updateKeysAtDisconnect' = FALSE
     /\ NoSession
     /\ unsaved' = {}
     /\ UNCHANGED uploaded

Init ==
  /\ life = "off" /\ conf = Default /\ keys = NoKeys /\ numKeys = 0 /\ mounted = TRUE
  /\ flash = [field |-> [f \in FieldNames |-> Absent], keys |-> NoKeys]
  /\ needsReset = FALSE /\ authorizedGatt = FALSE /\ allowedChange = FALSE
  /\ keysReceived = 0 /\ updateKeysAtDisconnect = FALSE
  /\ link = FALSE /\ todo = <<>> /\ ring = NoRing /\ newCode = NoCode
  /\ unsaved = {} /\ uploaded = <<>> /\ faults = 0

(* A fault: a mount or a write that fails, a crash. *)
Works(ok) == /\ ok \/ faults < MaxFaults
             /\ faults' = IF ok THEN faults ELSE faults + 1

PowerOn(ok) == life = "off" /\ Works(ok) /\ Start(ok, TRUE)

Crash(ok, button) ==
  /\ life # "off" /\ faults < MaxFaults
  /\ faults' = faults + 1
  /\ Start(ok, button)

(* handle_button_longpress(), up to the power off. *)
SwitchOff(ok) ==
  /\ life = "on" /\ Works(ok)
  /\ life' = "off"
  /\ conf' = [conf EXCEPT !.turnedOn = 0]
  /\ LET saved == ok /\ mounted
     IN /\ flash' = IF saved THEN [flash EXCEPT !.field.turnedOn = 0] ELSE flash
        /\ unsaved' = IF saved THEN unsaved \ {"turnedOn"} ELSE unsaved \cup {"turnedOn"}
  /\ UNCHANGED <<keys, numKeys, mounted, needsReset, flags, upload, session, uploaded>>

--------------------------------------------------------------------------------
(* The window, and the client in it. *)

(* start_settings_adv(): at the start of the window, and after each client.  *)
ForgetUpload == keysReceived' = 0 /\ updateKeysAtDisconnect' = FALSE

OpenWindow ==
  /\ life = "on" /\ life' = "window"
  /\ authorizedGatt' = FALSE /\ allowedChange' = FALSE
  /\ ForgetUpload
  /\ UNCHANGED <<config, mounted, flash, needsReset, session, unsaved, uploaded, faults>>

(* The writes of conn_beacon.py, in its order: code, keys with a zero key    *)
(* after them where there is room, settings, new code.                       *)
Auth(c) == [op |-> "auth", code |-> c]
HalfOf(r, i) == IF i % 2 = 1 THEN r[(i + 1) \div 2].first ELSE r[i \div 2].second
Unterminated(r) == [i \in 1..(2 * Len(r)) |-> [op |-> "key", half |-> HalfOf(r, i)]]
KeyWrites(r) ==
  Unterminated(r) \o
  (IF Len(r) < MaxKeys THEN <<[op |-> "key", half |-> Zero], [op |-> "key", half |-> Zero]>> ELSE <<>>)
SettingWrites(s) == [i \in DOMAIN s |-> [op |-> "set", field |-> s[i][1], value |-> s[i][2]]]
Script(j) ==
  <<Auth(j.code)>>
  \o (IF j.ring = NoRing THEN <<>> ELSE KeyWrites(j.ring))
  \o SettingWrites(j.settings)
  \o (IF j.newCode = NoCode THEN <<>> ELSE <<[op |-> "newauth", code |-> j.newCode]>>)

Connect(j) ==
  /\ life = "window" /\ ~link
  /\ link' = TRUE /\ todo' = Script(j) /\ ring' = j.ring /\ newCode' = NoCode
  /\ UNCHANGED <<life, config, mounted, flash, needsReset, flags, upload, unsaved, uploaded, faults>>

(* disconnected(), and the restart that follows it: at the end of the        *)
(* script, when the link is lost, and when the window closes.  A ring counts *)
(* as uploaded when all of it was written before the array is saved.         *)
KeysLeft == \E i \in DOMAIN todo : todo[i].op = "key"

Hangup(ok) ==
  /\ LET saved == link /\ updateKeysAtDisconnect /\ mounted /\ ok
     IN /\ flash' = IF saved THEN [flash EXCEPT !.keys = keys] ELSE flash
        /\ uploaded' = IF ~saved THEN uploaded ELSE IF KeysLeft \/ ring = NoRing THEN Unknown ELSE ring
  /\ NoSession
  /\ ForgetUpload

Disconnect(ok) ==
  /\ link /\ Works(ok)
  /\ Hangup(ok)
  /\ UNCHANGED <<life, config, mounted, needsReset, unsaved>>

(* handle_settings_mode_exit(): back to broadcasting with what RAM holds. *)
CloseWindow(ok) ==
  /\ life = "window" /\ ~needsReset /\ Works(ok)
  /\ life' = "on"
  /\ Hangup(ok)
  /\ UNCHANGED <<config, mounted, needsReset, unsaved>>

(* The same with a reset asked for; a client is disconnected before it. *)
CloseWithReset(ok) ==
  /\ life = "window" /\ needsReset /\ ~link /\ Works(ok)
  /\ Start(ok, FALSE)

--------------------------------------------------------------------------------
(* The writes. *)

Write(op) == link /\ todo # <<>> /\ Head(todo).op \in op
Done == todo' = Tail(todo)
(* An error makes the script end. *)
Abort == todo' = <<>>

(* chrc_write_auth() and beacon_glue_handle_auth().  The new code of an      *)
(* authorized client comes this way, too.                                    *)
TheCode == DefaultCode  \* load() reads another one, but no operation stores one

WriteAuth ==
  /\ Write({"auth", "newauth"}) /\ Done
  /\ newCode' = IF Head(todo).op = "newauth" THEN Head(todo).code ELSE newCode
  /\ \/ /\ Head(todo).code = TheCode
        /\ authorizedGatt' = TRUE /\ allowedChange' = TRUE
        /\ UNCHANGED needsReset
     \/ /\ Head(todo).code # TheCode
        /\ allowedChange' = FALSE /\ needsReset' = FALSE
        /\ UNCHANGED authorizedGatt
  /\ UNCHANGED <<life, config, mounted, flash, upload, link, ring, unsaved, uploaded, faults>>

(* write_authorize() refuses with an error, the callback without one, except *)
(* that of the keys.                                                         *)
Refused ==
  /\ Write({"key", "set"})
  /\ ~authorizedGatt \/ ~allowedChange
  /\ IF authorizedGatt /\ Head(todo).op = "set" THEN Done ELSE Abort
  /\ UNCHANGED <<life, config, mounted, flash, needsReset, flags, upload, link, ring, newCode, unsaved,
                 uploaded, faults>>

(* chrc_write_key(), beacon_glue_handle_key(), set_key_chunk(), set_num_keys() *)
KeyAt == keysReceived \div 2
IsSecond == keysReceived % 2 = 1

WriteKey ==
  /\ Write({"key"}) /\ authorizedGatt /\ allowedChange
  /\ keysReceived < 2 * MaxKeys
  /\ keysReceived' = keysReceived + 1
  /\ IF IsSecond
     THEN /\ keys' = [keys EXCEPT ![KeyAt].second = Head(todo).half]
          /\ numKeys' = KeyAt + 1
          /\ needsReset' = TRUE /\ updateKeysAtDisconnect' = TRUE
     ELSE /\ keys' = [keys EXCEPT ![KeyAt].first = Head(todo).half]
          /\ UNCHANGED <<numKeys, needsReset, updateKeysAtDisconnect>>
  /\ Done
  /\ UNCHANGED <<life, conf, mounted, flash, flags, link, ring, newCode, unsaved, uploaded, faults>>

(* The callback of a setting: the value is validated, applied and saved; a   *)
(* reset is asked for whether or not it was accepted.                        *)
StoredRaw(f, v) == v  \* mutant: what came in is stored, not what was made of it
Stored(f, v) == Applied(f, conf[f], v)

WriteSetting(ok) ==
  /\ Write({"set"}) /\ authorizedGatt /\ allowedChange
  /\ LET f == Head(todo).field
         v == Head(todo).value
     IN /\ needsReset' = (needsReset \/ f \in NeedsReset)
        /\ \/ /\ Accepts(f, v) /\ Works(ok)
              /\ conf' = [conf EXCEPT ![f] = Applied(f, conf[f], v)]
              /\ \/ /\ ok /\ mounted
                    /\ flash' = [flash EXCEPT !.field[f] = Stored(f, v)]
                    /\ unsaved' = unsaved \ {f}
                 \/ /\ ~(ok /\ mounted)
                    /\ unsaved' = unsaved \cup {f}
                    /\ UNCHANGED flash
           \/ /\ ~Accepts(f, v) /\ ok
              /\ UNCHANGED <<conf, flash, unsaved, faults>>
  /\ Done
  /\ UNCHANGED <<life, keys, numKeys, mounted, flags, upload, link, ring, newCode, uploaded>>

Next ==
  \/ \E ok \in BOOLEAN : PowerOn(ok) \/ SwitchOff(ok) \/ Disconnect(ok) \/ CloseWindow(ok)
                         \/ CloseWithReset(ok) \/ WriteSetting(ok)
  \/ \E ok, button \in BOOLEAN : Crash(ok, button)
  \/ OpenWindow \/ WriteAuth \/ Refused \/ WriteKey
  \/ \E j \in Jobs : Connect(j)

Spec == Init /\ [][Next]_vars

--------------------------------------------------------------------------------
(* What the settings promise. *)

Valid == [f \in FieldNames |->
  CASE f \in {"fmdn", "airtag", "turnedOn"} -> {0, 1}
    [] f = "period" -> Periods
    [] f = "changeInterval" -> {v \in 32..MaxInterval : v % 8 = 0}
    [] f = "power" -> 0..2
    [] f = "accel" -> 0..MaxThreshold
    [] OTHER -> Int]

InRange == \A f \in FieldNames : conf[f] \in Valid[f]

(* Every variable holds a value of its type; no setting is out of range,     *)
(* whatever a client sent and flash held.                                    *)
TypeOK ==
  /\ life \in {"off", "on", "window"}
  /\ InRange
  /\ keys \in KeyArray /\ numKeys \in 0..MaxKeys
  /\ \A f \in FieldNames : flash.field[f] \in Int \cup {Absent}
  /\ flash.keys \in KeyArray
  /\ mounted \in BOOLEAN /\ needsReset \in BOOLEAN /\ link \in BOOLEAN
  /\ authorizedGatt \in BOOLEAN /\ allowedChange \in BOOLEAN /\ updateKeysAtDisconnect \in BOOLEAN
  /\ keysReceived \in 0..(2 * MaxKeys)
  /\ unsaved \subseteq FieldNames /\ faults \in 0..MaxFaults

(* A reset at any moment finds the settings the beacon is running with:      *)
(* range, alignment, narrowing and defaults of the setters agree with those  *)
(* of load().  Excepted are fields whose save failed.                        *)
SettingsSurviveReset ==
  mounted => \A f \in FieldNames \ unsaved : LoadedField(f, flash.field[f]) = conf[f]

(* A ring that was uploaded to its end is what a reset will find, until      *)
(* another one is saved: not one that was cut before a key was whole, or     *)
(* lost with a crash, or shorter or longer by old keys.                      *)
UploadedRingKept ==
  uploaded # Unknown => LoadedRing = uploaded

(* What README.md says of -n: an authorized client sets a new code.          *)
NewCodeTaken ==
  link /\ authorizedGatt /\ newCode # NoCode => TheCode = newCode

================================================================================
