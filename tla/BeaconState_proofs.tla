--------------------------- MODULE BeaconState_proofs ---------------------------
(****************************************************************************)
(* What TLAPS proves of BeaconState, for every configuration, board, timing  *)
(* and number of faults.                                                     *)
(****************************************************************************)
EXTENDS BeaconState, TLAPS

(* The low-battery count has reached the threshold in a shutdown only.       *)
BadBelow == pc # "off" => power.bad <= UvloBadPowerThreshold

(* Where the main thread can be in each state. *)
HandlerPCs == {"save", "battery", "uvlo", "nokeys", "settings", "burst", "rotate", "button",
               "dark", "accel", "advertise"}
PcOfState ==
  /\ pc = "boot" => state = "Initializing" /\ radio = RadioOff
  /\ pc = "off" => state = "ShuttingDown"
  /\ pc \in {"exit", "leave"} => state = "SettingsMode"
  /\ state = "SettingsMode" /\ pc # "reboot" => gatt.isSettings
  /\ pc = "upload" => state = "FirmwareUpload"
  /\ pc = "reboot" => state \in {"SettingsMode", "FirmwareUpload"}
  /\ pc \in HandlerPCs => state = "Broadcasting"
  /\ pc \in {"sync", "sleep"} => state \in {"Broadcasting", "SettingsMode"}

(* The flags name the AirTag only when it is configured, and settings mode   *)
(* only in settings mode.                                                    *)
FlagsOfState ==
  state = "Broadcasting" =>
    /\ ~bcast.settings
    /\ bcast.airtag => cfg.airtag

(* While the AirTag may be put on the air the address is that of its key.    *)
AddressReady ==
  /\ key.bleAddr = key.payload
  /\ state = "Broadcasting" /\ cfg.airtag => radio.addr = key.bleAddr

IInv ==
  /\ TypeOK /\ BadBelow /\ PcOfState /\ FlagsOfState /\ AddressReady
  /\ ConnectableOnlyInWindow /\ NoAddressPending /\ AirTagAddressMatchesPayload

--------------------------------------------------------------------------------
(* What the operators of the actions return. *)

LEMMA ElapseType ==
  ASSUME TypeOK, NEW d \in Nat, Elapse(d)
  PROVE  since' \in SinceType /\ left' \in LeftType
<1>1. PICK j \in Jitter : since' = SinceAfter(d + j) /\ left' = LeftAfter(d + j)
  BY DEF Elapse
<1>2. d + j \in Nat
  BY TimingAssumption
<1>3. \A t \in DOMAIN Cap : Cap[t] \in Nat
  BY TimingAssumption DEF Cap
<1>4. SinceAfter(d + j) \in SinceType
  BY <1>2, <1>3 DEF SinceAfter, SinceType, Lesser, TypeOK
<1>5. LeftAfter(d + j) \in LeftType
  BY <1>2 DEF LeftAfter, LeftType, Greater, TypeOK, NoBurst
<1> QED
  BY <1>1, <1>4, <1>5

LEMMA ConfigFacts ==
  ASSUME TypeOK
  PROVE  /\ cfg.txPower \in 0..2 /\ cfg.mult \in Nat /\ cfg.keys \in Seq(Key)
         /\ cfg.airtag \in BOOLEAN /\ cfg.fmdn \in BOOLEAN
         /\ FirstKey \in Key \cup {NoKey}
<1>1. cfg \in ConfigType
  BY ConfigsAssumption DEF TypeOK
<1>2. cfg.txPower \in 0..2 /\ cfg.mult \in 1..MaxMult
  BY <1>1 DEF ConfigType
<1>3. cfg.keys \in Seq(Key)
  BY <1>1 DEF ConfigType
<1>4. cfg.airtag \in BOOLEAN /\ cfg.fmdn \in BOOLEAN
  BY <1>1 DEF ConfigType
<1>5. cfg.keys # <<>> => cfg.keys[1] \in Key
  BY <1>3
<1>6. cfg.mult \in Nat
  BY <1>2, TimingAssumption
<1>7. FirstKey \in Key \cup {NoKey}
  BY <1>5 DEF FirstKey, KeyAt
<1> QED
  BY <1>2, <1>3, <1>4, <1>6, <1>7

(* The calls of the radio keep its type. *)
LEMMA RadioCalls ==
  ASSUME NEW r \in RadioType
  PROVE  /\ \A w \in OnAir : AdvStart(r, w) \in RadioType
         /\ \A w \in OnAir : AdvUpdate(r, w) \in RadioType
         /\ \A w \in OnAir, ok \in BOOLEAN : TryAdvStart(r, w, ok) \in RadioType
         /\ AdvStop(r) \in RadioType
         /\ BtDisable(r) \in RadioType /\ BtEnable(r) \in RadioType
         /\ \A a \in Addr : SetMac(r, a) \in RadioType
         /\ \A p \in 0..2 : SetTxPower(r, p) \in RadioType
<1>1. \A w \in OnAir : AdvStart(r, w) \in RadioType /\ AdvUpdate(r, w) \in RadioType
  BY DEF AdvStart, AdvUpdate, RadioType
<1>2. \A w \in OnAir, ok \in BOOLEAN : TryAdvStart(r, w, ok) \in RadioType
  BY <1>1 DEF TryAdvStart
<1>3. AdvStop(r) \in RadioType
  BY DEF AdvStop, RadioType, OnAir
<1>4. BtDisable(r) \in RadioType
  BY DEF BtDisable, RadioType, OnAir
<1>5. BtEnable(r) \in RadioType
  BY DEF BtEnable, RadioType
<1>6. \A a \in Addr : SetMac(r, a) \in RadioType
  BY DEF SetMac, RadioType
<1>7. \A p \in 0..2 : SetTxPower(r, p) \in RadioType
  BY DEF SetTxPower, RadioType
<1> QED
  BY <1>1, <1>2, <1>3, <1>4, <1>5, <1>6, <1>7

(* What each call changes of what the controller advertises and its address. *)
LEMMA RadioFields ==
  ASSUME NEW r \in RadioType
  PROVE  /\ AdvStop(r).enabled = r.enabled /\ AdvStop(r).addr = r.addr
         /\ AdvStop(r).nextAddr = r.nextAddr /\ AdvStop(r).onAir = "nothing"
         /\ BtDisable(r).enabled = FALSE /\ BtDisable(r).nextAddr = r.nextAddr
         /\ BtDisable(r).onAir = "nothing"
         /\ BtEnable(r).addr = r.nextAddr /\ BtEnable(r).nextAddr = r.nextAddr
         /\ BtEnable(r).onAir = r.onAir
         /\ \A a : /\ SetMac(r, a).enabled = r.enabled /\ SetMac(r, a).addr = r.addr
                   /\ SetMac(r, a).nextAddr = a /\ SetMac(r, a).onAir = r.onAir
         /\ \A p : /\ SetTxPower(r, p).enabled = r.enabled /\ SetTxPower(r, p).addr = r.addr
                   /\ SetTxPower(r, p).nextAddr = r.nextAddr
                   /\ SetTxPower(r, p).onAir = r.onAir
BY DEF RadioType, AdvStop, BtDisable, BtEnable, SetMac, SetTxPower

LEMMA AdvFields ==
  ASSUME NEW r \in RadioType, NEW w, NEW ok,
         NEW t, t \in {AdvStart(r, w), AdvUpdate(r, w), TryAdvStart(r, w, ok)}
  PROVE  /\ t.enabled = r.enabled /\ t.addr = r.addr /\ t.nextAddr = r.nextAddr
         /\ t.onAir = r.onAir \/ t.onAir = w
<1>1. t = r \/ t = [r EXCEPT !.onAir = w]
  BY DEF AdvStart, AdvUpdate, TryAdvStart
<1> QED
  BY <1>1 DEF RadioType

(* broadcast() touches neither the address in use nor the power of the       *)
(* controller, and puts only what the flags name on the air.                 *)
LEMMA BroadcastFacts ==
  ASSUME NEW r \in RadioType, NEW b \in BcastType, NEW a \in Addr, NEW ok \in BOOLEAN,
         NEW done, done = Broadcast(r, b, a, ok)
  PROVE  /\ done.radio \in RadioType /\ done.bcast \in BcastType
         /\ done.radio.enabled = r.enabled /\ done.radio.addr = r.addr
         /\ done.radio.nextAddr = r.nextAddr \/ (b.airtag /\ done.radio.nextAddr = a)
         /\ done.radio.onAir = "settings" => r.onAir = "settings"
         /\ done.radio.onAir = "airtag" => r.onAir = "airtag" \/ b.airtag
         /\ done.bcast.airtag = b.airtag /\ done.bcast.settings = b.settings
<1>1. /\ done.radio = AdvStop(r) \/ done.radio = r
         \/ (done.radio = AdvUpdate(r, "airtag") /\ b.airtag)
         \/ done.radio = AdvUpdate(r, "fmdn")
         \/ (done.radio = TryAdvStart(SetMac(r, a), "airtag", ok) /\ b.airtag)
         \/ done.radio = TryAdvStart(r, "fmdn", ok)
      /\ \/ done.bcast = b
         \/ done.bcast = [b EXCEPT !.anything = TRUE]
         \/ done.bcast = [b EXCEPT !.anything = FALSE]
  BY DEF Broadcast, BcastType
<1>2. "airtag" \in OnAir /\ "fmdn" \in OnAir
  BY DEF OnAir
<1>3. SetMac(r, a) \in RadioType
  BY RadioCalls
<1>4. done.radio \in RadioType
  BY <1>1, <1>2, <1>3, RadioCalls
<1>5. /\ done.bcast \in BcastType
      /\ done.bcast.airtag = b.airtag /\ done.bcast.settings = b.settings
  BY <1>1 DEF BcastType
<1> DEFINE started == TryAdvStart(SetMac(r, a), "airtag", ok)
<1>6. /\ started.enabled = r.enabled /\ started.addr = r.addr
      /\ started.nextAddr = a /\ started.onAir \in {r.onAir, "airtag"}
  <2> DEFINE m == SetMac(r, a)
  <2>1. m.enabled = r.enabled /\ m.addr = r.addr /\ m.nextAddr = a /\ m.onAir = r.onAir
    BY DEF SetMac, RadioType
  <2>2. started.enabled = m.enabled /\ started.addr = m.addr /\ started.nextAddr = m.nextAddr
    BY <1>3, AdvFields
  <2>3. started.onAir = m.onAir \/ started.onAir = "airtag"
    BY <1>3, AdvFields
  <2> QED
    BY <2>1, <2>2, <2>3
<1> HIDE DEF started
<1>7. /\ done.radio.enabled = r.enabled /\ done.radio.addr = r.addr
      /\ done.radio.nextAddr = r.nextAddr \/ (b.airtag /\ done.radio.nextAddr = a)
  <2>1. CASE done.radio = AdvStop(r) \/ done.radio = r
    BY <2>1 DEF AdvStop, RadioType
  <2>2. CASE done.radio = AdvUpdate(r, "airtag") \/ done.radio = AdvUpdate(r, "fmdn")
    BY <2>2, AdvFields
  <2>3. CASE done.radio = started /\ b.airtag
    BY <2>3, <1>6
  <2>4. CASE done.radio = TryAdvStart(r, "fmdn", ok)
    BY <2>4, AdvFields
  <2> QED
    BY <1>1, <2>1, <2>2, <2>3, <2>4 DEF started
<1>8. /\ done.radio.onAir = "settings" => r.onAir = "settings"
      /\ done.radio.onAir = "airtag" => r.onAir = "airtag" \/ b.airtag
  <2>1. CASE done.radio = AdvStop(r) \/ done.radio = r
    BY <2>1 DEF AdvStop, RadioType
  <2>2. CASE (done.radio = AdvUpdate(r, "airtag") /\ b.airtag) \/ done.radio = AdvUpdate(r, "fmdn")
    BY <2>2, AdvFields
  <2>3. CASE done.radio = started /\ b.airtag
    BY <2>3, <1>6
  <2>4. CASE done.radio = TryAdvStart(r, "fmdn", ok)
    BY <2>4, AdvFields
  <2> QED
    BY <1>1, <2>1, <2>2, <2>3, <2>4 DEF started
<1> QED
  BY <1>4, <1>5, <1>7, <1>8

LEMMA FaultCount ==
  ASSUME TypeOK
  PROVE  /\ StartResults \subseteq BOOLEAN
         /\ \A b : BroadcastResults(b) \subseteq BOOLEAN
         /\ \A ok \in StartResults : CountFault(ok) \in AuxType
         /\ \A b : \A ok \in BroadcastResults(b) : CountFault(ok) \in AuxType
<1>1. MaxFaults \in Nat
  BY TimingAssumption
<1>2. \A b : BroadcastResults(b) \subseteq StartResults
  BY DEF BroadcastResults, StartResults
<1>3. StartResults \subseteq BOOLEAN
  BY DEF StartResults
<1>4. aux \in AuxType /\ aux.faults \in 0..MaxFaults
  BY DEF TypeOK, AuxType
<1>5. ASSUME NEW ok \in StartResults PROVE CountFault(ok) \in AuxType
  <2>1. ~ok => aux.faults < MaxFaults
    BY DEF StartResults
  <2>2. (IF ok THEN aux.faults ELSE aux.faults + 1) \in 0..MaxFaults
    BY <1>1, <1>4, <2>1
  <2>3. CountFault(ok) = [aux EXCEPT !.faults = IF ok THEN aux.faults ELSE aux.faults + 1]
    BY DEF CountFault
  <2> QED
    BY <1>4, <2>2, <2>3 DEF AuxType
<1> QED
  BY <1>2, <1>3, <1>5

LEMMA DoBroadcastFacts ==
  ASSUME TypeOK, NEW r \in RadioType, NEW b \in BcastType, NEW a \in Addr, DoBroadcast(r, b, a)
  PROVE  /\ radio' \in RadioType /\ bcast' \in BcastType /\ aux' \in AuxType
         /\ radio'.enabled = r.enabled /\ radio'.addr = r.addr
         /\ radio'.nextAddr = r.nextAddr \/ (b.airtag /\ radio'.nextAddr = a)
         /\ radio'.onAir = "settings" => r.onAir = "settings"
         /\ radio'.onAir = "airtag" => r.onAir = "airtag" \/ b.airtag
         /\ bcast'.airtag = b.airtag /\ bcast'.settings = b.settings
<1>1. PICK ok \in BroadcastResults(b) :
        /\ radio' = Broadcast(r, b, a, ok).radio
        /\ bcast' = Broadcast(r, b, a, ok).bcast
        /\ aux' = CountFault(ok)
  BY DEF DoBroadcast
<1>2. ok \in BOOLEAN /\ aux' \in AuxType
  BY <1>1, FaultCount
<1> QED
  BY <1>1, <1>2, BroadcastFacts

LEMMA LowReadsType ==
  ASSUME TypeOK
  PROVE  \A v : LowReadsAfter(v) \in Nat
<1>1. aux.lowReads \in Nat
  BY DEF TypeOK, AuxType
<1>2. UvloBadPowerThreshold \in Nat
  BY TimingAssumption
<1> QED
  BY <1>1, <1>2 DEF LowReadsAfter, Lesser

(* The radio is taken down for a new address, and back with it. *)
LEMMA Readdressed ==
  ASSUME NEW r \in RadioType, NEW a \in Addr, NEW p \in 0..2,
         NEW back, back = SetTxPower(BtEnable(SetMac(BtDisable(AdvStop(r)), a)), p)
  PROVE  /\ back \in RadioType
         /\ back.addr = a /\ back.nextAddr = a /\ back.onAir = "nothing"
<1> DEFINE down == BtDisable(AdvStop(r))
<1>1. down \in RadioType /\ down.onAir = "nothing"
  BY RadioCalls DEF BtDisable, RadioType
<1> DEFINE set == SetMac(down, a)
<1> HIDE DEF down
<1>2. set \in RadioType /\ set.nextAddr = a /\ set.onAir = "nothing"
  BY <1>1, RadioCalls DEF SetMac, RadioType
<1> DEFINE up == BtEnable(set)
<1> HIDE DEF set
<1>3. up \in RadioType /\ up.nextAddr = a /\ up.addr = a /\ up.onAir = "nothing"
  BY <1>2, RadioCalls DEF BtEnable, RadioType
<1>4. back = SetTxPower(up, p)
  BY DEF up, set, down
<1> HIDE DEF up
<1> QED
  BY <1>3, <1>4, RadioCalls DEF SetTxPower, RadioType

(* The same without a new address. *)
LEMMA Restarted ==
  ASSUME NEW r \in RadioType, NEW p \in 0..2,
         NEW back, back = SetTxPower(BtEnable(BtDisable(AdvStop(r))), p)
  PROVE  /\ back \in RadioType
         /\ back.addr = back.nextAddr /\ back.onAir = "nothing"
<1> DEFINE down == BtDisable(AdvStop(r))
<1>1. down \in RadioType /\ down.onAir = "nothing"
  BY RadioCalls DEF BtDisable, RadioType
<1> DEFINE up == BtEnable(down)
<1> HIDE DEF down
<1>2. up \in RadioType /\ up.nextAddr = up.addr /\ up.onAir = "nothing"
  BY <1>1, RadioCalls DEF BtEnable, RadioType
<1>3. back = SetTxPower(up, p)
  BY DEF up, down
<1> HIDE DEF up
<1> QED
  BY <1>2, <1>3, RadioCalls DEF SetTxPower, RadioType

LEMMA BackInWindow ==
  ASSUME TypeOK
  PROVE  SetTxPower(BtEnable(EntryAddr(BtDisable(AdvStop(radio)))), 0) \in RadioType
<1>1. radio \in RadioType /\ SettingsAddr \in Addr /\ 0 \in 0..2
  BY DEF TypeOK, Addr
<1>2. SetTxPower(BtEnable(SetMac(BtDisable(AdvStop(radio)), SettingsAddr)), 0) \in RadioType
  BY <1>1, Readdressed
<1>3. SetTxPower(BtEnable(BtDisable(AdvStop(radio))), 0) \in RadioType
  BY <1>1, Restarted
<1> QED
  BY <1>2, <1>3 DEF EntryAddr

(* A system off, and a reset of the chip. *)
LEMMA PowerOffType ==
  ASSUME TypeOK, PowerOff
  PROVE  radio' \in RadioType /\ gatt' \in GattType
<1>1. radio' \in RadioType
  BY RadioCalls DEF PowerOff, TypeOK
<1>2. gatt' \in GattType
  BY DEF PowerOff, Closed, GattType, TypeOK
<1> QED
  BY <1>1, <1>2

LEMMA PowerZeroTypes ==
  /\ NotBroadcasting \in BcastType /\ RadioOff \in RadioType /\ NoSession \in GattType
  /\ AllFalse \in SnapType /\ KeyZero \in KeyType /\ SinceZero \in SinceType
  /\ LeftZero \in LeftType /\ PowerZero \in PowerType
<1>1. ChargeLockDuration \in Nat /\ UvloBadPowerThreshold \in Nat
  BY TimingAssumption
<1>2. NotBroadcasting \in BcastType /\ NoSession \in GattType /\ AllFalse \in SnapType
  BY DEF NotBroadcasting, BcastType, NoSession, GattType, AllFalse, SnapType
<1>3. RadioOff \in RadioType
  BY DEF RadioOff, RadioType, OnAir, Addr
<1>4. KeyZero \in KeyType /\ LeftZero \in LeftType
  BY DEF KeyZero, KeyType, LeftZero, LeftType
<1>5. SinceZero \in SinceType
  BY <1>1 DEF SinceZero, SinceType
<1>6. PowerZero \in PowerType
  BY <1>1 DEF PowerZero, PowerType
<1> QED
  BY <1>2, <1>3, <1>4, <1>5, <1>6

LEMMA PowerUpType ==
  ASSUME TypeOK, PowerUp, aux' \in AuxType
  PROVE  TypeOK' /\ BadBelow'
<1>1. power'.bad <= UvloBadPowerThreshold
  BY TimingAssumption DEF PowerUp, PowerZero
<1>2. cfg' \in Configs
  BY DEF PowerUp, Reloaded, TypeOK
<1> QED
  BY <1>1, <1>2, PowerZeroTypes DEF PowerUp, TypeOK, BadBelow, PCs, States

--------------------------------------------------------------------------------
(* A failed start of the iBeacon is counted as any other failed start.       *)
LEMMA IBeaconCount ==
  ASSUME TypeOK, NEW ok \in IBeaconResults
  PROVE  ok \in BOOLEAN /\ CountFault(ok) \in AuxType
BY FaultCount DEF IBeaconResults, StartResults

LEMMA IBeaconType ==
  ASSUME NEW r \in RadioType, NEW ok \in BOOLEAN
  PROVE  WithIBeacon(r, ok) \in RadioType
BY RadioCalls DEF WithIBeacon, OnAir

(* Every action preserves the types. *)
LEMMA TypeStep ==
  ASSUME TypeOK, BadBelow, [Next]_vars
  PROVE  TypeOK' /\ BadBelow'
<1>1. CASE BootOff
  <2>1. radio' \in RadioType /\ gatt' \in GattType
    BY <1>1, PowerOffType DEF BootOff
  <2> QED
    BY <1>1, <2>1 DEF BootOff, PowerOff, TypeOK, BadBelow, PCs, States
<1>2. CASE BootOn
  <2>1. key' \in KeyType
    BY <1>2, ConfigFacts DEF BootOn, KeyType
  <2>2. bcast' \in BcastType
    BY <1>2, PowerZeroTypes DEF BootOn
  <2>3. power' \in PowerType
    BY <1>2, VoltagesAssumption DEF BootOn, TypeOK, PowerType
  <2>4. \A ok \in IBeaconResults, n \in Nat :
          [CountFault(ok) EXCEPT !.dirty = FALSE, !.lowReads = n] \in AuxType
    BY <1>2, IBeaconCount DEF AuxType
  <2>5. aux' \in AuxType
    <3>1. PICK v \in Voltages, ok \in IBeaconResults :
            aux' = [CountFault(ok) EXCEPT !.dirty = FALSE, !.lowReads = LowReadsAfter(v)]
      BY <1>2 DEF BootOn
    <3>2. LowReadsAfter(v) \in Nat
      BY <3>1, LowReadsType
    <3> QED
      BY <3>1, <3>2, <2>4
  <2>6. BootAddr(FirstKey) \in Addr
    BY <1>2, ConfigFacts DEF BootOn, BootAddr, Addr
  <2>7. radio' \in RadioType
    <3>1. PICK ok \in IBeaconResults :
            radio' = WithIBeacon(
              SetTxPower(BtEnable(SetMac(radio, BootAddr(FirstKey))), cfg.txPower), ok)
      BY <1>2 DEF BootOn
    <3>2. SetTxPower(BtEnable(SetMac(radio, BootAddr(FirstKey))), cfg.txPower) \in RadioType
      BY <2>6, ConfigFacts, RadioCalls DEF TypeOK
    <3> QED
      BY <3>1, <3>2, IBeaconCount, IBeaconType
  <2>8. since' \in SinceType /\ left' \in LeftType
    BY <1>2, ElapseType, TimingAssumption DEF BootOn
  <2>9. turnedOn' \in BOOLEAN
    BY <1>2 DEF BootOn, TypeOK, Buttons
  <2>10. power'.bad = power.bad
    BY <1>2 DEF BootOn, TypeOK, PowerType
  <2> QED
    BY <1>2, <2>1, <2>2, <2>3, <2>4, <2>5, <2>6, <2>7, <2>8, <2>9, <2>10 DEF BootOn, TypeOK, BadBelow, PCs, States
<1>3. CASE Sync
  <2>1. snap' \in SnapType
    BY <1>3 DEF Sync, SnapOf, SnapType, TypeOK, GattType
  <2> QED
    BY <1>3, <2>1 DEF Sync, TypeOK, BadBelow, PCs, States
<1>4. CASE Sleep
  <2>1. since' \in SinceType /\ left' \in LeftType
    BY <1>4, ElapseType, ConfigFacts DEF Sleep
  <2>2. power' \in PowerType
    BY <1>4, ConfigFacts DEF Sleep, TypeOK, PowerType
  <2>3. power'.bad = power.bad
    BY <1>4 DEF Sleep, TypeOK, PowerType
  <2> QED
    BY <1>4, <2>1, <2>2, <2>3 DEF Sleep, TypeOK, BadBelow, PCs, States
<1>5. CASE ExitNotDue
  BY <1>5 DEF ExitNotDue, TypeOK, BadBelow, PCs, States
<1>6. CASE ExitDue
  <2>1. ExitWait(snap) \in Nat
    BY <1>6, TimingAssumption DEF ExitDue, ExitWait
  <2>2. since' \in SinceType /\ left' \in LeftType
    BY <1>6, <2>1, ElapseType DEF ExitDue, TypeOK
  <2> QED
    BY <1>6, <2>1, <2>2 DEF ExitDue, TypeOK, BadBelow, PCs, States
<1>7. CASE LeaveForUpload
  <2>1. radio' \in RadioType
    BY <1>7, FaultCount, RadioCalls DEF LeaveForUpload, TypeOK, OnAir
  <2>2. aux' \in AuxType
    BY <1>7, FaultCount DEF LeaveForUpload
  <2>3. gatt' \in GattType
    BY <1>7 DEF LeaveForUpload, Opened, GattType, TypeOK
  <2> QED
    BY <1>7, <2>1, <2>2, <2>3 DEF LeaveForUpload, TypeOK, BadBelow, PCs, States
<1>8. CASE UploadWait
  <2>1. since' \in SinceType /\ left' \in LeftType
    BY <1>8, ElapseType, TimingAssumption DEF UploadWait
  <2> QED
    BY <1>8, <2>1 DEF UploadWait, TypeOK, BadBelow, PCs, States
<1>9. CASE Leave
  <2>1. bcast' \in BcastType
    BY <1>9, PowerZeroTypes DEF Leave
  <2>2. gatt' \in GattType
    BY <1>9 DEF Leave, Closed, GattType, TypeOK
  <2>3. radio \in RadioType /\ key.bleAddr \in Addr /\ "ibeacon" \in OnAir
    BY <1>9 DEF Leave, TypeOK, KeyType, Addr, OnAir
  <2>4. \A c \in 0..2 : SetTxPower(BtEnable(ExitAddr(BtDisable(AdvStop(radio)))), c) \in RadioType
    BY <1>9, <2>3, Readdressed, Restarted DEF Leave, ExitAddr
  <2>5. radio' \in RadioType
    BY <1>9, <2>4, ConfigFacts, IBeaconCount, IBeaconType DEF Leave
  <2>6. aux' \in AuxType
    BY <1>9, IBeaconCount DEF Leave, TypeOK
  <2> QED
    BY <1>9, <2>1, <2>2, <2>5, <2>6 DEF Leave, TypeOK, BadBelow, PCs, States
<1>10. CASE Reboot
  <2>1. aux' \in AuxType
    BY <1>10 DEF Reboot, TypeOK
  <2> QED
    BY <1>10, <2>1, PowerUpType DEF Reboot
<1>11. CASE SaveTime
  <2>1. since' \in SinceType
    BY <1>11 DEF SaveTime, SinceType, TypeOK
  <2> QED
    BY <1>11, <2>1 DEF SaveTime, TypeOK, BadBelow, PCs, States
<1>12. CASE BatteryNotDue
  BY <1>12 DEF BatteryNotDue, TypeOK, BadBelow, PCs, States
<1>13. CASE BatteryCheck
  <2>1. since' \in SinceType
    BY <1>13 DEF BatteryCheck, SinceType, TypeOK, BatteryTimerReset
  <2>2. power' \in PowerType
    BY <1>13, VoltagesAssumption DEF BatteryCheck, TypeOK, PowerType
  <2>3. power'.bad = power.bad
    BY <1>13 DEF BatteryCheck, TypeOK, PowerType
  <2>4. radio \in RadioType /\ bcast \in BcastType /\ key.bleAddr \in Addr
    BY <1>13 DEF BatteryCheck, TypeOK, KeyType, Addr
  <2>5. \A ok \in BOOLEAN : /\ Broadcast(radio, bcast, key.bleAddr, ok).radio \in RadioType
                          /\ Broadcast(radio, bcast, key.bleAddr, ok).bcast \in BcastType
    BY <1>13, <2>4, BroadcastFacts DEF BatteryCheck
  <2>6. radio' \in RadioType /\ bcast' \in BcastType
    BY <1>13, <2>4, <2>5, FaultCount DEF BatteryCheck
  <2>7. \A a \in AuxType, n \in Nat : [a EXCEPT !.lowReads = n] \in AuxType
    BY <1>13 DEF BatteryCheck, AuxType
  <2>8. aux' \in AuxType
    BY <1>13, <2>7, FaultCount, LowReadsType DEF BatteryCheck, TypeOK
  <2> QED
    BY <1>13, <2>1, <2>2, <2>3, <2>4, <2>5, <2>6, <2>7, <2>8 DEF BatteryCheck, TypeOK, BadBelow, PCs, States
<1>14. CASE BatteryGood
  <2>1. 0 \in 0..(UvloBadPowerThreshold + 1) /\ 0 <= UvloBadPowerThreshold
    BY <1>14, TimingAssumption DEF BatteryGood
  <2>2. power' \in PowerType /\ power'.bad = 0
    BY <1>14, <2>1 DEF BatteryGood, TypeOK, PowerType
  <2> QED
    BY <1>14, <2>1, <2>2 DEF BatteryGood, TypeOK, BadBelow, PCs, States
<1>15. CASE BatteryLow
  <2>1. /\ UvloBadPowerThreshold \in Nat /\ ChargeLockDuration \in Nat
        /\ power.bad \in 0..UvloBadPowerThreshold /\ power.lock \in Int
    BY <1>15, TimingAssumption DEF BatteryLow, BadBelow, TypeOK, PowerType
  <2>2. \A c \in BOOLEAN : /\ LockAfter(c) \in Int
                         /\ BadAfter(LockAfter(c)) \in 0..(UvloBadPowerThreshold + 1)
    BY <1>15, <2>1 DEF BatteryLow, LockAfter, BadAfter
  <2>3. Charging \subseteq BOOLEAN
    BY <1>15 DEF BatteryLow, Charging
  <2>4. power' \in PowerType
    BY <1>15, <2>2, <2>3 DEF BatteryLow, TypeOK, PowerType
  <2>5. since' \in SinceType
    BY <1>15 DEF BatteryLow, TypeOK, SinceType
  <2>6. radio' \in RadioType /\ gatt' \in GattType
    BY <1>15, PowerOffType DEF BatteryLow, TypeOK
  <2>7. pc' # "off" => power'.bad <= UvloBadPowerThreshold
    BY <1>15 DEF BatteryLow, PowerOff, TypeOK, PowerType
  <2>8. pc' \in PCs /\ state' \in States
    BY <1>15 DEF BatteryLow, PowerOff, TypeOK, PCs, States
  <2> QED
    BY <1>15, <2>1, <2>2, <2>3, <2>4, <2>5, <2>6, <2>7, <2>8 DEF BatteryLow, TypeOK, BadBelow, PCs, States
<1>16. CASE NokeysShutdown
  <2>1. radio' \in RadioType /\ gatt' \in GattType
    BY <1>16, PowerOffType DEF NokeysShutdown
  <2> QED
    BY <1>16, <2>1 DEF NokeysShutdown, PowerOff, TypeOK, BadBelow, PCs, States
<1>17. CASE NokeysStay
  BY <1>17 DEF NokeysStay, TypeOK, BadBelow, PCs, States
<1>18. CASE SettingsNotDue
  BY <1>18 DEF SettingsNotDue, TypeOK, BadBelow, PCs, States
<1>19. CASE SettingsEntry
  <2>1. since' \in SinceType
    BY <1>19 DEF SettingsEntry, TypeOK, SinceType
  <2>2. left' \in LeftType
    BY <1>19, TimingAssumption DEF SettingsEntry, TypeOK, LeftType
  <2>3. radio \in RadioType /\ SettingsAddr \in Addr /\ "settings" \in OnAir
    BY <1>19 DEF SettingsEntry, TypeOK, Addr, OnAir
  <2>4. SetTxPower(BtEnable(EntryAddr(BtDisable(AdvStop(radio)))), 0) \in RadioType
    BY <1>19, <2>3, BackInWindow DEF SettingsEntry
  <2>5. radio' \in RadioType
    BY <1>19, <2>3, <2>4, FaultCount, RadioCalls DEF SettingsEntry
  <2>6. aux' \in AuxType
    BY <1>19, FaultCount DEF SettingsEntry
  <2>7. gatt' \in GattType
    BY <1>19 DEF SettingsEntry, Opened, GattType, TypeOK
  <2>8. bcast' \in BcastType
    BY <1>19 DEF SettingsEntry, BcastType
  <2> QED
    BY <1>19, <2>1, <2>2, <2>3, <2>4, <2>5, <2>6, <2>7, <2>8 DEF SettingsEntry, TypeOK, BadBelow, PCs, States
<1>20. CASE MaxPowerBurst
  <2>1. since' \in SinceType
    BY <1>20 DEF MaxPowerBurst, TypeOK, SinceType
  <2>2. BurstLeft \in Nat \cup {NoBurst}
    BY <1>20, ConfigFacts DEF MaxPowerBurst, BurstLeft, TypeOK, LeftType
  <2>3. left' \in LeftType
    BY <1>20, <2>2 DEF MaxPowerBurst, TypeOK, LeftType
  <2>4. radio' \in RadioType
    BY <1>20, ConfigFacts, RadioCalls DEF MaxPowerBurst, TypeOK, NormalPower
  <2> QED
    BY <1>20, <2>1, <2>2, <2>3, <2>4 DEF MaxPowerBurst, TypeOK, BadBelow, PCs, States
<1>21. CASE RotationNotDue
  BY <1>21 DEF RotationNotDue, TypeOK, BadBelow, PCs, States
<1>22. CASE KeyRotation
  <2>1. since' \in SinceType
    BY <1>22 DEF KeyRotation, TypeOK, SinceType
  <2>2. NextKey \in Nat /\ KeyAt(NextKey) \in Key
    BY <1>22, ConfigFacts DEF KeyRotation, KeyAt, NextKey, RotationDue, TypeOK, KeyType
  <2>3. key' \in KeyType
    BY <1>22, <2>2 DEF KeyRotation, KeyType
  <2>4. RotatedRadio(KeyAt(NextKey)) \in RadioType
    BY <1>22, <2>2, ConfigFacts, RadioCalls DEF KeyRotation, RotatedRadio, TypeOK, Addr
  <2>5. [bcast EXCEPT !.anything = FALSE] \in BcastType
    BY <1>22 DEF KeyRotation, TypeOK, BcastType
  <2>6. radio' \in RadioType /\ bcast' \in BcastType /\ aux' \in AuxType
    BY <1>22, <2>2, <2>4, <2>5, DoBroadcastFacts DEF KeyRotation, Addr
  <2>7. gatt' \in GattType
    BY <1>22 DEF KeyRotation, Closed, GattType, TypeOK
  <2> QED
    BY <1>22, <2>1, <2>2, <2>3, <2>4, <2>5, <2>6, <2>7 DEF KeyRotation, TypeOK, BadBelow, PCs, States
<1>23. CASE ButtonUp
  BY <1>23 DEF ButtonUp, TypeOK, BadBelow, PCs, States
<1>24. CASE ShortPress
  <2>1. since' \in SinceType /\ left' \in LeftType
    BY <1>24, ElapseType DEF ShortPress
  <2> QED
    BY <1>24, <2>1 DEF ShortPress, TypeOK, BadBelow, PCs, States
<1>25. CASE LongPress
  BY <1>25 DEF LongPress, TypeOK, BadBelow, PCs, States
<1>40. CASE SwitchOff
  <2>1. radio' \in RadioType /\ gatt' \in GattType
    BY <1>40, PowerOffType DEF SwitchOff
  <2> QED
    BY <1>40, <2>1 DEF SwitchOff, PowerOff, TypeOK, BadBelow, PCs, States
<1>26. CASE Accelerometer
  <2>1. \A n \in Nat : [since EXCEPT !.accel = 0, !.accelInit = n] \in SinceType
    BY <1>26 DEF Accelerometer, TypeOK, SinceType
  <2>2. [since EXCEPT !.accel = 0].accelInit \in Nat /\ since.accelInit \in Nat
    BY <1>26 DEF Accelerometer, TypeOK, SinceType, Cap
  <2>3. since' \in SinceType
    BY <1>26, <2>1, <2>2 DEF Accelerometer, TypeOK
  <2> QED
    BY <1>26, <2>1, <2>2, <2>3 DEF Accelerometer, TypeOK, BadBelow, PCs, States
<1>27. CASE InitialBroadcast
  <2>1. OnlyAirTag(bcast) \in BcastType /\ OnlyFmdn(bcast) \in BcastType
    BY <1>27 DEF InitialBroadcast, OnlyAirTag, OnlyFmdn, TypeOK, BcastType
  <2>2. radio' \in RadioType /\ bcast' \in BcastType /\ aux' \in AuxType
    BY <1>27, <2>1, DoBroadcastFacts DEF InitialBroadcast, TypeOK, KeyType, Addr
  <2> QED
    BY <1>27, <2>1, <2>2 DEF InitialBroadcast, TypeOK, BadBelow, PCs, States
<1>28. CASE Alternate
  <2>1. OtherProtocol(bcast) \in BcastType
    BY <1>28 DEF Alternate, OtherProtocol, OnlyAirTag, OnlyFmdn, TypeOK, BcastType
  <2>2. radio' \in RadioType /\ bcast' \in BcastType /\ aux' \in AuxType
    BY <1>28, <2>1, DoBroadcastFacts DEF Alternate, TypeOK, KeyType, Addr
  <2> QED
    BY <1>28, <2>1, <2>2 DEF Alternate, TypeOK, BadBelow, PCs, States
<1>29. CASE KeepBroadcasting
  BY <1>29 DEF KeepBroadcasting, TypeOK, BadBelow, PCs, States
<1>30. CASE Connect
  <2>1. gatt' \in GattType
    BY <1>30 DEF Connect, GattType, TypeOK
  <2>2. radio' \in RadioType
    BY <1>30, RadioCalls DEF Connect, TypeOK
  <2> QED
    BY <1>30, <2>1, <2>2 DEF Connect, TypeOK, BadBelow, PCs, States
<1>31. CASE AuthAccepted
  <2>1. gatt' \in GattType
    BY <1>31 DEF AuthAccepted, GattType, TypeOK
  <2> QED
    BY <1>31, <2>1 DEF AuthAccepted, TypeOK, BadBelow, PCs, States
<1>32. CASE AuthRefused
  <2>1. gatt' \in GattType
    BY <1>32 DEF AuthRefused, GattType, TypeOK
  <2> QED
    BY <1>32, <2>1 DEF AuthRefused, TypeOK, BadBelow, PCs, States
<1>33. CASE RequestUpload
  <2>1. gatt' \in GattType
    BY <1>33 DEF RequestUpload, GattType, TypeOK
  <2> QED
    BY <1>33, <2>1 DEF RequestUpload, TypeOK, BadBelow, PCs, States
<1>34. CASE Disconnect
  <2>1. gatt' \in GattType
    BY <1>34 DEF Disconnect, GattType, TypeOK
  <2> QED
    BY <1>34, <2>1 DEF Disconnect, TypeOK, BadBelow, PCs, States
<1>35. CASE AdvRestart
  <2>1. gatt' \in GattType
    BY <1>35 DEF AdvRestart, Opened, GattType, TypeOK
  <2>2. radio' \in RadioType
    BY <1>35, FaultCount, RadioCalls DEF AdvRestart, TypeOK, OnAir
  <2>3. aux' \in AuxType
    BY <1>35, FaultCount DEF AdvRestart
  <2> QED
    BY <1>35, <2>1, <2>2, <2>3 DEF AdvRestart, TypeOK, BadBelow, PCs, States
<1>36. CASE Crash
  <2>1. aux' \in AuxType
    BY <1>36, TimingAssumption DEF Crash, TypeOK, AuxType, CountFault
  <2> QED
    BY <1>36, <2>1, PowerUpType DEF Crash
<1>37. CASE PowerOn
  <2>1. aux' \in AuxType
    BY <1>37 DEF PowerOn, TypeOK
  <2> QED
    BY <1>37, <2>1, PowerUpType DEF PowerOn
<1>38. CASE \E f \in FieldNames : WriteField(f)
  <2>1. PICK f \in FieldNames : WriteField(f)
    BY <1>38
  <2>2. gatt' \in GattType
    BY <2>1 DEF WriteField, TypeOK, GattType
  <2>3. aux' \in AuxType
    BY <2>1 DEF WriteField, TypeOK, AuxType
  <2>4. key' \in KeyType
    BY <2>1 DEF WriteField, TypeOK, KeyType
  <2> QED
    BY <2>1, <2>2, <2>3, <2>4 DEF WriteField, TypeOK, BadBelow
<1>39. CASE UNCHANGED vars
  BY <1>39 DEF vars, TypeOK, BadBelow
<1> QED
  BY <1>1, <1>2, <1>3, <1>4, <1>5, <1>6, <1>7, <1>8, <1>9, <1>10, <1>11, <1>12, <1>13, <1>14,
     <1>15, <1>16, <1>17, <1>18, <1>19, <1>20, <1>21, <1>22, <1>23, <1>24, <1>25, <1>26, <1>27,
     <1>28, <1>29, <1>30, <1>31, <1>32, <1>33, <1>34, <1>35, <1>36, <1>37, <1>38, <1>39, <1>40
     DEF Next, Main, Client

--------------------------------------------------------------------------------
(* What the actions that touch the radio leave in it.                        *)

LEMMA RadioOffFacts ==
  /\ RadioOff \in RadioType /\ RadioOff.onAir = "nothing" /\ RadioOff.enabled = FALSE
BY PowerZeroTypes DEF RadioOff

LEMMA IBeaconFacts ==
  ASSUME NEW r \in RadioType, NEW ok, r.onAir = "nothing"
  PROVE  /\ WithIBeacon(r, ok).addr = r.addr /\ WithIBeacon(r, ok).nextAddr = r.nextAddr
         /\ WithIBeacon(r, ok).onAir \in {"nothing", "ibeacon"}
BY DEF WithIBeacon, TryAdvStart, AdvStart, RadioType

LEMMA BootRadio ==
  ASSUME TypeOK, PcOfState, BootOn
  PROVE  /\ radio'.addr = radio'.nextAddr /\ radio'.onAir \in {"nothing", "ibeacon"}
         /\ cfg.airtag => radio'.addr = FirstKey
<1>1. radio \in RadioType /\ radio.onAir = "nothing"
  BY RadioOffFacts DEF BootOn, PcOfState
<1>2. BootAddr(FirstKey) \in Addr /\ (cfg.airtag => BootAddr(FirstKey) = FirstKey)
  BY ConfigFacts DEF BootAddr, Addr
<1> DEFINE set == SetMac(radio, BootAddr(FirstKey))
<1>3. set \in RadioType /\ set.nextAddr = BootAddr(FirstKey) /\ set.onAir = "nothing"
  BY <1>1, <1>2, RadioCalls DEF SetMac, RadioType
<1> HIDE DEF set
<1> DEFINE up == BtEnable(set)
<1>4. /\ up \in RadioType /\ up.addr = BootAddr(FirstKey) /\ up.nextAddr = up.addr
      /\ up.onAir = "nothing"
  BY <1>3, RadioCalls DEF BtEnable, RadioType
<1> HIDE DEF up
<1> DEFINE r == SetTxPower(up, cfg.txPower)
<1>5. /\ r \in RadioType /\ r.addr = BootAddr(FirstKey) /\ r.nextAddr = r.addr
      /\ r.onAir = "nothing"
  BY <1>4, ConfigFacts, RadioCalls DEF SetTxPower, RadioType
<1>6. \E ok : radio' = WithIBeacon(r, ok)
  BY DEF BootOn, r, up, set
<1> HIDE DEF r
<1> QED
  BY <1>2, <1>5, <1>6, IBeaconFacts

LEMMA LeaveRadio ==
  ASSUME TypeOK, Leave
  PROVE  /\ radio'.addr = radio'.nextAddr /\ radio'.onAir \in {"nothing", "ibeacon"}
         /\ cfg.airtag => radio'.addr = key.bleAddr
<1> DEFINE back == SetTxPower(BtEnable(ExitAddr(BtDisable(AdvStop(radio)))), cfg.txPower)
<1>1. radio \in RadioType /\ key.bleAddr \in Addr /\ cfg.txPower \in 0..2
  BY ConfigFacts DEF TypeOK, KeyType, Addr
<1>2. /\ back \in RadioType /\ back.onAir = "nothing" /\ back.addr = back.nextAddr
      /\ cfg.airtag => back.addr = key.bleAddr
  <2>1. CASE cfg.airtag
    <3>1. back = SetTxPower(BtEnable(SetMac(BtDisable(AdvStop(radio)), key.bleAddr)), cfg.txPower)
      BY <2>1 DEF ExitAddr
    <3> QED
      BY <1>1, <3>1, Readdressed, SMTT(30)
  <2>2. CASE ~cfg.airtag
    <3>1. back = SetTxPower(BtEnable(BtDisable(AdvStop(radio))), cfg.txPower)
      BY <2>2 DEF ExitAddr
    <3> QED
      BY <1>1, <2>2, <3>1, Restarted
  <2> QED
    BY <2>1, <2>2
<1>3. radio' = back \/ \E ok : radio' = WithIBeacon(back, ok)
  BY DEF Leave
<1> HIDE DEF back
<1> QED
  BY <1>2, <1>3, IBeaconFacts

LEMMA EntryRadio ==
  ASSUME TypeOK, SettingsEntry
  PROVE  radio'.addr = radio'.nextAddr /\ radio'.onAir \in {"nothing", "settings"}
<1> DEFINE back == SetTxPower(BtEnable(EntryAddr(BtDisable(AdvStop(radio)))), 0)
<1>1. radio \in RadioType /\ SettingsAddr \in Addr /\ 0 \in 0..2
  BY DEF TypeOK, Addr
<1>2. back \in RadioType /\ back.onAir = "nothing" /\ back.addr = back.nextAddr
  <2>1. CASE cfg.settingsMac
    <3>1. back = SetTxPower(BtEnable(SetMac(BtDisable(AdvStop(radio)), SettingsAddr)), 0)
      BY <2>1 DEF EntryAddr
    <3> QED
      BY <1>1, <3>1, Readdressed, SMTT(30)
  <2>2. CASE ~cfg.settingsMac
    <3>1. back = SetTxPower(BtEnable(BtDisable(AdvStop(radio))), 0)
      BY <2>2 DEF EntryAddr
    <3> QED
      BY <1>1, <3>1, Restarted
  <2> QED
    BY <2>1, <2>2
<1>3. PICK ok \in StartResults : radio' = TryAdvStart(back, "settings", ok)
  BY DEF SettingsEntry
<1> HIDE DEF back
<1> QED
  BY <1>2, <1>3, AdvFields

LEMMA UploadRadio ==
  ASSUME TypeOK, LeaveForUpload
  PROVE  /\ radio'.enabled = radio.enabled
         /\ radio'.addr = radio.addr /\ radio'.nextAddr = radio.nextAddr
         /\ radio'.onAir \in {"nothing", "settings"} /\ gatt'.isSettings
<1> DEFINE stopped == AdvStop(radio)
<1>1. /\ stopped \in RadioType /\ stopped.enabled = radio.enabled
      /\ stopped.addr = radio.addr /\ stopped.nextAddr = radio.nextAddr
      /\ stopped.onAir = "nothing"
  BY RadioCalls DEF TypeOK, AdvStop, RadioType
<1>2. PICK ok : radio' = TryAdvStart(stopped, "settings", ok)
  BY DEF LeaveForUpload
<1>3. gatt'.isSettings
  BY DEF LeaveForUpload, Opened, TypeOK, GattType
<1> HIDE DEF stopped
<1> QED
  BY <1>1, <1>2, <1>3, AdvFields

LEMMA BurstRadio ==
  ASSUME TypeOK, MaxPowerBurst
  PROVE  /\ radio'.enabled = radio.enabled
         /\ radio'.addr = radio.addr /\ radio'.nextAddr = radio.nextAddr
         /\ radio'.onAir = radio.onAir
<1>1. \A p : \A r \in RadioType :
        /\ SetTxPower(r, p).enabled = r.enabled
        /\ SetTxPower(r, p).addr = r.addr
        /\ SetTxPower(r, p).nextAddr = r.nextAddr
        /\ SetTxPower(r, p).onAir = r.onAir
  BY DEF SetTxPower, RadioType
<1> DEFINE raised == IF BurstDue THEN SetTxPower(radio, 2) ELSE radio
<1>2. /\ raised \in RadioType /\ raised.enabled = radio.enabled /\ raised.addr = radio.addr
      /\ raised.nextAddr = radio.nextAddr /\ raised.onAir = radio.onAir
  BY <1>1, RadioCalls DEF TypeOK
<1>3. radio' = raised \/ radio' = SetTxPower(raised, cfg.txPower)
  BY DEF MaxPowerBurst, NormalPower
<1> HIDE DEF raised
<1> QED
  BY <1>1, <1>2, <1>3

LEMMA RotationRadio ==
  ASSUME TypeOK, FlagsOfState, AddressReady, state = "Broadcasting", KeyRotation
  PROVE  /\ radio'.addr = key'.bleAddr /\ radio'.nextAddr = radio'.addr
         /\ key'.bleAddr = key'.payload /\ radio'.onAir # "settings"
         /\ bcast'.airtag = bcast.airtag /\ bcast'.settings = bcast.settings
<1> DEFINE newKey == KeyAt(NextKey)
<1> DEFINE turned == RotatedRadio(newKey)
<1> DEFINE silent == [bcast EXCEPT !.anything = FALSE]
<1>1. newKey \in Key
  BY ConfigFacts DEF KeyRotation, KeyAt, NextKey, RotationDue, TypeOK, KeyType
<1>2. key'.bleAddr = newKey /\ key'.payload = newKey
  BY DEF KeyRotation
<1>3. /\ turned \in RadioType /\ turned.onAir = "nothing"
      /\ turned.addr = newKey /\ turned.nextAddr = newKey
  <2>1. radio \in RadioType /\ newKey \in Addr /\ cfg.txPower \in 0..2
    BY <1>1, ConfigFacts DEF TypeOK, Addr
  <2> QED
    BY <2>1, Readdressed, SMTT(30) DEF RotatedRadio
<1>4. /\ silent \in BcastType /\ silent.airtag = bcast.airtag
      /\ silent.settings = bcast.settings
  BY DEF TypeOK, BcastType
<1>5. DoBroadcast(turned, silent, newKey)
  BY DEF KeyRotation
<1>6. newKey \in Addr
  BY <1>1 DEF Addr
<1> HIDE DEF newKey, turned, silent
<1> QED
  BY <1>2, <1>3, <1>4, <1>5, <1>6, DoBroadcastFacts

(* A call of broadcast() with the radio as it is. *)
LEMMA BroadcastRadio ==
  ASSUME TypeOK, FlagsOfState, AddressReady, NoAddressPending, AirTagAddressMatchesPayload,
         ConnectableOnlyInWindow, state = "Broadcasting",
         NEW b \in BcastType, b.airtag => cfg.airtag, ~b.settings,
         NEW ok \in BOOLEAN,
         NEW done, done = Broadcast(radio, b, key.bleAddr, ok)
  PROVE  /\ done.radio.addr = radio.addr /\ done.radio.enabled = radio.enabled
         /\ done.radio.enabled => done.radio.addr = done.radio.nextAddr
         /\ done.radio.onAir = "airtag" => done.radio.addr = key.payload
         /\ done.radio.onAir # "settings"
         /\ done.bcast.airtag = b.airtag /\ done.bcast.settings = b.settings
<1>1. radio \in RadioType /\ key.bleAddr \in Addr
  BY DEF TypeOK, KeyType, Addr
<1>2. /\ done.radio.addr = radio.addr /\ done.radio.enabled = radio.enabled
      /\ done.radio.nextAddr = radio.nextAddr \/ (b.airtag /\ done.radio.nextAddr = key.bleAddr)
      /\ done.radio.onAir = "settings" => radio.onAir = "settings"
      /\ done.radio.onAir = "airtag" => radio.onAir = "airtag" \/ b.airtag
      /\ done.bcast.airtag = b.airtag /\ done.bcast.settings = b.settings
  BY <1>1, BroadcastFacts
<1>3. cfg.airtag => radio.addr = key.bleAddr
  BY DEF AddressReady
<1>4. radio.onAir # "settings"
  BY DEF ConnectableOnlyInWindow
<1> QED
  BY <1>2, <1>3, <1>4 DEF AddressReady, NoAddressPending, AirTagAddressMatchesPayload

(* So does each handler that ends in one. *)
LEMMA TickRadio ==
  ASSUME TypeOK, FlagsOfState, AddressReady, NoAddressPending, AirTagAddressMatchesPayload,
         ConnectableOnlyInWindow, state = "Broadcasting",
         BatteryCheck \/ InitialBroadcast \/ Alternate
  PROVE  /\ radio'.addr = radio.addr /\ radio'.enabled = radio.enabled
         /\ radio'.enabled => radio'.addr = radio'.nextAddr
         /\ radio'.onAir = "airtag" => radio'.addr = key.payload
         /\ radio'.onAir # "settings"
         /\ bcast'.airtag => cfg.airtag
         /\ ~bcast'.settings
<1>1. bcast \in BcastType /\ ~bcast.settings /\ (bcast.airtag => cfg.airtag)
  BY DEF TypeOK, FlagsOfState
<1>2. CASE UNCHANGED <<radio, bcast>>
  BY <1>1, <1>2 DEF AddressReady, NoAddressPending, AirTagAddressMatchesPayload,
     ConnectableOnlyInWindow
<1>3. ASSUME NEW b \in BcastType, ~b.settings, b.airtag => cfg.airtag,
             NEW ok \in BOOLEAN,
             radio' = Broadcast(radio, b, key.bleAddr, ok).radio,
             bcast' = Broadcast(radio, b, key.bleAddr, ok).bcast
      PROVE  /\ radio'.addr = radio.addr /\ radio'.enabled = radio.enabled
             /\ radio'.enabled => radio'.addr = radio'.nextAddr
             /\ radio'.onAir = "airtag" => radio'.addr = key.payload
             /\ radio'.onAir # "settings"
             /\ bcast'.airtag => cfg.airtag
             /\ ~bcast'.settings
  BY <1>3, BroadcastRadio
<1>4. CASE BatteryCheck
  <2>1. \/ UNCHANGED <<radio, bcast>>
        \/ \E ok \in BOOLEAN : /\ radio' = Broadcast(radio, bcast, key.bleAddr, ok).radio
                               /\ bcast' = Broadcast(radio, bcast, key.bleAddr, ok).bcast
    BY <1>4, FaultCount DEF BatteryCheck
  <2> QED
    BY <1>1, <1>2, <1>3, <2>1
<1>5. ASSUME NEW b \in BcastType, ~b.settings, b.airtag => cfg.airtag,
             DoBroadcast(radio, b, key.bleAddr)
      PROVE  \E ok \in BOOLEAN : /\ radio' = Broadcast(radio, b, key.bleAddr, ok).radio
                                 /\ bcast' = Broadcast(radio, b, key.bleAddr, ok).bcast
  BY <1>5, FaultCount DEF DoBroadcast
<1>6. CASE InitialBroadcast
  <2> DEFINE b == IF cfg.airtag THEN OnlyAirTag(bcast) ELSE OnlyFmdn(bcast)
  <2>1. b \in BcastType /\ ~b.settings /\ (b.airtag => cfg.airtag)
    BY <1>1 DEF OnlyAirTag, OnlyFmdn, BcastType
  <2>2. DoBroadcast(radio, b, key.bleAddr)
    BY <1>6 DEF InitialBroadcast
  <2> HIDE DEF b
  <2> QED
    BY <1>3, <1>5, <2>1, <2>2
<1>7. CASE Alternate
  <2> DEFINE b == OtherProtocol(bcast)
  <2>1. b \in BcastType /\ ~b.settings /\ (b.airtag => cfg.airtag)
    BY <1>1, <1>7 DEF Alternate, OtherProtocol, OnlyAirTag, OnlyFmdn, BcastType
  <2>2. DoBroadcast(radio, b, key.bleAddr)
    BY <1>7 DEF Alternate
  <2> HIDE DEF b
  <2> QED
    BY <1>3, <1>5, <2>1, <2>2
<1> QED
  BY <1>4, <1>6, <1>7

(* The session after a window was closed, and after one was opened. *)
LEMMA SessionFacts ==
  ASSUME TypeOK
  PROVE  /\ Closed(gatt).session = "none" /\ Closed(gatt).restart = FALSE
         /\ Opened(gatt).session = "none" /\ Opened(gatt).restart = FALSE
         /\ Opened(gatt).isSettings = TRUE
         /\ NoSession.session = "none" /\ NoSession.restart = FALSE
BY DEF Closed, Opened, NoSession, GattType, TypeOK

--------------------------------------------------------------------------------
(* The invariant. *)

LEMMA OffFacts ==
  ASSUME TypeOK, PowerOff
  PROVE  /\ pc' = "off" /\ state' = "ShuttingDown"
         /\ radio'.enabled = FALSE /\ radio'.onAir = "nothing"
         /\ gatt'.session = "none" /\ gatt'.restart = FALSE
<1>1. radio'.enabled = FALSE /\ radio'.onAir = "nothing"
  BY DEF PowerOff, BtDisable, TypeOK, RadioType
<1> QED
  BY <1>1, SessionFacts DEF PowerOff

LEMMA UpFacts ==
  ASSUME TypeOK, PowerUp
  PROVE  /\ pc' = "boot" /\ state' = "Initializing" /\ radio' = RadioOff
         /\ radio'.enabled = FALSE /\ radio'.onAir = "nothing"
         /\ gatt'.session = "none" /\ gatt'.restart = FALSE
         /\ key'.bleAddr = key'.payload
BY RadioOffFacts, SessionFacts DEF PowerUp, KeyZero

(* What the client does to the session leaves the window's mark alone. *)
LEMMA ClientFacts ==
  ASSUME TypeOK, AuthAccepted \/ AuthRefused \/ RequestUpload \/ Disconnect
  PROVE  gatt'.isSettings = gatt.isSettings /\ gatt.session # "none" /\ radio' = radio
<1>1. CASE AuthAccepted
  BY <1>1 DEF AuthAccepted, TypeOK, GattType
<1>2. CASE AuthRefused
  BY <1>2 DEF AuthRefused, TypeOK, GattType
<1>3. CASE RequestUpload
  BY <1>3 DEF RequestUpload, AllowedChange, TypeOK, GattType
<1>4. CASE Disconnect
  BY <1>4 DEF Disconnect, TypeOK, GattType
<1> QED
  BY <1>1, <1>2, <1>3, <1>4

LEMMA ConnectFacts ==
  ASSUME TypeOK, Connect
  PROVE  /\ gatt'.isSettings = gatt.isSettings /\ radio.onAir = "settings"
         /\ radio'.onAir = "nothing" /\ radio'.enabled = radio.enabled
         /\ radio'.addr = radio.addr /\ radio'.nextAddr = radio.nextAddr
<1>1. gatt'.isSettings = gatt.isSettings
  BY DEF Connect, TypeOK, GattType
<1>2. /\ radio'.onAir = "nothing" /\ radio'.enabled = radio.enabled
      /\ radio'.addr = radio.addr /\ radio'.nextAddr = radio.nextAddr
  BY DEF Connect, TypeOK, RadioType, AdvStop
<1> QED
  BY <1>1, <1>2 DEF Connect

LEMMA RestartFacts ==
  ASSUME TypeOK, AdvRestart
  PROVE  /\ gatt.restart /\ radio'.onAir \in {radio.onAir, "settings"}
         /\ radio'.enabled = radio.enabled
         /\ radio'.addr = radio.addr /\ radio'.nextAddr = radio.nextAddr
<1>1. radio \in RadioType /\ radio' \in {radio, AdvStart(radio, "settings")}
  BY DEF AdvRestart, TryAdvStart, TypeOK
<1> QED
  BY <1>1, AdvFields DEF AdvRestart

LEMMA WriteFacts ==
  ASSUME TypeOK, NEW f \in FieldNames, WriteField(f)
  PROVE  /\ gatt'.isSettings = gatt.isSettings /\ gatt.session # "none"
         /\ key'.bleAddr = key.bleAddr /\ key'.payload = key.payload
BY DEF WriteField, AllowedChange, TypeOK, GattType, KeyType

(* Every action keeps the mode, the flags and the session in step. *)
LEMMA ModeStep ==
  ASSUME TypeOK, PcOfState, FlagsOfState, AddressReady,
         ConnectableOnlyInWindow, NoAddressPending, AirTagAddressMatchesPayload, [Next]_vars
  PROVE  PcOfState' /\ FlagsOfState' /\ ConnectableOnlyInWindow'
<1> USE DEF PcOfState, FlagsOfState, ConnectableOnlyInWindow, HandlerPCs
<1>1. CASE BootOff
  BY <1>1, OffFacts DEF BootOff
<1>2. CASE BootOn
  BY <1>2, BootRadio DEF BootOn, NotBroadcasting
<1>3. CASE Sync
  BY <1>3 DEF Sync
<1>4. CASE Sleep
  BY <1>4 DEF Sleep
<1>5. CASE ExitNotDue
  BY <1>5 DEF ExitNotDue
<1>6. CASE ExitDue
  BY <1>6 DEF ExitDue
<1>7. CASE LeaveForUpload
  BY <1>7, UploadRadio, SessionFacts DEF LeaveForUpload
<1>8. CASE UploadWait
  BY <1>8 DEF UploadWait
<1>9. CASE Leave
  BY <1>9, LeaveRadio, SessionFacts DEF Leave, NotBroadcasting
<1>10. CASE Reboot
  BY <1>10, UpFacts DEF Reboot
<1>11. CASE SaveTime
  BY <1>11 DEF SaveTime
<1>12. CASE BatteryNotDue
  BY <1>12 DEF BatteryNotDue
<1>13. CASE BatteryCheck
  BY <1>13, TickRadio DEF BatteryCheck
<1>14. CASE BatteryGood
  BY <1>14 DEF BatteryGood
<1>15. CASE BatteryLow
  BY <1>15, OffFacts DEF BatteryLow
<1>16. CASE NokeysShutdown
  BY <1>16, OffFacts DEF NokeysShutdown
<1>17. CASE NokeysStay
  BY <1>17 DEF NokeysStay
<1>18. CASE SettingsNotDue
  BY <1>18 DEF SettingsNotDue
<1>19. CASE SettingsEntry
  BY <1>19, EntryRadio, SessionFacts DEF SettingsEntry
<1>20. CASE MaxPowerBurst
  BY <1>20, BurstRadio DEF MaxPowerBurst
<1>21. CASE RotationNotDue
  BY <1>21 DEF RotationNotDue
<1>22. CASE KeyRotation
  BY <1>22, RotationRadio, SessionFacts DEF KeyRotation
<1>23. CASE ButtonUp
  BY <1>23 DEF ButtonUp
<1>24. CASE ShortPress
  BY <1>24 DEF ShortPress
<1>25. CASE LongPress
  BY <1>25 DEF LongPress
<1>40. CASE SwitchOff
  BY <1>40, OffFacts DEF SwitchOff
<1>26. CASE Accelerometer
  BY <1>26 DEF Accelerometer
<1>27. CASE InitialBroadcast
  BY <1>27, TickRadio DEF InitialBroadcast
<1>28. CASE Alternate
  BY <1>28, TickRadio DEF Alternate
<1>29. CASE KeepBroadcasting
  BY <1>29 DEF KeepBroadcasting
<1>30. CASE Connect
  BY <1>30, ConnectFacts DEF Connect
<1>31. CASE AuthAccepted
  BY <1>31, ClientFacts DEF AuthAccepted
<1>32. CASE AuthRefused
  BY <1>32, ClientFacts DEF AuthRefused
<1>33. CASE RequestUpload
  BY <1>33, ClientFacts DEF RequestUpload
<1>34. CASE Disconnect
  BY <1>34, ClientFacts DEF Disconnect
<1>35. CASE AdvRestart
  BY <1>35, RestartFacts, SessionFacts DEF AdvRestart
<1>36. CASE Crash
  BY <1>36, UpFacts DEF Crash
<1>37. CASE PowerOn
  BY <1>37, UpFacts DEF PowerOn
<1>38. CASE \E f \in FieldNames : WriteField(f)
  BY <1>38, WriteFacts DEF WriteField
<1>39. CASE UNCHANGED vars
  BY <1>39 DEF vars
<1> QED
  BY <1>1, <1>2, <1>3, <1>4, <1>5, <1>6, <1>7, <1>8, <1>9, <1>10, <1>11, <1>12, <1>13, <1>14,
     <1>15, <1>16, <1>17, <1>18, <1>19, <1>20, <1>21, <1>22, <1>23, <1>24, <1>25, <1>26, <1>27,
     <1>28, <1>29, <1>30, <1>31, <1>32, <1>33, <1>34, <1>35, <1>36, <1>37, <1>38, <1>39, <1>40
     DEF Next, Main, Client

(* Every action keeps the address that of the key. *)
LEMMA AddressStep ==
  ASSUME TypeOK, PcOfState, FlagsOfState, AddressReady,
         ConnectableOnlyInWindow, NoAddressPending, AirTagAddressMatchesPayload, [Next]_vars
  PROVE  AddressReady' /\ NoAddressPending' /\ AirTagAddressMatchesPayload'
<1> USE DEF PcOfState, FlagsOfState, ConnectableOnlyInWindow, AddressReady,
           NoAddressPending, AirTagAddressMatchesPayload, HandlerPCs
<1>1. CASE BootOff
  BY <1>1, OffFacts DEF BootOff
<1>2. CASE BootOn
  BY <1>2, BootRadio DEF BootOn, NotBroadcasting
<1>3. CASE Sync
  BY <1>3 DEF Sync
<1>4. CASE Sleep
  BY <1>4 DEF Sleep
<1>5. CASE ExitNotDue
  BY <1>5 DEF ExitNotDue
<1>6. CASE ExitDue
  BY <1>6 DEF ExitDue
<1>7. CASE LeaveForUpload
  BY <1>7, UploadRadio, SessionFacts DEF LeaveForUpload
<1>8. CASE UploadWait
  BY <1>8 DEF UploadWait
<1>9. CASE Leave
  BY <1>9, LeaveRadio, SessionFacts DEF Leave, NotBroadcasting
<1>10. CASE Reboot
  BY <1>10, UpFacts DEF Reboot
<1>11. CASE SaveTime
  BY <1>11 DEF SaveTime
<1>12. CASE BatteryNotDue
  BY <1>12 DEF BatteryNotDue
<1>13. CASE BatteryCheck
  BY <1>13, TickRadio DEF BatteryCheck
<1>14. CASE BatteryGood
  BY <1>14 DEF BatteryGood
<1>15. CASE BatteryLow
  BY <1>15, OffFacts DEF BatteryLow
<1>16. CASE NokeysShutdown
  BY <1>16, OffFacts DEF NokeysShutdown
<1>17. CASE NokeysStay
  BY <1>17 DEF NokeysStay
<1>18. CASE SettingsNotDue
  BY <1>18 DEF SettingsNotDue
<1>19. CASE SettingsEntry
  BY <1>19, EntryRadio, SessionFacts DEF SettingsEntry
<1>20. CASE MaxPowerBurst
  BY <1>20, BurstRadio DEF MaxPowerBurst
<1>21. CASE RotationNotDue
  BY <1>21 DEF RotationNotDue
<1>22. CASE KeyRotation
  BY <1>22, RotationRadio, SessionFacts DEF KeyRotation
<1>23. CASE ButtonUp
  BY <1>23 DEF ButtonUp
<1>24. CASE ShortPress
  BY <1>24 DEF ShortPress
<1>25. CASE LongPress
  BY <1>25 DEF LongPress
<1>40. CASE SwitchOff
  BY <1>40, OffFacts DEF SwitchOff
<1>26. CASE Accelerometer
  BY <1>26 DEF Accelerometer
<1>27. CASE InitialBroadcast
  BY <1>27, TickRadio DEF InitialBroadcast
<1>28. CASE Alternate
  BY <1>28, TickRadio DEF Alternate
<1>29. CASE KeepBroadcasting
  BY <1>29 DEF KeepBroadcasting
<1>30. CASE Connect
  BY <1>30, ConnectFacts DEF Connect
<1>31. CASE AuthAccepted
  BY <1>31, ClientFacts DEF AuthAccepted
<1>32. CASE AuthRefused
  BY <1>32, ClientFacts DEF AuthRefused
<1>33. CASE RequestUpload
  BY <1>33, ClientFacts DEF RequestUpload
<1>34. CASE Disconnect
  BY <1>34, ClientFacts DEF Disconnect
<1>35. CASE AdvRestart
  BY <1>35, RestartFacts, SessionFacts DEF AdvRestart
<1>36. CASE Crash
  BY <1>36, UpFacts DEF Crash
<1>37. CASE PowerOn
  BY <1>37, UpFacts DEF PowerOn
<1>38. CASE \E f \in FieldNames : WriteField(f)
  BY <1>38, WriteFacts DEF WriteField
<1>39. CASE UNCHANGED vars
  BY <1>39 DEF vars
<1> QED
  BY <1>1, <1>2, <1>3, <1>4, <1>5, <1>6, <1>7, <1>8, <1>9, <1>10, <1>11, <1>12, <1>13, <1>14,
     <1>15, <1>16, <1>17, <1>18, <1>19, <1>20, <1>21, <1>22, <1>23, <1>24, <1>25, <1>26, <1>27,
     <1>28, <1>29, <1>30, <1>31, <1>32, <1>33, <1>34, <1>35, <1>36, <1>37, <1>38, <1>39, <1>40
     DEF Next, Main, Client

LEMMA InitInv == Init => IInv
<1> SUFFICES ASSUME Init PROVE IInv
  OBVIOUS
<1> USE DEF Init
<1>1. TypeOK
  <2>1. aux \in AuxType
    BY TimingAssumption DEF AuxType
  <2> QED
    BY <2>1, PowerZeroTypes DEF TypeOK, PCs, States
<1>2. BadBelow
  BY TimingAssumption DEF BadBelow, PowerZero
<1>3. PcOfState /\ FlagsOfState /\ AddressReady
  BY DEF PcOfState, FlagsOfState, AddressReady, HandlerPCs, KeyZero
<1>4. radio.onAir = "nothing" /\ ~radio.enabled /\ gatt.session = "none" /\ ~gatt.restart
  BY RadioOffFacts DEF NoSession
<1>5. ConnectableOnlyInWindow /\ NoAddressPending /\ AirTagAddressMatchesPayload
  BY <1>4 DEF ConnectableOnlyInWindow, NoAddressPending, AirTagAddressMatchesPayload
<1> QED
  BY <1>1, <1>2, <1>3, <1>5 DEF IInv

LEMMA Invariance == Spec => []IInv
<1>1. IInv /\ [Next]_vars => IInv'
  <2> SUFFICES ASSUME IInv, [Next]_vars PROVE IInv'
    OBVIOUS
  <2> USE DEF IInv
  <2>1. TypeOK' /\ BadBelow'
    BY TypeStep
  <2>2. PcOfState' /\ FlagsOfState' /\ ConnectableOnlyInWindow'
    BY ModeStep
  <2>3. AddressReady' /\ NoAddressPending' /\ AirTagAddressMatchesPayload'
    BY AddressStep
  <2> QED
    BY <2>1, <2>2, <2>3
<1> QED
  BY InitInv, <1>1, PTL DEF Spec

--------------------------------------------------------------------------------
(* The variables keep their types, the low-battery count included: it never  *)
(* passes the value that makes handle_uvlo_shutdown() turn the beacon off.   *)
THEOREM TypeCorrect == Spec => []TypeOK
<1>1. IInv => TypeOK
  BY DEF IInv
<1> QED
  BY Invariance, <1>1, PTL

(* The address the controller uses while the AirTag payload is on the air is *)
(* the one set_mac_from_current_key() made of the same key: through every    *)
(* rotation, alternation, battery refresh and return from settings mode, and *)
(* whatever a client changes in between.                                     *)
THEOREM AddressAndPayloadAgree == Spec => []AirTagAddressMatchesPayload
<1>1. IInv => AirTagAddressMatchesPayload
  BY DEF IInv
<1> QED
  BY Invariance, <1>1, PTL

(* set_mac() as broadcast() calls it, with Bluetooth up, never leaves an     *)
(* address behind that waits for the next restart of Bluetooth.              *)
THEOREM NoAddressLeftBehind == Spec => []NoAddressPending
<1>1. IInv => NoAddressPending
  BY DEF IInv
<1> QED
  BY Invariance, <1>1, PTL

(* Nothing connectable is on the air, nobody is connected and no restart of  *)
(* the connectable advertising is pending outside a settings window or an    *)
(* upload.                                                                   *)
THEOREM ConnectableInWindow == Spec => []ConnectableOnlyInWindow
<1>1. IInv => ConnectableOnlyInWindow
  BY DEF IInv
<1> QED
  BY Invariance, <1>1, PTL

================================================================================
