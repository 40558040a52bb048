SPECIFICATION Spec
CONSTANTS
  k1 = k1
  k2 = k2
  k3 = k3
  NoKey = NoKey
  DefaultAddr = DefaultAddr
  SettingsAddr = SettingsAddr
  Key <- MCKey
  Configs <- MCConfigs
  Voltages <- MCVoltages
  Jitter <- MCJitter
  IntervalSettings = 6
  SettingsWait = 2
  ConnectedWait = 1
  AuthorizedWait = 1
  IntervalTimeSave = 1
  IntervalBatteryCheck = 3
  IntervalMaxPower = 4
  IntervalAccelerometer = 2
  AccelResetInterval = 4
  ShutdownNokeys = 8
  ChargeLockDuration = 1
  UvloBadPowerThreshold = 5
  BatteryLowVoltage = 2800
  MaxChangeInterval = 3
  MaxMult = 2
  HasButton = FALSE
  HasCharger = FALSE
  UploadSeconds = 3
  BootSeconds = 1
  MaxFaults = 1
INVARIANTS AirTagAddressMatchesPayload NoAddressPending BeliefMatchesRadio
  ConnectableOnlyInWindow ConfiguredKeyOnAir BurstEndsOnTime
PROPERTIES ImplementsModes
