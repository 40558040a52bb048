SPECIFICATION Spec
CONSTANTS
  k1 = k1
  NoKey = NoKey
  DefaultAddr = DefaultAddr
  SettingsAddr = SettingsAddr
  Key <- MCKey
  Configs <- MCConfigs
  Voltages <- MCVoltages
  Jitter <- MCJitter
  IntervalSettings = 8
  SettingsWait = 2
  ConnectedWait = 1
  AuthorizedWait = 1
  IntervalTimeSave = 1
  IntervalBatteryCheck = 8
  IntervalMaxPower = 4
  IntervalAccelerometer = 2
  AccelResetInterval = 2
  ShutdownNokeys = 6
  ChargeLockDuration = 5
  UvloBadPowerThreshold = 2
  BatteryLowVoltage = 2800
  MaxChangeInterval = 4
  MaxMult = 2
  HasButton = TRUE
  HasCharger = TRUE
  UploadSeconds = 3
  BootSeconds = 1
  MaxFaults = 0
INVARIANT ShutdownNeedsLowReadings
