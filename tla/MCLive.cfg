SPECIFICATION FairSpec
CONSTANTS
  k1 = k1
  k2 = k2
  NoKey = NoKey
  DefaultAddr = DefaultAddr
  SettingsAddr = SettingsAddr
  Key <- MCKey
  Configs <- MCConfigs
  Voltages <- MCVoltages
  Jitter <- MCJitter
  IntervalSettings = 8
  SettingsWait = 2
  ConnectedWait = 1
  AuthorizedWait = 1
  IntervalTimeSave = 1
  IntervalBatteryCheck = 8
  IntervalMaxPower = 3
  IntervalAccelerometer = 2
  AccelResetInterval = 4
  ShutdownNokeys = 2
  ChargeLockDuration = 1
  UvloBadPowerThreshold = 5
  BatteryLowVoltage = 2800
  MaxChangeInterval = 3
  MaxMult = 1
  HasButton = FALSE
  HasCharger = FALSE
  UploadSeconds = 1
  BootSeconds = 1
  MaxFaults = 1
PROPERTIES WindowRecurs WindowCloses Broadcasts BothProtocolsGetAirtime ResetRequestServed
