SPECIFICATION Spec
CONSTANTS
  IntervalTimeSave = 5
  LongestTick = 2
  LongestWindow = 3
  RebootRounds = 2
  UploadRounds = 2
  UploadSleep = 2
  Epoch = 3
  LastSecond = 33
INVARIANTS
  TypeOK
  NeverAhead
  LossBounded
CHECK_DEADLOCK FALSE
