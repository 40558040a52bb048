SPECIFICATION Spec
CONSTANTS
  MaxKeys = 2
  a1 = a1
  a2 = a2
  b1 = b1
  b2 = b2
  Zero = Zero
  Half <- MCHalf
  code1 = code1
  code2 = code2
  Codes <- MCCodes
  DefaultCode = code1
  Jobs <- MCJobs
  NoRing = NoRing
  NoCode = NoCode
  Absent = Absent
  Unknown = Unknown
  MaxFaults = 1
INVARIANTS
  TypeOK
  SettingsSurviveReset
  UploadedRingKept
CHECK_DEADLOCK FALSE
