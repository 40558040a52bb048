SPECIFICATION FairSpec
CONSTANTS
  Regs <- MCRegs
  Codes <- MCCodes
  MaxFaults = 2
  Boards <- MCBoards
  Mults <- MCMults
  Window = 10000
  Work = 40
  Delays <- MCDelays
INVARIANTS TypeOK FedInTime Parked OffInShipMode DefaultsNoticed
PROPERTIES NoShipModeWhileCharging ResetComes
CHECK_DEADLOCK FALSE
