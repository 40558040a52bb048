SPECIFICATION Spec
CONSTANTS
  Regs <- MCRegs
  Codes <- MCCodes
  MaxFaults = 2
  Boards <- MCBoards
  Mults <- MCMults
  Window = 10000
  Work = 40
  Delays <- MCDelays
INVARIANT StartsAfterFlashing
CHECK_DEADLOCK FALSE
