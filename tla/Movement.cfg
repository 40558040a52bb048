SPECIFICATION Spec
CONSTANTS
  ReadingInterval = 2
  Half = 2
  SlotSeconds = 4
  Slots = 4
  Edges <- MCEdges
  MaxLook = 2
  Flags <- MCFlags
  Voltages <- MCVoltages
  Changes <- MCChanges
  MaxMoves = 2
INVARIANTS TypeOK NothingInvented RecentMovementShown  LastingMovementKept ReceiverUnderstands
