SPECIFICATION FairSpec
CONSTANTS
  c1 = c1
  c2 = c2
  Zero = Zero
  Chunk <- MCChunk
  MaxKeys = 1
  MaxCrashes = 1
INVARIANTS TypeOK AuthNotInherited ChunkPositionFresh WholeKeysSaved
PROPERTIES ImplementsModes AdvertisingComesBack
