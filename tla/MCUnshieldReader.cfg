\* Saving one file of one archive, over every small archive.
CONSTANTS
  Volumes <- MCVolumes
  Archives <- MCArchives
  BUFFER_SIZE = 2
  MaxChunk = 2
  MaxYield = 2
  Word = 8
SPECIFICATION Spec
INVARIANTS TypeOK ReassembledInOrder SavedWhole DamageIsFound
  CounterMatchesStream Aligned CauseIsReal
PROPERTY SaveEnds
