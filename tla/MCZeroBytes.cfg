\* A request that begins where a part of the file ends.
CONSTANTS
  Volumes <- MCVolumes
  Archives <- MCArchives
  BUFFER_SIZE = 2
  MaxChunk = 2
  MaxYield = 2
  Word = 8
SPECIFICATION Spec
INVARIANT NeverZeroBytes
