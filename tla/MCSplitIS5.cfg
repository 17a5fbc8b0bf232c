\* The last file of an IS5 archive, split over two volumes.
CONSTANTS
  Volumes <- MCVolumes
  Archives <- MCArchives
  BUFFER_SIZE = 2
  MaxChunk = 2
  MaxYield = 2
  Word = 8
SPECIFICATION Spec
INVARIANT SplitIS5Supported
