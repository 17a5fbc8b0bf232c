\* Opening an archive, extracting all its files, closing it.
CONSTANTS
  MaxIndex <- MCMaxIndex
  Archives <- MCArchives
  NoLink = 0
SPECIFICATION Spec
INVARIANTS TypeOK HeadersAccounted LastAttemptDecides SavedIfPossible
PROPERTY ExtractionEnds
