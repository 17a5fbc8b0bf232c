\* Does the caller of unshield make the directories, as its comment asks?
CONSTANTS
  MaxIndex <- MCMaxIndex
  Archives <- MCArchives
  NoLink = 0
SPECIFICATION Spec
INVARIANT CallerMadeDirectories
