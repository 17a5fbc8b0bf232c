\* One run of the command-line program over a small tree.
CONSTANTS
  Paths <- MCPaths
  CommandLines <- MCCommandLines
  PathOf <- MCPathOf
  Trees <- MCTrees
  Recent <- MCRecent
  Contents <- MCContents
  Folders <- MCFolders
  Meddled <- MCMeddled
  MaxChanges = 1
SPECIFICATION Spec
INVARIANTS TypeOK NeverIntoOwnOutput StreamsClosed EveryFileScanned
PROPERTIES NothingTwice Crawls
