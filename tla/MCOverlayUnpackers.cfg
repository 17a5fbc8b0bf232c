\* Calls of the library for installers that keep their parts in the overlay; the
\* next call may be for another one, into the same directory or another.
CONSTANTS
  Images <- MCImages
  NoFile = NoFile
  Substitutes <- MCSubstitutes
  Word = 1048576
  Dirs = {d1, d2}
  MaxCalls = 2
  MaxReplaces = 2
SYMMETRY DirsSymmetry
SPECIFICATION Spec
INVARIANTS TypeOK AnswersAgree FirstPackagesFound OwnPackagesOnly
  CabsFound CabsDumped
