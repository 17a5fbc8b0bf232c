\* A detection followed by an extraction of another WinZip package.
CONSTANTS
  Files = {f, g}
  Kinds <- WinZipKinds
  Substitutes <- WinZipKinds
  GoodOuts = {out}
  BadOuts = {bad}
  NullPath = NullPath
  EmptyPath = EmptyPath
  Cwd = Cwd
  Home = Cwd
  Root = Cwd
  MaxScans = 2
  MaxChanges = 0
SPECIFICATION Spec
INVARIANT MethodFollowsMatch
