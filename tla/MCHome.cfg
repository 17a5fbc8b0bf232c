\* Where files go without an output path.
CONSTANTS
  Files = {f}
  Kinds <- SevenZipKinds
  Substitutes <- SevenZipKinds
  GoodOuts = {out}
  BadOuts = {bad}
  NullPath = NullPath
  EmptyPath = EmptyPath
  Cwd = Cwd
  Home = Home
  Root = Root
  MaxScans = 1
  MaxChanges = 0
SPECIFICATION Spec
INVARIANT NextToInstaller
