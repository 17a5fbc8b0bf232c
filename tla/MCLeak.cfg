\* What an early return of ScanFile leaves mapped.
CONSTANTS
  Files = {f}
  Kinds <- FewKinds
  Substitutes <- FewKinds
  GoodOuts = {out}
  BadOuts = {bad}
  NullPath = NullPath
  EmptyPath = EmptyPath
  Cwd = Cwd
  Home = Home
  Root = Root
  MaxScans = 1
  MaxChanges = 0
SPECIFICATION Spec
INVARIANT NothingHeldWhenIdle
