\* What bUnpackSuccess is worth.
CONSTANTS
  Files = {f}
  Kinds <- StubKinds
  Substitutes <- StubKinds
  GoodOuts = {out}
  BadOuts = {bad}
  NullPath = NullPath
  EmptyPath = EmptyPath
  Cwd = Cwd
  Home = Home
  Root = Root
  MaxScans = 1
  MaxChanges = 0
SPECIFICATION Spec
INVARIANT SuccessMeansExtracted
