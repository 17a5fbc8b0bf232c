\* Two calls with every family of unpackers and every output path, on a file that
\* another program may replace at any step.  The working directory is also that
\* of the installers; only MCHome.cfg needs to tell the two apart.
CONSTANTS
  Files = {f}
  Kinds <- AllKinds
  Substitutes <- Replacements
  GoodOuts = {out}
  BadOuts = {bad}
  NullPath = NullPath
  EmptyPath = EmptyPath
  Cwd = Cwd
  Home = Cwd
  Root = Root
  MaxScans = 2
  MaxChanges = 2
SPECIFICATION Spec
INVARIANTS TypeOK BindingSafe ReleasedWhenAccepted FirstMatchWins LoopInv
  SuccessIsBacked CallInv
PROPERTY Implements
