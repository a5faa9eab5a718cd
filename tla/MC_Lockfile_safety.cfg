CONSTANTS
  p1 = p1
  p2 = p2
  t1 = t1
  t2 = t2
  NoThread = NoThread
  NoOwner = NoOwner
  UnlockIOErrors = TRUE
  Procs <- MCProcs
  Threads <- MCThreads
  MaxRestarts <- MCMaxRestarts
SYMMETRY MCSymmetry
SPECIFICATION Spec
INVARIANT HolderOwnsLockfile
INVARIANT MutualExclusion
INVARIANT Inv
