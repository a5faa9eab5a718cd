CONSTANTS
  p1 = p1
  p2 = p2
  t1 = t1
  t2 = t2
  NoThread = NoThread
  NoOwner = NoOwner
  UnlockIOErrors = TRUE
  Procs <- MCProcs
  MaxRestarts <- MCMaxRestarts
  Threads <- MCThreads
SYMMETRY MCSymmetry
SPECIFICATION Spec
INVARIANT TryLockNonBlocking
