CONSTANTS
  w1 = w1
  w2 = w2
  w3 = w3
  t1 = t1
  t2 = t2
  Texts = {t1, t2}
  Words <- MCWords
  DefaultShell <- MCDefaultShell
  Dockerfiles <- MCDockerfiles
SPECIFICATION Spec
INVARIANT ProgramKept
INVARIANT IInv
\* LoadDockerfile returns once every instruction is read.
CHECK_DEADLOCK FALSE
