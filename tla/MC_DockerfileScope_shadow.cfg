CONSTANTS
  x = x
  y = y
  va = va
  vb = vb
  Empty = Empty
  Keys = {x, y}
  Vals = {va, vb}
  BuildArgs <- MCBuildArgs
  Dockerfiles <- MCDockerfiles
SPECIFICATION Spec
INVARIANT RunEnvExcludesEnvKeys
\* LoadDockerfile returns once every instruction is read.
CHECK_DEADLOCK FALSE
