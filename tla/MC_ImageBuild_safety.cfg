CONSTANTS
  b1 = b1
  c1 = c1
  c2 = c2
  f1 = f1
  v1 = v1
  a1 = a1
  tag1 = tag1
  None = None
  BaseNames = {b1}
  Cmds = {c1, c2}
  Files = {f1}
  CmdVals = {v1}
  Authors = {a1}
  TagNames = {tag1}
  Programs <- MCPrograms
  MaxBuilds <- MCMaxBuilds
SPECIFICATION Spec
INVARIANT TypeOK
INVARIANT BundleRootfsMatchesParent
INVARIANT TagsInStore
CHECK_DEADLOCK FALSE
