CONSTANTS
  w1 = w1
  port1 = port1
  None = None
  Words = {w1}
  Ports = {port1}
  Ids <- MCIds
  MaxPorts <- MCMaxPorts
  Euid <- MCEuid
  IdModulus <- MCIdModulus
SPECIFICATION Spec
INVARIANT NativeUserPreserved
\* Spec(rootfs) is the builder's last call: the model stops after it.
CHECK_DEADLOCK FALSE
