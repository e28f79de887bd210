SPECIFICATION Spec
CONSTANTS
  i1 = i1  i2 = i2
  d1 = d1  d2 = d2
  p1 = p1  p2 = p2
  Installers = {i1, i2}
  Directories = {d1, d2}
  Ports = {p1, p2}
  Projects = {"preview"}
  Nobody = Nobody
  Shells <- CleanShell
SYMMETRY Symmetry
PROPERTIES GatewayNotReplaced
CHECK_DEADLOCK FALSE
