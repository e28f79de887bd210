SPECIFICATION Spec
CONSTANTS
  i1 = i1  i2 = i2
  d1 = d1  d2 = d2
  p1 = p1  p2 = p2
  Installers = {i1, i2}
  Directories = {d1}
  Ports = {p1}
  Projects = {"preview", "second"}
  Nobody = Nobody
  Shells <- AnyShell
SYMMETRY Symmetry
INVARIANTS OneInstallPerDirectory NoExposedDevelopmentLogin WizardIsAccepted
CHECK_DEADLOCK FALSE
