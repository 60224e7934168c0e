CONSTANTS
  Packages <- MCPackages
  BufLen = 18
  Conns = 1
  MacLen = 1
  PassLen = 2
SPECIFICATION Spec
PROPERTIES
  LineAloneDecides
