SPECIFICATION Spec
CONSTANTS
  own = own  cfgd = cfgd  p1 = p1  p2 = p2
  k1 = k1  k2 = k2  k3 = k3  k4 = k4  main = main
  Main = main  NoKey = NoKey  NoFile = NoFile  Torn = Torn  NoDomain = NoDomain
  Domain = {own}
  StaticDomain = {}
  Key = {k1, k2, k3}
  Proc = {p1}
  Readd = TRUE
  DiskFaults = FALSE
SYMMETRY Symmetry
PROPERTIES RegisteredDataKept
