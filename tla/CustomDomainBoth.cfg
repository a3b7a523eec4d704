SPECIFICATION Spec
CONSTANTS
  own = own  cfgd = cfgd  p1 = p1  p2 = p2
  k1 = k1  k2 = k2  k3 = k3  k4 = k4  main = main
  Main = main  NoKey = NoKey  NoFile = NoFile  Torn = Torn  NoDomain = NoDomain
  Domain = {own, cfgd}
  StaticDomain = {cfgd}
  Key = {k1, k2, k3, k4}
  Proc = {p1, p2}
  Readd = FALSE
  DiskFaults = FALSE
SYMMETRY Symmetry
INVARIANTS SignsWithPersisted RegisteredSigns
PROPERTIES BootSiteWins RegisteredDataKept KeysAreARegister
