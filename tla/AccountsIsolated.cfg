SPECIFICATION Spec
CONSTANTS
  alice = alice  al = al  bob = bob  peersdir = peersdir
  r1 = r1  r2 = r2  c1 = c1  c2 = c2  d1 = d1  d2 = d2
  NoName = NoName  NoCred = NoCred  NoDID = NoDID
  Name = {alice, bob, peersdir}
  Static = {alice}
  StaticRoute <- NoRoute
  Open = {bob}
  Reserved = {peersdir}
  Provisionable = {bob}
  PeerActive = {}
  Custom <- BobsDomain
  Cred = {c1, c2}
  DID = {d1, d2}
  Req = {r1, r2}
  Anchored = TRUE
  DiskFaults = TRUE
  Isolated = TRUE
SYMMETRY Symmetry
INVARIANTS OwnersServed AckedClaim
PROPERTIES OwnDeleteOnly NamesHaveOneLife
