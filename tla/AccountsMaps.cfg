SPECIFICATION FairSpec
CONSTANTS
  alice = alice  al = al  bob = bob  peersdir = peersdir
  r1 = r1  r2 = r2  c1 = c1  c2 = c2  d1 = d1  d2 = d2
  NoName = NoName  NoCred = NoCred  NoDID = NoDID
  Name = {alice, al}
  Static = {alice}
  StaticRoute <- RouteAlice
  Open = {alice, al}
  Reserved = {}
  Provisionable = {alice, al}
  PeerActive = {}
  Custom = {}
  Cred = {c1}
  DID = {}
  Req = {r1, r2}
  Anchored = FALSE
  DiskFaults = TRUE
  Isolated = FALSE
INVARIANTS MapsAgree StaticSurvives OwnersServed
PROPERTIES PurgeHappens
