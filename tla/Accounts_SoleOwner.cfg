SPECIFICATION Spec
CONSTANTS
  alice = alice  al = al  bob = bob  peersdir = peersdir
  r1 = r1  r2 = r2  c1 = c1  c2 = c2  d1 = d1  d2 = d2
  NoName = NoName  NoCred = NoCred  NoDID = NoDID
  Name = {bob}
  Static = {}
  StaticRoute <- NoRoute
  Open = {bob}
  Reserved = {}
  Provisionable = {bob}
  PeerActive = {}
  Custom = {}
  Cred = {c1, c2}
  DID = {}
  Req = {r1, r2}
  Anchored = FALSE
  DiskFaults = FALSE
  Isolated = FALSE
INVARIANTS SoleOwner
