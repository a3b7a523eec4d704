SPECIFICATION Spec
CONSTANTS
  alice = alice  bob = bob  sales = sales
  t1 = t1  t2 = t2  h1 = h1  h2 = h2  None = None
  Account = {alice, bob}
  Addr = {alice, bob, sales}
  Static = {alice}
  ConfigRoute <- RouteAlice
  DomainOf <- TwoDomains
  Txn = {t1}
  MsgId <- OwnId
  Kind <- Mixed
  Autocrypt = {t1}
  Handler = {h1, h2}
  BufCap = 2
  MaxRcpt = 3
SYMMETRY Symmetry
INVARIANTS TypeOK ForRecipientsOnly AckedAccounted StoredSealed SealedAsDocumented
PROPERTIES CopiesAreTransferred
