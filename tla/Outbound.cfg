SPECIFICATION FairSpec
CONSTANTS
    p1 = p1  p2 = p2  bad = bad  me = me  l1 = l1
    m1 = m1  m2 = m2  d1 = d1  d2 = d2
    None = None  Own = me  Home = d1
    Peer <- MCPeer  DomainOf <- MCDomainOf
    Letter = {l1}  From <- MCFrom  Html = {m2}
    Msg = {m1, m2}  To <- MCTo  Kind <- MCKind  Envelope <- MCEnvelope
    MaxSub = 2  Config <- MCConfig
    Silent = {d2}
INVARIANTS TypeOK  CopiesApart ResultTruthful IdWasSent
CHECK_DEADLOCK FALSE
PROPERTIES EventuallyReported
