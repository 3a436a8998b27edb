CONSTANTS
  Submitters = {s1, s2}
  Ids = {r1, r2, r3}
  Peers = {p1, p2}
  NoRequest = NoRequest
  MaxNew = 0
SPECIFICATION FairSpec
INVARIANTS InOrder PeerSees
PROPERTY ImplementsChannel EventuallySent SubmitterReturns
CHECK_DEADLOCK FALSE
