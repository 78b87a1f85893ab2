SPECIFICATION FairSpec
CONSTANTS
  p1 = p1  p2 = p2
  c1 = c1  c2 = c2 
  a0 = a0  a1 = a1
  Process = {p1, p2}
  Call = {c1, c2}
  Home <- MCHome
  Nonce = {n1, n2}
  Address = {a0, a1, s}
  StaticAddress = {s}
  IndexLimit = 2
  Derive <- MCDerive
  Txid = {t1, t2}
  NoTxid = NoTxid
  NoRow = NoRow
  NoCall = NoCall
  NoRequest = NoRequest
  NoIndex = NoIndex
INVARIANTS UniqueRows  NextAddressIsFree AnswersHold
PROPERTIES RowsAreDurable ImplementsAuthority LockReleased
