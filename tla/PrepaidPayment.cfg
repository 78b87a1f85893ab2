SPECIFICATION FairSpec
CONSTANTS
  r1 = r1  r2 = r2  p1 = p1  o1 = o1
  Call = {c1, c2}
  Handler = {h1, h2}
  Resource = {r1, r2}
  AmountOf <- MCAmountOf
  Wallet <- MCWallet
  maxPaymentSats = 2
  expirySeconds = 1
  Nonce = {n1, n2}
  ClientKey = {k1}
  Sats = {2}
  MaxTime = 1
  MaxRepeats = 1
  NoKey = NoKey  NoClaim = NoClaim  Nobody = Nobody
INVARIANTS TypeOK  OneDebitPerCall
PROPERTIES  CallEnds
CHECK_DEADLOCK FALSE
