SPECIFICATION FairSpec
CONSTANTS
  n1 = n1  n2 = n2  p1 = p1  p2 = p2  o1 = o1
  Call = {c1, c2}
  Key = {k1, k2}
  Nonce = {n1, n2}
  Payer = {p1, p2}
  Outpoint = {o1}
  Claim <- MCClaim
  Sats = {1, 2, 3}
  MaxTime = 3
  NoRequest = NoRequest
INVARIANTS CreditConserved VerifiedIsDebited NonceSpentByDebit
PROPERTIES ImplementsLedger EveryRequestAnswered
