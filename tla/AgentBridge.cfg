SPECIFICATION FairSpec
CONSTANTS
  n1 = n1  n2 = n2
  Call = {c1, c2}
  Nonce = {n1, n2}
  Invoice <- MCInvoice
  dailyLimitSats = 2
  IntentTtl = 2
  Policy = {2, 4}
  MaxTime = 4
  NoInvoice = NoInvoice
INVARIANTS TypeOK ApprovedOnce ReservationsAreHeld  NonceStaysSpent
PROPERTIES ReservationReleased
