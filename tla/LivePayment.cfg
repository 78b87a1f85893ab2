SPECIFICATION Spec
CONSTANTS
  k1 = k1  k2 = k2  k3 = k3  k4 = k4
  i1 = i1  i2 = i2  i3 = i3  shop = shop  other = other
  Exec = {x1, x2}
  Coin = {k1, k2, k3, k4, k5, k6}
  Deposit <- MCDeposit
  Invoice <- MCInvoice
  AllowedPayTo = {shop}
  BaseFee = 0  InputFee = 1  OutputFee = 1  DustSats = 2
  maxPaymentSats = 3
  maxFeeSats = 3
  Skew = 0
  MaxTime = 1
  MaxResults = 3
  Nobody = Nobody  NoTx = NoTx  NoInvoice = NoInvoice
SYMMETRY Symmetry
INVARIANTS PaidWithinPolicy OnlyPlainCoinsSpent FeeIsTheRates ResultsAreTrue
