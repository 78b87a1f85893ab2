SPECIFICATION Spec
CONSTANTS
  Call = {c1, c2}
  Resource = {res1}
  Price <- MCPrice
  Invoice = {i1, i2}
  Txid = {t1}
  Outputs <- MCOutputs
  Allocating = TRUE
  Validity = 1
  Tolerance = 0
  Skew = 1
  Recovery = 2
  ReorgDepth = 1
  MaxTime = 4
  MaxEpoch = 1
  NoRow = NoRow
  NoRequest = NoRequest
SYMMETRY Symmetry
INVARIANTS SettlesOneInvoice SettledInWindow RetryNeverDenied
