SPECIFICATION Spec
CONSTANTS
  Call = {c1, c2}
  Resource = {res1, res2}
  Price <- MCPrice
  Invoice = {i1, i2}
  Txid = {t1, t2}
  Outputs <- MCOutputs
  Allocating = FALSE
  Validity = 1
  Tolerance = 0
  Skew = 0
  Recovery = 1
  ReorgDepth = 0
  MaxTime = 1
  MaxEpoch = 0
  NoRow = NoRow
  NoRequest = NoRequest
SYMMETRY Symmetry
INVARIANTS UnlockIsPaid PaidOnce SettlesOneInvoice
