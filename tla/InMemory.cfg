SPECIFICATION Spec
CONSTANTS
  a0 = a0  a1 = a1
  Nonce = {n1, n2, n3}
  Address = {a0, a1, s}
  Derive <- MCDerive
  IndexLimit = 2
  Txid = {t1, t2}
  NoTxid = NoTxid
  NoIndex = NoIndex
SYMMETRY Symmetry
CHECK_DEADLOCK FALSE
INVARIANTS TypeOK MapsAgree NextIndexIsFresh AllocatedAddressesDiffer
PROPERTIES ImplementsAuthority
