----------------------- MODULE MCInMemoryInvoiceStore -----------------------
EXTENDS InMemoryInvoiceStore, TLC

CONSTANTS a0, a1

MCDerive == (0 :> a0) @@ (1 :> a1)
Symmetry == Permutations(Nonce) \cup Permutations(Txid)
=============================================================================
