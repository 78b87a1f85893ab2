--------------------------- MODULE MCLivePayment ---------------------------
(* A wallet that gets a coin whose rest would be dust, one whose rest is   *)
(* change, a token and a coinbase output, at any time; the change alone    *)
(* pays no invoice, and with a second input the fee exceeds the policy.    *)
(* Two invoices ask for the same payment; the others are against policy.   *)
EXTENDS LivePayment, TLC

CONSTANTS k1, k2, k3, k4, i1, i2, i3, shop, other

UtxoOf(coin, sats, kind) ==
  [coin |-> coin, sats |-> sats, token |-> kind = "token", coinbase |-> kind = "coinbase"]

MCDeposit == {UtxoOf(k1, 5, "xec"), UtxoOf(k2, 8, "xec"),
              UtxoOf(k3, 8, "token"), UtxoOf(k4, 8, "coinbase")}

InvoiceOf(nonce, payTo, amountSats, bound) ==
  [nonce |-> nonce, payTo |-> payTo, amountSats |-> amountSats, issuedAt |-> 0,
   expiresAt |-> 1, bound |-> bound]

Symmetry == Permutations(Exec) \cup Permutations({i1, i2})

MCInvoice == {InvoiceOf(i1, shop, 2, TRUE), InvoiceOf(i2, shop, 2, TRUE),
              InvoiceOf(i3, other, 2, TRUE), InvoiceOf(i3, shop, 2, FALSE)}
=============================================================================
