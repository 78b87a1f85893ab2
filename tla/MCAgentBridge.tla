--------------------------- MODULE MCAgentBridge ---------------------------
(* Two invoices share a nonce and differ in their validity, one is over    *)
(* the limit.                                                              *)
EXTENDS AgentBridge

CONSTANTS n1, n2

InvoiceOf(k, n, sats, until) ==
  [id |-> k, nonce |-> n, amountSats |-> sats, issuedAt |-> 1, expiresAt |-> until]

MCInvoice == {InvoiceOf(1, n1, 2, 3), InvoiceOf(2, n1, 1, 4), InvoiceOf(3, n2, 1, 3),
              InvoiceOf(4, n2, 3, 3)}
=============================================================================
