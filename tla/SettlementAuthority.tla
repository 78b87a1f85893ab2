------------------------ MODULE SettlementAuthority ------------------------
(***************************************************************************)
(* What an authoritative invoice store promises to the rest of the system  *)
(* (the contract of AuthoritativeInvoiceStore, x402-xec-core): the server  *)
(* issues invoices, and each of them is settled at most once, by a         *)
(* transaction that settles no other invoice.  Nothing issued is forgotten *)
(* and nothing settled is undone.                                          *)
(***************************************************************************)
CONSTANTS Invoice,  \* invoice hashes
          Txid      \* transaction identifiers

VARIABLES issued,      \* the invoices this server has issued
          settlement   \* the pairs <<invoice, txid>> settled so far

vars == <<issued, settlement>>

TypeOK ==
  /\ issued \subseteq Invoice
  /\ settlement \subseteq issued \X Txid

Init ==
  /\ issued = {}
  /\ settlement = {}

Issue(i) ==
  /\ i \notin issued
  /\ issued' = issued \cup {i}
  /\ UNCHANGED settlement

Settle(i, t) ==
  /\ i \in issued
  /\ \A p \in settlement : p[1] # i /\ p[2] # t
  /\ settlement' = settlement \cup {<<i, t>>}
  /\ UNCHANGED issued

Next ==
  \E i \in Invoice :
    \/ Issue(i)
    \/ \E t \in Txid : Settle(i, t)

Spec == Init /\ [][Next]_vars

(* One transaction unlocks one invoice and one invoice is paid by one      *)
(* transaction: the replay protection of commitPaid.                       *)
OneToOne ==
  \A p, q \in settlement : p[1] = q[1] <=> p[2] = q[2]
=============================================================================
