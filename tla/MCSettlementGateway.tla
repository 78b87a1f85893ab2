------------------------ MODULE MCSettlementGateway ------------------------
(* Every transaction pays the first address.  Its outputs to the second    *)
(* one do not fit: one has another amount, one carries a token.            *)
EXTENDS SettlementGateway, TLC

MCPrice == [r \in Resource |-> 1]
MCOutputs ==
  [t \in Txid |-> {[payTo |-> 0, sats |-> 1, token |-> FALSE],
                   [payTo |-> 1, sats |-> 2, token |-> FALSE],
                   [payTo |-> 1, sats |-> 1, token |-> TRUE]}]
Symmetry ==
  UNION {Permutations(S) : S \in {Call, Invoice, Resource, Txid}}
=============================================================================
