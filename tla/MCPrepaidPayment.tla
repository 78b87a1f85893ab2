------------------------- MODULE MCPrepaidPayment --------------------------
(* Two calls from one wallet, whose output may not suffice for both, and   *)
(* two resources at different prices.                                      *)
EXTENDS PrepaidPayment, TLC

CONSTANTS r1, r2, p1, o1

MCAmountOf == (r1 :> 1) @@ (r2 :> 2)
MCWallet == [c \in Call |-> [payer |-> p1, outpoint |-> o1]]
=============================================================================
