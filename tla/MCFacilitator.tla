--------------------------- MODULE MCFacilitator ---------------------------
(* Claims that share a nonce, an outpoint, or both.                        *)
EXTENDS Facilitator

CONSTANTS n1, n2, p1, p2, o1

ClaimOf(n, p, a, sound) ==
  [nonce |-> n, payer |-> p, outpoint |-> o1, amount |-> a, issuedAt |-> 1,
   expiresAt |-> 2, sound |-> sound]

MCClaim == {ClaimOf(n1, p1, 1, TRUE), ClaimOf(n1, p1, 2, TRUE),
            ClaimOf(n2, p1, 2, TRUE), ClaimOf(n2, p2, 1, TRUE),
            ClaimOf(n2, p1, 1, FALSE)}
=============================================================================
