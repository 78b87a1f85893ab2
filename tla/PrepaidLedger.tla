--------------------------- MODULE PrepaidLedger ---------------------------
(***************************************************************************)
(* What the facilitator promises to a merchant: the debits of prepaid      *)
(* credit.  A request, named by its idempotency key, debits once; no       *)
(* invoice is debited twice; a funding output serves one payer and is      *)
(* never overdrawn.  How requests are queued, when nonces are forgotten    *)
(* and what else is refused is left open.                                  *)
(***************************************************************************)
EXTENDS Integers, JsMap

CONSTANTS
  Key,    \* idempotency keys
  Claim,  \* invoices with their authorizations, as in Facilitator
  Sats    \* the values of funding outputs

VARIABLES
  debits,  \* the debits made: [key, claim]
  credit   \* outpoint -> what is left of it

ledger == <<debits, credit>>
-----------------------------------------------------------------------------
LedgerInit == debits = {} /\ credit = Empty

AnyNonce(m) == TRUE  \* variant: the nonce store is not asked

NonceUnused(m) == \A d \in debits : d.claim.nonce # m.nonce

Left(m, sats) == IF m.outpoint \in DOMAIN credit THEN credit[m.outpoint] ELSE sats

EnoughToBegin(m, sats) == sats >= m.amount  \* variant: earlier debits do not count

Enough(m, sats) == Left(m, sats) >= m.amount

(* Request k for claim m is debited from an output of value sats.          *)
Debit(k, m, sats) ==
  /\ m.sound
  /\ \A d \in debits : d.key # k
  /\ NonceUnused(m)
  /\ \A d \in debits : d.claim.outpoint = m.outpoint => d.claim.payer = m.payer
  /\ Enough(m, sats)
  /\ debits' = debits \cup {[key |-> k, claim |-> m]}
  /\ credit' = Set(credit, m.outpoint, Left(m, sats) - m.amount)

LedgerNext == \E k \in Key, m \in Claim, sats \in Sats : Debit(k, m, sats)

LedgerSpec == LedgerInit /\ [][LedgerNext]_ledger
=============================================================================
