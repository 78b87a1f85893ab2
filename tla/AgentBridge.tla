---------------------------- MODULE AgentBridge ----------------------------
(***************************************************************************)
(* X402AuthorizationBridge.authorizePayment with its                       *)
(* InMemoryAuthorizationReplayCache (x402-xec-agent-bridge/src): each call *)
(* reserves its invoice, awaits the policy evaluator, awaits the wallet and*)
(* then commits or rolls back.  Calls interleave at the two awaits, and    *)
(* time passes there.                                                      *)
(***************************************************************************)
EXTENDS Integers, Sequences, FiniteSetsExt, JsMap

CONSTANTS
  Call,            \* slots: a slot holds one authorizePayment at a time
  Nonce,           \* invoice nonces
  Invoice,         \* the invoices of the 402 responses the agent meets
  dailyLimitSats,  \* configured limit
  IntentTtl,       \* intentTtlSeconds
  Policy,          \* the validity the evaluator may give a decision
  MaxTime,         \* bound on the clock
  NoInvoice

ASSUME BridgeAssumption ==
  /\ Invoice \subseteq [id : Nat, nonce : Nonce, amountSats : Nat,
                        issuedAt : Nat, expiresAt : Nat]
  /\ dailyLimitSats \in Nat /\ IntentTtl \in Nat /\ MaxTime \in Nat
  /\ Policy \subseteq Nat
  /\ NoInvoice \notin Invoice

VARIABLES
  now,                \* the clock of bridge and wallet
  inFlightInvoices,   \* the replay cache: reservations ...
  inFlightNonces,
  committedInvoices,  \* ... and authorizations with their expiry
  committedNonces,
  pc,                 \* pc[c]: the await of call c
  invoice,            \* invoice[c]: the invoice of call c
  deadline,           \* deadline[c]: when its intent, then its request, expires
  outcome,            \* outcome[c]: what the call returned or threw
  approvals           \* every approval returned: [invoice, recordedAt]

cacheVars == <<inFlightInvoices, inFlightNonces, committedInvoices, committedNonces>>
callVars == <<pc, invoice, deadline, outcome>>
vars == <<now, cacheVars, callVars, approvals>>
-----------------------------------------------------------------------------
Least(i, j) == IF i < j THEN i ELSE j

Outcome == {"NONE", "approved", "rejected", "INVOICE_NOT_YET_VALID",
            "INVOICE_EXPIRED", "CONCURRENT_CONFLICT", "DUPLICATE_INVOICE",
            "NONCE_REUSE", "INSUFFICIENT_FUNDS_LIMIT", "POLICY_DECISION_INVALID",
            "INVOICE_EXPIRED_DURING_AUTHORIZATION", "WALLET_FAILED",
            "HUMAN_APPROVAL_EXPIRED"}

TypeOK ==
  /\ now \in Nat
  /\ inFlightInvoices \subseteq Invoice
  /\ inFlightNonces \subseteq Nonce
  /\ Maps(committedInvoices, Invoice, Nat)
  /\ Maps(committedNonces, Nonce, Nat)
  /\ pc \in [Call -> {"idle", "policy", "wallet", "done"}]
  /\ invoice \in [Call -> Invoice \cup {NoInvoice}]
  /\ deadline \in [Call -> Nat]
  /\ outcome \in [Call -> Outcome]
  /\ approvals \in Seq([invoice : Invoice, recordedAt : Nat])

Init ==
  /\ now = 0
  /\ inFlightInvoices = {}
  /\ inFlightNonces = {}
  /\ committedInvoices = Empty
  /\ committedNonces = Empty
  /\ pc = [c \in Call |-> "idle"]
  /\ invoice = [c \in Call |-> NoInvoice]
  /\ deadline = [c \in Call |-> 0]
  /\ outcome = [c \in Call |-> "NONE"]
  /\ approvals = <<>>

Tick ==
  /\ now < MaxTime
  /\ now' = now + 1
  /\ UNCHANGED <<cacheVars, callVars, approvals>>

(* The call ends: it returns a result or throws.                           *)
End(c, o) ==
  /\ pc' = [pc EXCEPT ![c] = "done"]
  /\ outcome' = [outcome EXCEPT ![c] = o]
  /\ deadline' = [deadline EXCEPT ![c] = 0]

KeepReservation(i) ==  \* variant: an error path without rollback
  UNCHANGED <<inFlightInvoices, inFlightNonces>>

(* What commit and rollback share: the reservation is given back.          *)
Release(i) ==
  /\ inFlightInvoices' = inFlightInvoices \ {i}
  /\ inFlightNonces' = inFlightNonces \ {i.nonce}

Rollback(c, o) ==
  /\ Release(invoice[c])
  /\ UNCHANGED <<committedInvoices, committedNonces, approvals>>
  /\ End(c, o)

RememberInvoice(i) ==  \* variant: only the invoice index is filled
  /\ committedInvoices' = Set(committedInvoices, i, i.expiresAt)
  /\ UNCHANGED committedNonces

RememberByNonce(i) ==  \* variant: the invoice index is keyed by the nonce
  /\ committedInvoices' = Set(committedInvoices, i.nonce, i.expiresAt)
  /\ committedNonces' = Set(committedNonces, i.nonce, i.expiresAt)

Remember(i) ==
  /\ committedInvoices' = Set(committedInvoices, i, i.expiresAt)
  /\ committedNonces' = Set(committedNonces, i.nonce, i.expiresAt)

Commit(c, recordedAt) ==
  /\ Release(invoice[c])
  /\ Remember(invoice[c])
  /\ approvals' = Append(approvals, [invoice |-> invoice[c], recordedAt |-> recordedAt])
  /\ End(c, "approved")

PrunedEarly(f) == [x \in {y \in DOMAIN f : f[y] > now + 1} |-> f[x]]  \* variant

Pruned(f) == [x \in {y \in DOMAIN f : f[y] > now} |-> f[x]]

(* reserve prunes, then refuses what is in flight or was authorized.       *)
InFlight(i) == i \in inFlightInvoices \/ i.nonce \in inFlightNonces

Conflict(i) ==
  IF InFlight(i) THEN "CONCURRENT_CONFLICT"
  ELSE IF i \in DOMAIN Pruned(committedInvoices) THEN "DUPLICATE_INVOICE"
  ELSE IF i.nonce \in DOMAIN Pruned(committedNonces) THEN "NONCE_REUSE"
  ELSE "NONE"

AfterConflict(i) == Release(i)  \* variant: reserve stands inside the try block

(* reserve throws outside the try block, so nothing is rolled back.        *)
OutsideTry(i) == UNCHANGED <<inFlightInvoices, inFlightNonces>>

IntentExpiry(i) == Least(i.expiresAt, now + IntentTtl)

(* authorizePayment up to the policy evaluator, with one reading of the    *)
(* clock.  A reservation made and rolled back on the way leaves no trace.  *)
Authorize(c, i) ==
  /\ pc[c] = "idle"
  /\ invoice' = [invoice EXCEPT ![c] = i]
  /\ UNCHANGED <<now, approvals>>
  /\ \/ /\ now < i.issuedAt
        /\ End(c, "INVOICE_NOT_YET_VALID")
        /\ UNCHANGED cacheVars
     \/ /\ now >= i.issuedAt /\ now >= i.expiresAt
        /\ End(c, "INVOICE_EXPIRED")
        /\ UNCHANGED cacheVars
     \/ /\ i.issuedAt <= now /\ now < i.expiresAt
        /\ committedInvoices' = Pruned(committedInvoices)
        /\ committedNonces' = Pruned(committedNonces)
        /\ \/ /\ Conflict(i) # "NONE"
              /\ OutsideTry(i)
              /\ End(c, Conflict(i))
           \/ /\ Conflict(i) = "NONE"
              /\ UNCHANGED <<inFlightInvoices, inFlightNonces>>
              /\ \/ IntentExpiry(i) <= now /\ End(c, "INVOICE_EXPIRED")
                 \/ /\ IntentExpiry(i) > now
                    /\ i.amountSats > dailyLimitSats
                    /\ End(c, "INSUFFICIENT_FUNDS_LIMIT")
           \/ /\ Conflict(i) = "NONE"
              /\ IntentExpiry(i) > now
              /\ i.amountSats <= dailyLimitSats
              /\ inFlightInvoices' = inFlightInvoices \cup {i}
              /\ inFlightNonces' = inFlightNonces \cup {i.nonce}
              /\ pc' = [pc EXCEPT ![c] = "policy"]
              /\ deadline' = [deadline EXCEPT ![c] = IntentExpiry(i)]
              /\ UNCHANGED outcome

(* The evaluator answers: it fails or decides what Phase C1 does not take, *)
(* it rejects, or it asks for a human, until some time.  The clock is read *)
(* again before the wallet is asked.                                       *)
PolicyAnswers(c) ==
  /\ pc[c] = "policy"
  /\ \/ Rollback(c, "POLICY_DECISION_INVALID")
     \/ Rollback(c, "rejected")
     \/ \E until \in Policy :
          \/ /\ now >= Least(deadline[c], until)
             /\ Rollback(c, "INVOICE_EXPIRED_DURING_AUTHORIZATION")
          \/ /\ now < Least(deadline[c], until)
             /\ pc' = [pc EXCEPT ![c] = "wallet"]
             /\ deadline' = [deadline EXCEPT ![c] = Least(deadline[c], until)]
             /\ UNCHANGED <<cacheVars, outcome, approvals>>
  /\ UNCHANGED <<now, invoice>>

AnyTime(c, recordedAt) == TRUE  \* variant: the validity of the answer is not checked

InTime(c, recordedAt) == recordedAt < deadline[c]

(* The wallet fails or its answer does not fit the request, or the human's *)
(* decision, recorded some time ago, arrives.                              *)
WalletAnswers(c) ==
  /\ pc[c] = "wallet"
  /\ \/ Rollback(c, "WALLET_FAILED")
     \/ \E recordedAt \in 0 .. now :
          \/ ~InTime(c, recordedAt) /\ Rollback(c, "HUMAN_APPROVAL_EXPIRED")
          \/ /\ InTime(c, recordedAt)
             /\ \/ Commit(c, recordedAt)
                \/ Rollback(c, "rejected")
                \/ Rollback(c, "HUMAN_APPROVAL_EXPIRED")
  /\ UNCHANGED <<now, invoice>>

Return(c) ==
  /\ pc[c] = "done"
  /\ pc' = [pc EXCEPT ![c] = "idle"]
  /\ invoice' = [invoice EXCEPT ![c] = NoInvoice]
  /\ outcome' = [outcome EXCEPT ![c] = "NONE"]
  /\ UNCHANGED <<now, cacheVars, deadline, approvals>>

Next ==
  \/ Tick
  \/ \E c \in Call :
       \/ \E i \in Invoice : Authorize(c, i)
       \/ PolicyAnswers(c) \/ WalletAnswers(c) \/ Return(c)

Spec == Init /\ [][Next]_vars

(* The evaluator and the wallet answer or fail; nothing in the code limits *)
(* how long they take.                                                     *)
FairSpec ==
  Spec /\ \A c \in Call : WF_vars(PolicyAnswers(c) \/ WalletAnswers(c) \/ Return(c))
-----------------------------------------------------------------------------
(* An invoice is approved at most once, also by calls that run at the same *)
(* time and although the cache forgets it at its expiry.                   *)
ApprovedOnce ==
  \A i, j \in DOMAIN approvals : approvals[i].invoice = approvals[j].invoice => i = j

(* The reservations are those of the calls under way, and no two of these  *)
(* share an invoice or a nonce: a failing call gives back its own          *)
(* reservation and nobody else's.                                          *)
Running == {c \in Call : pc[c] \in {"policy", "wallet"}}

ReservationsAreHeld ==
  /\ inFlightInvoices = {invoice[c] : c \in Running}
  /\ inFlightNonces = {invoice[c].nonce : c \in Running}
  /\ \A c, d \in Running : c # d => invoice[c].nonce # invoice[d].nonce

(* A human's approval counts only if it was given while the invoice could  *)
(* be paid, however late it arrives.                                       *)
ApprovedInTime ==
  \A i \in DOMAIN approvals : approvals[i].recordedAt < approvals[i].invoice.expiresAt

(* While an approved invoice is valid its nonce is not free for another.   *)
NonceStaysSpent ==
  \A i \in DOMAIN approvals :
    LET a == approvals[i].invoice IN
    now < a.expiresAt => \A c \in Running : invoice[c].nonce # a.nonce

(* A reservation does not outlive its call.                                *)
ReservationReleased ==
  \A i \in Invoice : (i \in inFlightInvoices) ~> (i \notin inFlightInvoices)

(* "Configured daily monetary limit" (bridge.ts:128): what is approved     *)
(* within a day stays within the limit.                                    *)
WithinDailyLimit ==
  MapThenSumSet(LAMBDA i : approvals[i].invoice.amountSats, DOMAIN approvals)
    <= dailyLimitSats
=============================================================================
