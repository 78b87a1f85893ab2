---------------------------- MODULE Facilitator ----------------------------
(***************************************************************************)
(* Facilitator.verify over InMemoryTransactionalLedger                     *)
(* (x402-xec-facilitator/src): prepaid credit in a funding output, debited *)
(* once per signed authorization.  transact chains the requests on a       *)
(* promise tail, so that one request at a time is between its first and    *)
(* its last await; time and the queue move on meanwhile.                   *)
(***************************************************************************)
EXTENDS Integers, SequencesExt, JsMap

CONSTANTS
  Call,      \* request slots: a slot holds one verification at a time
  Key,       \* idempotency keys
  Nonce,     \* invoice nonces
  Payer,     \* payer addresses
  Outpoint,  \* funding outpoints
  Claim,     \* the invoices and authorizations that clients present
  Sats,      \* the values Chronik may report for a funding output
  MaxTime,   \* bound on the clock
  NoRequest

(* An authorization with its invoice, of which nonce and amount come; it is*)
(* sound when it binds invoice and resource and its signature verifies.    *)
(* Two different claims have different digests.                            *)
ASSUME FacilitatorAssumption ==
  /\ Claim \subseteq [nonce : Nonce, payer : Payer, outpoint : Outpoint,
                      amount : Nat \ {0}, issuedAt : Nat, expiresAt : Nat,
                      sound : BOOLEAN]
  /\ Sats \subseteq Nat
  /\ MaxTime \in Nat
  /\ NoRequest \notin [key : Key, claim : Claim]

(* A nonce is drawn for one invoice; whoever alters the invoice otherwise, *)
(* its expiry stays.                                                       *)
ASSUME NonceAssumption ==
  \A m, l \in Claim : m.nonce = l.nonce => m.expiresAt = l.expiresAt

VARIABLES
  now,          \* the clock
  accounts,     \* outpoint -> [payer, value, remaining]
  entries,      \* the ledger entries, in order
  idempotency,  \* key -> [claim, remaining]: the request and its response
  nonces,       \* consumed nonce -> expiry
  tail,         \* the requests chained on #tail, the running one first
  pc,           \* pc[c]: the await of call c
  req,          \* req[c]: the request of call c
  clock,        \* clock[c]: the time call c verifies with
  answer        \* answer[c]: code and remaining balance returned

ledgerVars == <<accounts, entries, idempotency, nonces>>
vars == <<now, ledgerVars, tail, pc, req, clock, answer>>
-----------------------------------------------------------------------------
Request == [key : Key, claim : Claim]
Account == [payer : Payer, value : Nat, remaining : Nat]
Entry == [key : Key, claim : Claim, value : Nat, remaining : Nat]
Refused == {"IDEMPOTENCY_CONFLICT", "NOT_YET_VALID", "EXPIRED", "INVALID",
            "NONCE_REUSED", "FUNDING_NOT_FOUND", "FUNDING_CHANGED",
            "PAYER_MISMATCH", "INSUFFICIENT_CREDIT", "ERROR"}
Answer == [code : Refused \cup {"NONE", "VERIFIED"}, remaining : Nat]
NoAnswer == [code |-> "NONE", remaining |-> 0]

TypeOK ==
  /\ now \in Nat
  /\ Maps(accounts, Outpoint, Account)
  /\ entries \in Seq(Entry)
  /\ Maps(idempotency, Key, [claim : Claim, remaining : Nat])
  /\ Maps(nonces, Nonce, Nat)
  /\ tail \in Seq(Call)
  /\ pc \in [Call -> {"idle", "chained", "signature", "funding", "done"}]
  /\ req \in [Call -> Request \cup {NoRequest}]
  /\ clock \in [Call -> Nat]
  /\ answer \in [Call -> Answer]

Init ==
  /\ now = 0
  /\ accounts = Empty
  /\ entries = <<>>
  /\ idempotency = Empty
  /\ nonces = Empty
  /\ tail = <<>>
  /\ pc = [c \in Call |-> "idle"]
  /\ req = [c \in Call |-> NoRequest]
  /\ clock = [c \in Call |-> 0]
  /\ answer = [c \in Call |-> NoAnswer]

Tick ==
  /\ now < MaxTime
  /\ now' = now + 1
  /\ UNCHANGED <<ledgerVars, tail, pc, req, clock, answer>>

(* verify parses the request and chains itself on #tail.                   *)
Receive(c, q) ==
  /\ pc[c] = "idle"
  /\ pc' = [pc EXCEPT ![c] = "chained"]
  /\ req' = [req EXCEPT ![c] = q]
  /\ tail' = Append(tail, c)
  /\ UNCHANGED <<now, ledgerVars, clock, answer>>

(* previous has resolved: c is the first that is not finished.             *)
Turn(c) == Head(tail) = c

Unreleased == tail  \* variant: the tail is not released on this path

(* finally { release() }: the running request is the head of the tail.     *)
Released == Tail(tail)

Finish(c, o, n) ==
  /\ pc' = [pc EXCEPT ![c] = "done"]
  /\ answer' = [answer EXCEPT ![c] = [code |-> o, remaining |-> n]]
  /\ clock' = [clock EXCEPT ![c] = 0]
  /\ tail' = Released

Refuse(c, o) == Finish(c, o, 0)

SameKey(k, m) == TRUE  \* variant: the request digest is not compared

SameRequest(k, m) == idempotency[k].claim = m

(* The idempotency check and the checks of verifyAuthorization up to its   *)
(* await of the signature verifier, with the one reading of the clock.     *)
Start(c) ==
  LET k == req[c].key
      m == req[c].claim IN
  /\ pc[c] = "chained"
  /\ Turn(c)
  /\ \/ /\ k \in DOMAIN idempotency
        /\ ~SameRequest(k, m)
        /\ Refuse(c, "IDEMPOTENCY_CONFLICT")
     \/ /\ k \in DOMAIN idempotency
        /\ SameRequest(k, m)
        /\ Finish(c, "VERIFIED", idempotency[k].remaining)
     \/ /\ k \notin DOMAIN idempotency
        /\ \/ now < m.issuedAt /\ Refuse(c, "NOT_YET_VALID")
           \/ now >= m.issuedAt /\ now >= m.expiresAt /\ Refuse(c, "EXPIRED")
           \/ /\ m.issuedAt <= now /\ now < m.expiresAt
              /\ pc' = [pc EXCEPT ![c] = "signature"]
              /\ clock' = [clock EXCEPT ![c] = now]
              /\ UNCHANGED <<answer, tail>>
  /\ UNCHANGED <<now, ledgerVars, req>>

PrunedEarly(t) == [n \in {x \in DOMAIN nonces : nonces[x] > t + 1} |-> nonces[n]]  \* variant

(* A nonce is forgotten when its invoice has expired.                      *)
Pruned(t) == [n \in {x \in DOMAIN nonces : nonces[x] > t} |-> nonces[n]]

ConsumedAtOnce(t, m) ==  \* variant: the nonce is not staged
  Set(Pruned(t), m.nonce, m.expiresAt)

Consumed(t, m) == Pruned(t)

(* The verifier has answered (or thrown); consume prunes the nonces and    *)
(* stages the claim's one, to be committed with the debit.                 *)
Consume(c) ==
  LET m == req[c].claim IN
  /\ pc[c] = "signature"
  /\ \/ Refuse(c, "ERROR") /\ UNCHANGED nonces
     \/ ~m.sound /\ Refuse(c, "INVALID") /\ UNCHANGED nonces
     \/ /\ m.sound
        /\ \/ /\ m.nonce \in DOMAIN Pruned(clock[c])
              /\ nonces' = Pruned(clock[c])
              /\ Refuse(c, "NONCE_REUSED")
           \/ /\ m.nonce \notin DOMAIN Pruned(clock[c])
              /\ nonces' = Consumed(clock[c], m)
              /\ pc' = [pc EXCEPT ![c] = "funding"]
              /\ UNCHANGED <<answer, clock, tail>>
  /\ UNCHANGED <<now, accounts, entries, idempotency, req>>

CommittedNonces(m) == Set(nonces, m.nonce, m.expiresAt)

CreditAnew(m, sats) ==  \* variant: every debit starts from the full output
  [payer |-> m.payer, value |-> sats, remaining |-> sats]

Credit(m, sats) ==
  IF m.outpoint \in DOMAIN accounts THEN accounts[m.outpoint]
  ELSE [payer |-> m.payer, value |-> sats, remaining |-> sats]

(* transaction.commit                                                      *)
Debit(c, account) ==
  LET k == req[c].key
      m == req[c].claim
      n == account.remaining - m.amount IN
  /\ nonces' = CommittedNonces(m)
  /\ accounts' = Set(accounts, m.outpoint, [account EXCEPT !.remaining = n])
  /\ entries' = Append(entries, [key |-> k, claim |-> m, value |-> account.value,
                                 remaining |-> n])
  /\ idempotency' = Set(idempotency, k, [claim |-> m, remaining |-> n])
  /\ Finish(c, "VERIFIED", n)

(* What inspectFundingTransaction says of a transaction that Chronik does  *)
(* not know, of an output that is missing or carries a token, and of one   *)
(* that is neither in a block nor final; or Chronik fails.                 *)
Unfunded == {"FUNDING_NOT_FOUND", "ERROR"}

(* inspectFundingTransaction has failed, or answered with an output of some*)
(* value; then the rest of debit.                                          *)
Inspect(c) ==
  LET m == req[c].claim
      o == m.outpoint IN
  /\ pc[c] = "funding"
  /\ \/ /\ \E e \in Unfunded : Refuse(c, e)
        /\ UNCHANGED ledgerVars
     \/ \E sats \in Sats :
          LET account == Credit(m, sats)
              refuse(e) == Refuse(c, e) /\ UNCHANGED ledgerVars IN
          \/ sats < m.amount /\ refuse("INSUFFICIENT_CREDIT")
          \/ /\ sats >= m.amount
             /\ \/ account.value # sats /\ refuse("FUNDING_CHANGED")
                \/ /\ account.value = sats
                   /\ account.payer # m.payer
                   /\ refuse("PAYER_MISMATCH")
                \/ /\ account.value = sats
                   /\ account.payer = m.payer
                   /\ account.remaining < m.amount
                   /\ refuse("INSUFFICIENT_CREDIT")
                \/ /\ account.value = sats
                   /\ account.payer = m.payer
                   /\ account.remaining >= m.amount
                   /\ Debit(c, account)
  /\ UNCHANGED <<now, req>>

(* The response is sent; it may be lost on the way.                        *)
Return(c) ==
  /\ pc[c] = "done"
  /\ pc' = [pc EXCEPT ![c] = "idle"]
  /\ req' = [req EXCEPT ![c] = NoRequest]
  /\ answer' = [answer EXCEPT ![c] = NoAnswer]
  /\ UNCHANGED <<now, ledgerVars, tail, clock>>

Next ==
  \/ Tick
  \/ \E c \in Call :
       \/ \E q \in Request : Receive(c, q)
       \/ Start(c) \/ Consume(c) \/ Inspect(c) \/ Return(c)

Spec == Init /\ [][Next]_vars

(* The event loop runs what can run; the signature verifier and Chronik    *)
(* answer or fail, but they do not hang: nothing in the code limits them.  *)
FairSpec ==
  Spec /\ \A c \in Call : WF_vars(Start(c) \/ Consume(c) \/ Inspect(c) \/ Return(c))
-----------------------------------------------------------------------------
(* The credit of a funding output is its value minus what was debited from *)
(* it, and is never overdrawn.                                             *)
Spent(o) ==
  FoldLeft(LAMBDA sum, e : IF e.claim.outpoint = o THEN sum + e.claim.amount ELSE sum,
           0, entries)

CreditConserved ==
  \A o \in DOMAIN accounts : accounts[o].remaining + Spent(o) = accounts[o].value

(* The facilitator keeps what a merchant relies upon: an invoice is debited*)
(* once, whichever keys, payers and outpoints its nonce is presented with, *)
(* although nonces are forgotten at expiry; an idempotency key debits once;*)
(* no output is overdrawn or debited for two payers.                       *)
Ledger == INSTANCE PrepaidLedger WITH
  debits <- {[key |-> entries[i].key, claim |-> entries[i].claim] : i \in DOMAIN entries},
  credit <- [o \in DOMAIN accounts |-> accounts[o].remaining]

ImplementsLedger == Ledger!LedgerSpec

(* Whoever is told VERIFIED has been debited for this very request, with   *)
(* this balance, now or by the request it repeats.                         *)
VerifiedIsDebited ==
  \A c \in Call : answer[c].code = "VERIFIED" =>
    \E i \in DOMAIN entries :
      /\ entries[i].key = req[c].key
      /\ entries[i].claim = req[c].claim
      /\ entries[i].remaining = answer[c].remaining

(* A nonce is spent only by a debit: after a refusal for lack of funds the *)
(* same authorization may be presented again.                              *)
NonceSpentByDebit ==
  \A n \in DOMAIN nonces : \E i \in DOMAIN entries : entries[i].claim.nonce = n

(* Everybody's turn comes, also behind requests that throw.                *)
EveryRequestAnswered ==
  \A c \in Call : pc[c] = "chained" ~> pc[c] = "done"
=============================================================================
