------------------------- MODULE SettlementGateway -------------------------
(***************************************************************************)
(* createX402SettlementMiddleware (x402-xec-express) with                  *)
(* verifySettlementProof (x402-xec-core): HTTP requests to protected       *)
(* resources, each an async handler that awaits the invoice store and then *)
(* Chronik, so that requests interleave at every await, against an atomic  *)
(* invoice store and a chain that moves on meanwhile.  The store may be    *)
(* lost and started anew (tests/temporal-fencing).                         *)
(***************************************************************************)
EXTENDS ChronikView, FiniteSets

CONSTANTS
  Call,        \* request slots: a slot serves one HTTP request at a time
  Resource,    \* protected resources (as their resourceHash)
  Price,       \* Price[r]: amountSats of the route of resource r
  Invoice,     \* invoice hashes: fixed by a fresh random nonce each
  Outputs,     \* Outputs[t]: the outputs of transaction t, fixed by its txid
  Allocating,  \* TRUE: payToAllocator; FALSE: a static payTo, development only
  Validity,    \* expirySeconds
  Tolerance,   \* TEMPORAL_FENCE_TOLERANCE_SECONDS
  Skew,        \* how far a server's clock may be behind
  Recovery,    \* how long the servers are down when the store is lost
  MaxEpoch,    \* bound on the number of such losses
  NoRow, NoRequest

Output == [payTo : Nat, sats : Nat, token : BOOLEAN]

ASSUME GatewayAssumption ==
  /\ Price \in [Resource -> Nat]
  /\ Outputs \in [Txid -> SUBSET Output]
  /\ Allocating \in BOOLEAN
  /\ Validity \in Nat /\ Tolerance \in Nat /\ Skew \in Nat
  /\ Recovery \in Nat /\ MaxEpoch \in Nat

(* A database is restored later than the tolerance forgives, clock skew    *)
(* included, and than blocks are still disconnected.                       *)
ASSUME RecoveryAssumption == Recovery > Tolerance + Skew /\ Recovery >= ReorgDepth

VARIABLES
  rows,      \* the invoices of the store
  drawn,     \* the invoice hashes ever issued (their nonces are spent)
  epoch,     \* how often the store was lost
  pc,        \* pc[c]: the await request c stands at
  req,       \* req[c]: the request
  clock,     \* clock[c]: the time it read
  snap,      \* snap[c]: the row it read before its later awaits
  code,      \* code[c]: the outcome
  unlocked   \* every unlock ever: [hash, txid, epoch]

callVars == <<pc, req, clock, snap, code>>
vars == <<chronikVars, rows, drawn, epoch, callVars, unlocked>>
-----------------------------------------------------------------------------
(* paidBy is the set of the settling transaction, empty while the state is *)
(* "ISSUED"; settledAt is 0 until then.                                    *)
Row == [hash : Invoice, resource : Resource, index : Nat, issuedAt : Int,
        paidBy : SUBSET Txid, settledAt : Int]

OfferRequest == [op : {"offer"}, resource : Resource]
ProofRequest == [op : {"proof"}, resource : Resource, hash : Invoice, txid : Txid]
Request == OfferRequest \cup ProofRequest

(* Answers that deny a proof for what it is, ...                           *)
Denied == {"INVOICE_NOT_FOUND", "INVOICE_EXPIRED", "TXID_CONFLICT",
           "TXID_REUSED", "HISTORICAL_TRANSACTION", "PAYMENT_MISMATCH"}
(* ... and answers about the request, the chain or the server.             *)
Deferred == {"RESOURCE_MISMATCH", "INVOICE_NOT_YET_VALID", "TX_NOT_FOUND",
             "CHRONIK_UNAVAILABLE", "TRANSACTION_NOT_FINAL",
             "TRANSACTION_TIME_UNKNOWN", "ERROR"}
Offered == {"PAYMENT_REQUIRED", "PAYMENT_OFFER_ENCODING_FAILED"}

TypeOK ==
  /\ ChronikTypeOK
  /\ rows \subseteq Row
  /\ drawn \subseteq Invoice
  /\ epoch \in Nat
  /\ pc \in [Call -> {"offer", "lookup", "check", "query", "commit", "done"}]
  /\ req \in [Call -> Request \cup {NoRequest}]
  /\ clock \in [Call -> Int]
  /\ snap \in [Call -> Row \cup {NoRow}]
  /\ code \in [Call -> Denied \cup Deferred \cup Offered \cup {"NONE", "UNLOCKED"}]
  /\ unlocked \subseteq [hash : Invoice, txid : Txid, epoch : Nat]

ServerTime == now - Skew .. now

NextIndex(T) ==
  IF T = {} THEN 0
  ELSE 1 + CHOOSE m \in {r.index : r \in T} : \A r \in T : r.index <= m

PayTo(r) == IF Allocating THEN r.index ELSE 0

(* An output to the invoice's script, of exactly its amount, without token.*)
Pays(t, r) ==
  \E o \in Outputs[t] :
    o.payTo = PayTo(r) /\ o.sats = Price[r.resource] /\ ~o.token

Expired(r, time) == time >= r.issuedAt + Validity

Goto(c, l) == pc' = [pc EXCEPT ![c] = l]

Reply(c, o) ==
  /\ Goto(c, "done")
  /\ code' = [code EXCEPT ![c] = o]
  /\ clock' = [clock EXCEPT ![c] = 0]

Proceed(c, l) ==
  /\ Goto(c, l)
  /\ UNCHANGED <<code, clock>>
-----------------------------------------------------------------------------
Init ==
  /\ ChronikInit
  /\ rows = {}
  /\ drawn = {}
  /\ epoch = 0
  /\ pc = [c \in Call |-> "done"]
  /\ req = [c \in Call |-> NoRequest]
  /\ clock = [c \in Call |-> 0]
  /\ snap = [c \in Call |-> NoRow]
  /\ code = [c \in Call |-> "NONE"]
  /\ unlocked = {}

(* A request without proof header reads the clock (issuedAt) before it     *)
(* awaits the store; one with a proof goes to verifySettlementProof.       *)
ArriveWithoutProof(c, q) ==
  /\ pc[c] = "done"
  /\ Goto(c, "offer")
  /\ \E time \in ServerTime : clock' = [clock EXCEPT ![c] = time]
  /\ req' = [req EXCEPT ![c] = q]
  /\ snap' = [snap EXCEPT ![c] = NoRow]
  /\ code' = [code EXCEPT ![c] = "NONE"]
  /\ UNCHANGED <<chronikVars, rows, drawn, epoch, unlocked>>

ArriveWithProof(c, q) ==
  /\ pc[c] = "done"
  /\ Goto(c, "lookup")
  /\ req' = [req EXCEPT ![c] = q]
  /\ clock' = [clock EXCEPT ![c] = 0]
  /\ snap' = [snap EXCEPT ![c] = NoRow]
  /\ code' = [code EXCEPT ![c] = "NONE"]
  /\ UNCHANGED <<chronikVars, rows, drawn, epoch, unlocked>>

(* issueWithAllocation (or issue), then the 402 that carries the offer; the*)
(* offer may not fit its header, and the invoice is issued all the same.   *)
Offer(c) ==
  /\ pc[c] = "offer"
  /\ \E h \in Invoice \ drawn :
       /\ drawn' = drawn \cup {h}
       /\ rows' = rows \cup {[hash |-> h, resource |-> req[c].resource,
                              index |-> NextIndex(rows), issuedAt |-> clock[c],
                              paidBy |-> {}, settledAt |-> 0]}
  /\ \E o \in Offered : Reply(c, o)
  /\ UNCHANGED <<chronikVars, epoch, req, snap, unlocked>>

(* await store.getByInvoiceHash                                            *)
Lookup(c) ==
  /\ pc[c] = "lookup"
  /\ \/ /\ \A r \in rows : r.hash # req[c].hash
        /\ Reply(c, "INVOICE_NOT_FOUND")
        /\ UNCHANGED snap
     \/ \E r \in rows :
          /\ r.hash = req[c].hash
          /\ snap' = [snap EXCEPT ![c] = r]
          /\ Proceed(c, "check")
  /\ UNCHANGED <<chronikVars, rows, drawn, epoch, req, unlocked>>

(* Expiry binds a proof of payment only while the invoice is unpaid.       *)
TooLate(r, t, time) == r.paidBy = {} /\ Expired(r, time)

AnyResource(r, q) == TRUE  \* variant: an invoice fits every route

Fits(r, q) == r.resource = q.resource

(* The checks on the row, with the one reading of the clock.               *)
Check(c) ==
  LET r == snap[c]
      t == req[c].txid IN
  /\ pc[c] = "check"
  /\ \/ /\ ~Fits(r, req[c])
        /\ Reply(c, "RESOURCE_MISMATCH")
     \/ /\ Fits(r, req[c])
        /\ \E time \in ServerTime :
             \/ /\ time < r.issuedAt
                /\ Reply(c, "INVOICE_NOT_YET_VALID")
             \/ /\ time >= r.issuedAt /\ TooLate(r, t, time)
                /\ Reply(c, "INVOICE_EXPIRED")
             \/ /\ time >= r.issuedAt /\ ~TooLate(r, t, time)
                /\ r.paidBy \notin {{}, {t}}
                /\ Reply(c, "TXID_CONFLICT")
             \/ /\ time >= r.issuedAt /\ ~TooLate(r, t, time)
                /\ r.paidBy \in {{}, {t}}
                /\ Goto(c, "query")
                /\ clock' = [clock EXCEPT ![c] = time]
                /\ UNCHANGED code
  /\ UNCHANGED <<chronikVars, rows, drawn, epoch, req, snap, unlocked>>

WithoutFence(s, r) == FALSE  \* variant: no temporal fence

FencedByExpiry(s, r) ==  \* variant: the evidence must also precede the expiry
  \/ ObservedAt(s) < r.issuedAt - Tolerance
  \/ Expired(r, ObservedAt(s))

(* Evidence older than the invoice, beyond the tolerance.                  *)
Historical(s, r) == ObservedAt(s) < r.issuedAt - Tolerance

(* Chronik's answer and the checks on it.                                  *)
Query(c) ==
  LET r == snap[c]
      t == req[c].txid
      s == chain[t] IN
  /\ pc[c] = "query"
  /\ \/ Reply(c, "CHRONIK_UNAVAILABLE")
     \/ s.at = "absent" /\ Reply(c, "TX_NOT_FOUND")
     \/ s.at # "absent" /\ ~Final(s) /\ Reply(c, "TRANSACTION_NOT_FINAL")
     \/ /\ Final(s)
        /\ \/ ObservedAt(s) = 0 /\ Reply(c, "TRANSACTION_TIME_UNKNOWN")
           \/ /\ ObservedAt(s) > 0
              /\ \/ Historical(s, r) /\ Reply(c, "HISTORICAL_TRANSACTION")
                 \/ ~Historical(s, r) /\ ~Pays(t, r) /\ Reply(c, "PAYMENT_MISMATCH")
                 \/ ~Historical(s, r) /\ Pays(t, r) /\ Proceed(c, "commit")
  /\ UNCHANGED <<chronikVars, rows, drawn, epoch, req, snap, unlocked>>

FreshTime(c) == now  \* variant: the clock is read again at the commit

(* paidAt is the time read before Chronik was asked.                       *)
PaidAt(c) == clock[c]

NeverElsewhere(h, t) == FALSE  \* variant: the replay check is missing

SettledElsewhere(h, t) == \E r \in rows : t \in r.paidBy /\ r.hash # h

OverwriteSettlement(r, t) == TRUE  \* variant: a paid invoice is paid again

Unpaid(r, t) == r.paidBy = {}

(* commitPaid, atomic in the store, on the row as it is now, then next().  *)
Commit(c) ==
  LET h == req[c].hash
      t == req[c].txid IN
  /\ pc[c] = "commit"
  /\ \/ /\ SettledElsewhere(h, t)
        /\ Reply(c, "TXID_REUSED")
        /\ UNCHANGED <<rows, unlocked>>
     \/ /\ ~SettledElsewhere(h, t)
        /\ \E r \in rows :
             /\ r.hash = h
             /\ \/ /\ Unpaid(r, t)
                   /\ rows' = (rows \ {r}) \cup
                        {[r EXCEPT !.paidBy = {t}, !.settledAt = PaidAt(c)]}
                   /\ Reply(c, "UNLOCKED")
                   /\ unlocked' = unlocked \cup {[hash |-> h, txid |-> t, epoch |-> epoch]}
                \/ /\ ~Unpaid(r, t) /\ r.paidBy = {t}
                   /\ Reply(c, "UNLOCKED")
                   /\ unlocked' = unlocked \cup {[hash |-> h, txid |-> t, epoch |-> epoch]}
                   /\ UNCHANGED rows
                \/ /\ ~Unpaid(r, t) /\ r.paidBy # {t}
                   /\ Reply(c, "TXID_CONFLICT")
                   /\ UNCHANGED <<rows, unlocked>>
  /\ UNCHANGED <<chronikVars, drawn, epoch, req, snap>>

(* A call of the store throws (busy, disk full): Express answers 500.      *)
StoreFails(c) ==
  /\ pc[c] \in {"offer", "lookup", "commit"}
  /\ Reply(c, "ERROR")
  /\ UNCHANGED <<chronikVars, rows, drawn, epoch, req, snap, unlocked>>

(* The server process dies, or the client goes away with the answer unread.*)
Abort(c) ==
  /\ pc' = [pc EXCEPT ![c] = "done"]
  /\ req' = [req EXCEPT ![c] = NoRequest]
  /\ clock' = [clock EXCEPT ![c] = 0]
  /\ snap' = [snap EXCEPT ![c] = NoRow]
  /\ code' = [code EXCEPT ![c] = "NONE"]
  /\ UNCHANGED <<chronikVars, rows, drawn, epoch, unlocked>>

(* The database is lost and the servers start over with an empty one: the  *)
(* derivation index, and with it the addresses, restart at 0.  No payment  *)
(* that settled an invoice is in a reorganisation at that time.            *)
LoseStore ==
  /\ epoch < MaxEpoch
  /\ now + Recovery <= MaxTime
  /\ \A u \in unlocked : Final(chain[u.txid]) /\ ObservedAt(chain[u.txid]) > 0
  /\ epoch' = epoch + 1
  /\ now' = now + Recovery
  /\ rows' = {}
  /\ pc' = [c \in Call |-> "done"]
  /\ req' = [c \in Call |-> NoRequest]
  /\ clock' = [c \in Call |-> 0]
  /\ snap' = [c \in Call |-> NoRow]
  /\ code' = [c \in Call |-> "NONE"]
  /\ UNCHANGED <<chain, drawn, unlocked>>

Serve(c) == Offer(c) \/ Lookup(c) \/ Check(c) \/ Query(c) \/ Commit(c)

Next ==
  \/ \E c \in Call :
       \/ \E q \in OfferRequest : ArriveWithoutProof(c, q)
       \/ \E q \in ProofRequest : ArriveWithProof(c, q)
       \/ Serve(c) \/ StoreFails(c) \/ Abort(c)
  \/ LoseStore
  \/ ChronikNext /\ UNCHANGED <<rows, drawn, epoch, callVars, unlocked>>

Spec == Init /\ [][Next]_vars
-----------------------------------------------------------------------------
(* A resource is unlocked only by a settlement on record: the invoice was  *)
(* issued for this very resource and is paid by the transaction of the     *)
(* proof, which pays its address the exact amount.                         *)
UnlockIsPaid ==
  \A c \in Call : code[c] = "UNLOCKED" =>
    \E r \in rows :
      /\ r.hash = req[c].hash
      /\ r.resource = req[c].resource
      /\ r.paidBy = {req[c].txid}
      /\ \E o \in Outputs[req[c].txid] :
           o = [payTo |-> PayTo(r), sats |-> Price[r.resource], token |-> FALSE]

(* One transaction unlocks one invoice, ever: neither requests that race   *)
(* across the Chronik await, nor a transaction with several fitting        *)
(* outputs, nor a lost database that hands out the same address again lets *)
(* it unlock another.                                                      *)
SettlesOneInvoice ==
  \A u, v \in unlocked : u.txid = v.txid => u.hash = v.hash

(* While the store lives, an invoice is unlocked by one transaction only.  *)
PaidOnce ==
  \A u, v \in unlocked :
    u.epoch = v.epoch /\ u.hash = v.hash => u.txid = v.txid

(* A settlement is dated inside the validity window of its invoice, however*)
(* long Chronik took and whatever was committed in between.                *)
SettledInWindow ==
  \A r \in rows : r.paidBy # {} =>
    r.issuedAt <= r.settledAt /\ ~Expired(r, r.settledAt)

(* The retry of a settled proof, after a lost answer, a crash or the expiry*)
(* of the invoice, is never denied: at worst Chronik or the store is not   *)
(* available or a reorganisation took the finality away.                   *)
RetryNeverDenied ==
  \A c \in Call :
    /\ snap[c] # NoRow
    /\ snap[c].paidBy = {req[c].txid}
    => code[c] \notin Denied
=============================================================================
