-------------------------- MODULE PrepaidPayment ---------------------------
(***************************************************************************)
(* A prepaid payment end to end: calls through an axios client with        *)
(* withX402XecPaymentInterceptor (x402-xec-axios), the handlers of         *)
(* createX402XecMiddleware (x402-xec-express), which keep nothing, and the *)
(* facilitator's ledger.  Every message between the three can be lost; an  *)
(* application may repeat a call that ended with its payment header, while *)
(* the server still works on the first.                                    *)
(***************************************************************************)
EXTENDS Integers, FiniteSets, JsMap

CONSTANTS
  Call,            \* the calls applications make
  Handler,         \* slots: requests that the server works on
  Resource,        \* the protected resources
  AmountOf,        \* [Resource -> Nat], route.amountSats
  Wallet,          \* [Call -> [payer, outpoint]], the signer of a call's client
  maxPaymentSats,  \* of the clients
  expirySeconds,   \* of the middleware
  Nonce,           \* invoice nonces: one for each call
  ClientKey,       \* idempotency keys that applications choose
  Sats,            \* values of funding outputs
  MaxTime,         \* bound on the clock
  MaxRepeats,      \* bound on the repeated calls
  NoKey, NoClaim, Nobody

ASSUME PrepaidPaymentAssumption ==
  /\ AmountOf \in [Resource -> Nat \ {0}]
  /\ maxPaymentSats \in Nat /\ expirySeconds \in Nat \ {0}
  /\ Sats \subseteq Nat /\ MaxTime \in Nat /\ MaxRepeats \in Nat
  /\ NoKey \notin ClientKey /\ NoClaim \notin Call /\ Nobody \notin Call

VARIABLES
  now,      \* the clock
  drawn,    \* the nonces of the invoices offered so far
  pc,       \* pc[c]: what call c waits for
  config,   \* config[c]: its request, as error.config keeps it
  reply,    \* reply[c]: the response it got
  repeats,  \* how many calls were repeated
  hpc,      \* hpc[h]: the await of handler h
  from,     \* from[h]: the call on the other end of its connection
  request,  \* request[h]: what it has received
  verdict,  \* verdict[h]: the facilitator's answer to it
  late,     \* verification requests whose handler has given up: [key, claim]
  served,   \* what next() was called for: [claim, resource]
  debits,   \* the facilitator's debits
  credit    \* what is left of the funding outputs

client == <<pc, config, reply, repeats>>
server == <<hpc, from, request, verdict, drawn, served>>
vars == <<now, client, server, late, debits, credit>>
-----------------------------------------------------------------------------
Time == 0..MaxTime

(* What a client signs for an offer, with the offer.  Signatures are sound.*)
Claims ==
  {[nonce |-> n, resource |-> r, amount |-> AmountOf[r], issuedAt |-> t,
    expiresAt |-> t + expirySeconds, payer |-> Wallet[c].payer,
    outpoint |-> Wallet[c].outpoint, sound |-> TRUE] :
     n \in Nonce, r \in Resource, t \in Time, c \in Call}

Keys == ClientKey \cup Claims

INSTANCE PrepaidLedger WITH Key <- Keys, Claim <- Claims

Offer(n, r, t) ==
  [nonce |-> n, resource |-> r, amount |-> AmountOf[r], issuedAt |-> t,
   expiresAt |-> t + expirySeconds]

Offers == {Offer(n, r, t) : n \in Nonce, r \in Resource, t \in Time}
Config == [resource : Resource, header : Claims \cup {NoClaim},
           key : ClientKey \cup {NoKey}]
NoConfig == [resource |-> Nobody, header |-> NoClaim, key |-> NoKey]

(* An answer is [code, offer], the offer being a set of at most one.       *)
Answers == [code : {"NONE", "OK", "OFFER", "REFUSED", "UNAVAILABLE"},
            offer : {{}} \cup {{o} : o \in Offers}]
Plain(code) == [code |-> code, offer |-> {}]

TypeOK ==
  /\ now \in Time
  /\ drawn \subseteq Nonce
  /\ pc \in [Call -> {"new", "waiting", "replied", "signing", "ended"}]
  /\ config \in [Call -> Config \cup {NoConfig}]
  /\ reply \in [Call -> Answers]
  /\ repeats \in 0..MaxRepeats
  /\ hpc \in [Handler -> {"idle", "received", "verifying", "verified"}]
  /\ from \in [Handler -> Call \cup {Nobody}]
  /\ request \in [Handler -> Config \cup {NoConfig}]
  /\ verdict \in [Handler -> {"none", "VERIFIED", "REFUSED"}]
  /\ late \subseteq [key : Keys, claim : Claims]
  /\ served \subseteq [claim : Claims, resource : Resource]
  /\ debits \subseteq [key : Keys, claim : Claims]
  /\ Maps(credit, {Wallet[c].outpoint : c \in Call}, Nat)

Init ==
  /\ now = 0 /\ drawn = {} /\ repeats = 0
  /\ pc = [c \in Call |-> "new"]
  /\ config = [c \in Call |-> NoConfig]
  /\ reply = [c \in Call |-> Plain("NONE")]
  /\ hpc = [h \in Handler |-> "idle"]
  /\ from = [h \in Handler |-> Nobody]
  /\ request = [h \in Handler |-> NoConfig]
  /\ verdict = [h \in Handler |-> "none"]
  /\ late = {} /\ served = {}
  /\ LedgerInit

Tick ==
  /\ now < MaxTime
  /\ now' = now + 1
  /\ UNCHANGED <<client, server, late, debits, credit>>
-----------------------------------------------------------------------------
(* The call resolves or rejects.                                           *)
End(c) ==
  /\ pc' = [pc EXCEPT ![c] = "ended"]
  /\ reply' = [reply EXCEPT ![c] = Plain("NONE")]

(* Slots are alike, and so are nonces: the choice does not matter.         *)
IdleHandler ==
  CHOOSE h \in Handler : hpc[h] = "idle" \/ \A g \in Handler : hpc[g] # "idle"

(* The request of call c, with configuration q, reaches a handler or is    *)
(* lost.                                                                   *)
Send(c, q) ==
  /\ config' = [config EXCEPT ![c] = q]
  /\ \/ /\ End(c)
        /\ UNCHANGED <<hpc, from, request>>
     \/ LET h == IdleHandler IN
          /\ hpc[h] = "idle"
          /\ hpc' = [hpc EXCEPT ![h] = "received"]
          /\ from' = [from EXCEPT ![h] = c]
          /\ request' = [request EXCEPT ![h] = q]
          /\ pc' = [pc EXCEPT ![c] = "waiting"]
          /\ reply' = [reply EXCEPT ![c] = Plain("NONE")]
  /\ UNCHANGED <<now, verdict, drawn, served, late, debits, credit>>

Request(c, r) ==
  /\ pc[c] = "new"
  /\ Send(c, [resource |-> r, header |-> NoClaim, key |-> NoKey])
  /\ UNCHANGED repeats

(* client.request(error.config): the header is still in it.  The           *)
(* application may ask for another resource with it, or choose the key.    *)
Repeat(c, r, k) ==
  /\ pc[c] = "ended" /\ config[c].header # NoClaim
  /\ repeats < MaxRepeats
  /\ repeats' = repeats + 1
  /\ Send(c, [config[c] EXCEPT !.resource = r, !.key = k])

(* The connection breaks while the server works.                           *)
GiveUp(c) ==
  /\ pc[c] = "waiting"
  /\ End(c)
  /\ from' = [h \in Handler |-> IF from[h] = c THEN Nobody ELSE from[h]]
  /\ UNCHANGED <<now, config, repeats, hpc, request, verdict, drawn, served,
                 late, debits, credit>>

(* validateRequestedResource; a server offers what it was asked for.       *)
Requested(c, o) == o.resource = config[c].resource

(* parseAndValidateOffer and the maximum, for a request without a header.  *)
Payable(c) ==
  /\ config[c].header = NoClaim
  /\ \E o \in reply[c].offer :
       /\ Requested(c, o)
       /\ o.issuedAt <= now /\ now < o.expiresAt
       /\ o.amount <= maxPaymentSats

(* The response interceptor, up to its await; other errors are thrown on.  *)
Intercept(c) ==
  /\ pc[c] = "replied"
  /\ IF Payable(c)
     THEN pc' = [pc EXCEPT ![c] = "signing"] /\ UNCHANGED <<config, reply>>
     ELSE End(c) /\ UNCHANGED config
  /\ UNCHANGED <<now, repeats, server, late, debits, credit>>

Signed(c, o) ==
  [nonce |-> o.nonce, resource |-> o.resource, amount |-> o.amount,
   issuedAt |-> o.issuedAt, expiresAt |-> o.expiresAt,
   payer |-> Wallet[c].payer, outpoint |-> Wallet[c].outpoint, sound |-> TRUE]

(* createPaymentSignature has thrown (as for a payment already broadcast), *)
(* or its result is sent with the request, once.                           *)
Pay(c) ==
  /\ pc[c] = "signing"
  /\ \/ End(c) /\ UNCHANGED <<now, config, server, late, debits, credit>>
     \/ \E o \in reply[c].offer :
          Send(c, [config[c] EXCEPT !.header = Signed(c, o)])
  /\ UNCHANGED repeats
-----------------------------------------------------------------------------
(* The handler has written its response; nothing is left of it.            *)
Closed(h) ==
  /\ hpc' = [hpc EXCEPT ![h] = "idle"]
  /\ from' = [from EXCEPT ![h] = Nobody]
  /\ request' = [request EXCEPT ![h] = NoConfig]
  /\ verdict' = [verdict EXCEPT ![h] = "none"]

Respond(h, answer) ==
  /\ Closed(h)
  /\ pc' = [c \in Call |-> IF c = from[h] THEN "replied" ELSE pc[c]]
  /\ reply' = [c \in Call |-> IF c = from[h] THEN answer ELSE reply[c]]
  /\ UNCHANGED <<config, repeats>>

AnyResource(r, m) ==  \* variant: the invoice is not compared with the request
  m.issuedAt <= now /\ now < m.expiresAt

(* validateEnvelope of claim m for a request of r.                         *)
Valid(r, m) ==
  /\ m.issuedAt <= now /\ now < m.expiresAt
  /\ m.resource = r
  /\ m.amount = AmountOf[r]

(* The middleware, up to its await of the facilitator.                     *)
Handle(h) ==
  LET r == request[h].resource
      m == request[h].header IN
  /\ hpc[h] = "received"
  /\ \/ /\ m = NoClaim
        /\ drawn # Nonce
        /\ LET n == CHOOSE n \in Nonce : n \notin drawn IN
             /\ drawn' = drawn \cup {n}
             /\ Respond(h, [code |-> "OFFER", offer |-> {Offer(n, r, now)}])
     \/ /\ m # NoClaim /\ ~Valid(r, m)
        /\ Respond(h, Plain("REFUSED"))
        /\ UNCHANGED drawn
     \/ /\ m # NoClaim /\ Valid(r, m)
        /\ hpc' = [hpc EXCEPT ![h] = "verifying"]
        /\ UNCHANGED <<client, from, request, verdict, drawn>>
  /\ UNCHANGED <<now, served, late, debits, credit>>

FreshKey(h) == h  \* variant: without a client key, every request gets a new one

(* envelope.idempotencyKey ?? digest of the authorization                  *)
IdempotencyKey(h) ==
  IF request[h].key # NoKey THEN request[h].key ELSE request[h].header

(* Facilitator.verify: the answer of an earlier request, a refusal for any *)
(* reason, or a debit.                                                     *)
Verify(k, m, answer) ==
  \/ /\ answer = "VERIFIED"
     /\ [key |-> k, claim |-> m] \in debits
     /\ UNCHANGED <<debits, credit>>
  \/ /\ answer = "REFUSED"
     /\ [key |-> k, claim |-> m] \notin debits
     /\ UNCHANGED <<debits, credit>>
  \/ /\ answer = "VERIFIED"
     /\ \E sats \in Sats : Debit(k, m, sats)

Facilitate(h) ==
  /\ hpc[h] = "verifying"
  /\ \E answer \in {"VERIFIED", "REFUSED"} :
       /\ Verify(IdempotencyKey(h), request[h].header, answer)
       /\ verdict' = [verdict EXCEPT ![h] = answer]
  /\ hpc' = [hpc EXCEPT ![h] = "verified"]
  /\ UNCHANGED <<now, client, from, request, drawn, served, late>>

(* A verification request arrives after its handler has given up.          *)
FacilitateLate(v) ==
  /\ v \in late
  /\ late' = late \ {v}
  /\ \E answer \in {"VERIFIED", "REFUSED"} : Verify(v.key, v.claim, answer)
  /\ UNCHANGED <<now, client, server>>

Served(h) == {[claim |-> request[h].header, resource |-> request[h].resource]}

(* The facilitator's answer has arrived: next(), or 402 or 403.            *)
Conclude(h) ==
  /\ hpc[h] = "verified"
  /\ \/ /\ verdict[h] = "VERIFIED"
        /\ served' = served \cup Served(h)
        /\ Respond(h, Plain("OK"))
     \/ /\ verdict[h] = "REFUSED"
        /\ Respond(h, Plain("REFUSED"))
        /\ UNCHANGED served
  /\ UNCHANGED <<now, drawn, late, debits, credit>>

NoResponse(h) == Closed(h) /\ UNCHANGED client  \* variant: fetch is not caught

BadGateway(h) == Respond(h, Plain("UNAVAILABLE"))

(* fetch or text() throws: the request is lost or late, or its answer lost.*)
Unavailable(h) ==
  /\ hpc[h] \in {"verifying", "verified"}
  /\ BadGateway(h)
  /\ \/ UNCHANGED late
     \/ /\ hpc[h] = "verifying"
        /\ late' = late \cup {[key |-> IdempotencyKey(h),
                               claim |-> request[h].header]}
  /\ UNCHANGED <<now, drawn, served, debits, credit>>

Next ==
  \/ Tick
  \/ \E c \in Call :
       \/ \E r \in Resource : Request(c, r)
       \/ \E r \in Resource, k \in ClientKey \cup {NoKey} : Repeat(c, r, k)
       \/ GiveUp(c) \/ Intercept(c) \/ Pay(c)
  \/ \E h \in Handler :
       Handle(h) \/ Facilitate(h) \/ Conclude(h) \/ Unavailable(h)
  \/ \E v \in late : FacilitateLate(v)

Spec == Init /\ [][Next]_vars

(* The event loops run what can run, a signer ends, and fetch ends: it     *)
(* gives up on a facilitator that does not answer.                         *)
FairSpec ==
  /\ Spec
  /\ \A c \in Call : WF_vars(Intercept(c) \/ Pay(c))
  /\ \A h \in Handler :
       WF_vars(Handle(h) \/ Facilitate(h) \/ Conclude(h) \/ Unavailable(h))
-----------------------------------------------------------------------------
(* The application is reached only for a payment that the facilitator has  *)
(* debited, that was signed for the very resource asked for and pays its   *)
(* price, whatever handlers, repetitions and lost answers came before.     *)
ServedIsDebited ==
  \A s \in served :
    /\ \E d \in debits : d.claim = s.claim
    /\ s.claim.resource = s.resource /\ s.claim.amount = AmountOf[s.resource]

(* A call is debited once and for the payment in its header only, however  *)
(* often and with whatever keys it is repeated: the interceptor never pays *)
(* a call again, and the ledger never debits a payment again.              *)
OneDebitPerCall ==
  \A d \in debits :
    /\ \E c \in Call : d.claim = config[c].header
    /\ \A e \in debits : e.claim = d.claim => e = d

(* No retry of a debited payment is refused by the facilitator, unless the *)
(* application has chosen a key: after a lost answer the resource can be   *)
(* had without paying again.                                               *)
RetryAccepted ==
  [][\A h \in Handler :
       verdict[h] = "none" /\ verdict'[h] = "REFUSED" =>
         \A d \in debits : d.claim = request[h].header =>
                             request[h].key # NoKey \/ d.key \in ClientKey]_vars

(* Every call ends, also if the facilitator cannot be reached.             *)
CallEnds == \A c \in Call : pc[c] = "waiting" ~> pc[c] = "ended"
=============================================================================
