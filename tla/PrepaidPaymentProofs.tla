------------------------ MODULE PrepaidPaymentProofs ------------------------
(***************************************************************************)
(* Proofs about PrepaidPayment for any number of calls, handlers,          *)
(* resources, keys and repetitions.  The inductive invariant Inv follows a *)
(* payment header from the call that signed it through the handlers and    *)
(* the delayed verifications into the ledger: it stays the header of its   *)
(* call for good, and the key it is debited under is the application's or  *)
(* its own digest.                                                         *)
(***************************************************************************)
EXTENDS PrepaidPayment, TLAPS

(* A call still without a payment has no header.                           *)
CallInv ==
  \A c \in Call :
    /\ pc[c] # "new" => config[c] \in Config
    /\ pc[c] \in {"new", "signing"} => config[c].header = NoClaim

(* Handlers answer calls that were made.                                   *)
ConnectionInv == \A h \in Handler : from[h] \in Call => pc[from[h]] # "new"

PaymentOfCall(m) == m # NoClaim /\ \E c \in Call : config[c].header = m

Debited(m) == \E d \in debits : d.claim = m

(* What a handler has received, checked and been answered still holds.     *)
HandlerOK(h) ==
  LET q == request[h] IN
  /\ hpc[h] # "idle" => /\ q \in Config
                        /\ q.header # NoClaim => PaymentOfCall(q.header)
  /\ hpc[h] \in {"verifying", "verified"} =>
       /\ PaymentOfCall(q.header)
       /\ q.header.resource = q.resource
       /\ q.header.amount = AmountOf[q.resource]
  /\ hpc[h] # "verified" => verdict[h] = "none"
  /\ verdict[h] = "VERIFIED" => Debited(q.header)

HandlerInv == \A h \in Handler : HandlerOK(h)

(* A verification request is for a call's payment, under a key of its own. *)
Genuine(v) == PaymentOfCall(v.claim) /\ (v.key \in ClientKey \/ v.key = v.claim)

LedgerInv ==
  /\ \A v \in late \cup debits : Genuine(v)
  /\ \A d, e \in debits : d.claim = e.claim => d = e

Inv ==
  /\ TypeOK /\ CallInv /\ ConnectionInv /\ HandlerInv /\ LedgerInv
  /\ ServedIsDebited
-----------------------------------------------------------------------------
(* Types.                                                                  *)

LEMMA ConfigType ==
  ASSUME NEW q \in Config
  PROVE  /\ q.resource \in Resource /\ q.header \in Claims \cup {NoClaim}
         /\ q.key \in ClientKey \cup {NoKey}
BY DEF Config

LEMMA RepeatedConfig ==
  ASSUME NEW q \in Config, NEW r \in Resource, NEW k \in ClientKey \cup {NoKey}
  PROVE  /\ [q EXCEPT !.resource = r, !.key = k] \in Config
         /\ [q EXCEPT !.resource = r, !.key = k].header = q.header
BY DEF Config

LEMMA PaidConfig ==
  ASSUME NEW q \in Config, NEW m \in Claims
  PROVE  [q EXCEPT !.header = m] \in Config
BY DEF Config

LEMMA PlainAnswers ==
  ASSUME NEW code \in {"NONE", "OK", "OFFER", "REFUSED", "UNAVAILABLE"}
  PROVE  Plain(code) \in Answers
BY DEF Plain, Answers

LEMMA OfferAnswers ==
  ASSUME NEW n \in Nonce, NEW r \in Resource, NEW t \in Time
  PROVE  [code |-> "OFFER", offer |-> {Offer(n, r, t)}] \in Answers
<1>1. Offer(n, r, t) \in Offers
  BY DEF Offers
<1>2. {Offer(n, r, t)} \in {{}} \cup {{o} : o \in Offers}
  BY <1>1
<1> QED
  BY <1>2 DEF Answers

LEMMA ClaimIntro ==
  ASSUME NEW n \in Nonce, NEW r \in Resource, NEW t \in Time, NEW c \in Call
  PROVE  [nonce |-> n, resource |-> r, amount |-> AmountOf[r], issuedAt |-> t,
          expiresAt |-> t + expirySeconds, payer |-> Wallet[c].payer,
          outpoint |-> Wallet[c].outpoint, sound |-> TRUE] \in Claims
<1> DEFINE Made(n1, r1, t1, c1) ==
      [nonce |-> n1, resource |-> r1, amount |-> AmountOf[r1], issuedAt |-> t1,
       expiresAt |-> t1 + expirySeconds, payer |-> Wallet[c1].payer,
       outpoint |-> Wallet[c1].outpoint, sound |-> TRUE]
<1>1. Claims = {Made(n1, r1, t1, c1) :
                  n1 \in Nonce, r1 \in Resource, t1 \in Time, c1 \in Call}
  BY DEF Claims
<1>2. Made(n, r, t, c) \in Claims
  <2> HIDE DEF Made
  <2> QED
    BY <1>1
<1> QED
  BY <1>2

(* A client signs claims for the offers it has got.                        *)
LEMMA SignedType ==
  ASSUME NEW c \in Call, NEW a \in Answers, NEW o \in a.offer
  PROVE  Signed(c, o) \in Claims
<1>1. a.offer \in {{}} \cup {{p} : p \in Offers}
  BY DEF Answers
<1>2. o \in Offers
  BY <1>1
<1>3. PICK n \in Nonce, r \in Resource, t \in Time : o = Offer(n, r, t)
  BY <1>2 DEF Offers
<1>4. /\ o.nonce = n /\ o.resource = r /\ o.amount = AmountOf[r]
      /\ o.issuedAt = t /\ o.expiresAt = t + expirySeconds
  BY <1>3 DEF Offer
<1>5. Signed(c, o) =
        [nonce |-> n, resource |-> r, amount |-> AmountOf[r], issuedAt |-> t,
         expiresAt |-> t + expirySeconds, payer |-> Wallet[c].payer,
         outpoint |-> Wallet[c].outpoint, sound |-> TRUE]
  BY <1>4 DEF Signed
<1> QED
  BY <1>5, ClaimIntro

LEMMA ClaimType ==
  ASSUME NEW m \in Claims
  PROVE  /\ m.amount \in Nat
         /\ m.outpoint \in {Wallet[c].outpoint : c \in Call}
<1>1. PICK n \in Nonce, r \in Resource, t \in Time, c \in Call :
        m = [nonce |-> n, resource |-> r, amount |-> AmountOf[r], issuedAt |-> t,
             expiresAt |-> t + expirySeconds, payer |-> Wallet[c].payer,
             outpoint |-> Wallet[c].outpoint, sound |-> TRUE]
  BY DEF Claims
<1>2. m.amount = AmountOf[r] /\ m.outpoint = Wallet[c].outpoint
  BY <1>1
<1> QED
  BY <1>2, PrepaidPaymentAssumption
-----------------------------------------------------------------------------
(* What steps leave alone.                                                 *)

(* A call's payment stays the call's payment.                              *)
LEMMA PaymentKept ==
  ASSUME NEW m, PaymentOfCall(m),
         \A c \in Call : config[c].header # NoClaim =>
                           config'[c].header = config[c].header
  PROVE  PaymentOfCall(m)'
BY DEF PaymentOfCall

(* Without debits and late verifications the ledger stays sound.           *)
LEMMA LedgerKept ==
  ASSUME LedgerInv, UNCHANGED debits, late' \subseteq late,
         \A c \in Call : config[c].header # NoClaim =>
                           config'[c].header = config[c].header
  PROVE  LedgerInv'
<1>1. ASSUME NEW v \in late' \cup debits' PROVE Genuine(v)'
  <2>1. Genuine(v)
    BY DEF LedgerInv
  <2> QED
    BY <2>1, PaymentKept DEF Genuine
<1> QED
  BY <1>1 DEF LedgerInv

LEMMA ServedKept ==
  ASSUME ServedIsDebited, UNCHANGED served, debits \subseteq debits'
  PROVE  ServedIsDebited'
BY DEF ServedIsDebited

(* A handler that is left alone.                                           *)
LEMMA HandlerKept ==
  ASSUME NEW h \in Handler, HandlerOK(h), hpc'[h] = hpc[h],
         request'[h] = request[h], verdict'[h] = verdict[h],
         debits \subseteq debits',
         \A c \in Call : config[c].header # NoClaim =>
                           config'[c].header = config[c].header
  PROVE  HandlerOK(h)'
<1>1. \A m : PaymentOfCall(m) => PaymentOfCall(m)'
  BY PaymentKept
<1>2. \A m : Debited(m) => Debited(m)'
  BY DEF Debited
<1> QED
  BY <1>1, <1>2 DEF HandlerOK
-----------------------------------------------------------------------------
(* Sends, responses, verifications.                                        *)

(* A request, or its loss.                                                 *)
LEMMA SendKeeps ==
  ASSUME Inv, NEW c \in Call, NEW q \in Config, Send(c, q),
         config[c].header = NoClaim \/ q.header = config[c].header,
         repeats' \in 0..MaxRepeats
  PROVE  Inv'
<1>1. \A d \in Call : config[d].header # NoClaim =>
                        config'[d].header = config[d].header
  BY DEF Send, Inv, TypeOK
<1>2. /\ config' = [config EXCEPT ![c] = q]
      /\ UNCHANGED <<now, verdict, drawn, served, late, debits, credit>>
  BY DEF Send
<1>3. PICK there \in {"ended", "waiting"} :
        /\ pc' = [pc EXCEPT ![c] = there]
        /\ reply' = [reply EXCEPT ![c] = Plain("NONE")]
  BY DEF Send, End
<1>4. \/ UNCHANGED <<hpc, from, request>>
      \/ \E h :
           /\ hpc[h] = "idle"
           /\ hpc' = [hpc EXCEPT ![h] = "received"]
           /\ from' = [from EXCEPT ![h] = c]
           /\ request' = [request EXCEPT ![h] = q]
  BY DEF Send
<1>5. TypeOK'
  <2>1. /\ pc' \in [Call -> {"new", "waiting", "replied", "signing", "ended"}]
        /\ config' \in [Call -> Config \cup {NoConfig}]
        /\ reply' \in [Call -> Answers]
    BY <1>2, <1>3, PlainAnswers DEF Inv, TypeOK
  <2>2. /\ hpc' \in [Handler -> {"idle", "received", "verifying", "verified"}]
        /\ from' \in [Handler -> Call \cup {Nobody}]
        /\ request' \in [Handler -> Config \cup {NoConfig}]
    BY <1>4 DEF Inv, TypeOK
  <2> QED
    BY <2>1, <2>2, <1>2 DEF Inv, TypeOK
<1>6. CallInv'
  BY <1>2, <1>3 DEF Inv, TypeOK, CallInv
<1>7. ConnectionInv'
  BY <1>3, <1>4 DEF Inv, TypeOK, ConnectionInv
<1>8. q.header # NoClaim => PaymentOfCall(q.header)'
  BY <1>2 DEF Inv, TypeOK, PaymentOfCall
<1>9. HandlerInv'
  <2> SUFFICES ASSUME NEW h \in Handler PROVE HandlerOK(h)'
    BY DEF HandlerInv
  <2>1. HandlerOK(h)
    BY DEF Inv, HandlerInv
  <2>2. CASE hpc'[h] = hpc[h] /\ request'[h] = request[h]
    BY <2>1, <2>2, <1>1, <1>2, HandlerKept
  <2>3. CASE ~(hpc'[h] = hpc[h] /\ request'[h] = request[h])
    <3>1. hpc[h] = "idle" /\ hpc'[h] = "received" /\ request'[h] = q
      BY <2>3, <1>4 DEF Inv, TypeOK
    <3>2. verdict'[h] = "none"
      BY <3>1, <2>1, <1>2 DEF HandlerOK
    <3> QED
      BY <3>1, <3>2, <1>8 DEF HandlerOK
  <2> QED
    BY <2>2, <2>3
<1>10. LedgerInv' /\ ServedIsDebited'
  BY <1>1, <1>2, LedgerKept, ServedKept DEF Inv
<1> QED
  BY <1>5, <1>6, <1>9, <1>10, <1>7 DEF Inv

(* A response ends its handler; the call it answers gets the answer.       *)
LEMMA RespondKeeps ==
  ASSUME Inv, NEW h \in Handler, NEW a \in Answers, Respond(h, a),
         now' = now, drawn' \subseteq Nonce, UNCHANGED debits, UNCHANGED credit,
         late' \subseteq [key : Keys, claim : Claims], \A v \in late' : Genuine(v),
         served' \subseteq [claim : Claims, resource : Resource], ServedIsDebited'
  PROVE  Inv'
<1>1. /\ hpc' = [hpc EXCEPT ![h] = "idle"]
      /\ from' = [from EXCEPT ![h] = Nobody]
      /\ request' = [request EXCEPT ![h] = NoConfig]
      /\ verdict' = [verdict EXCEPT ![h] = "none"]
      /\ pc' = [c \in Call |-> IF c = from[h] THEN "replied" ELSE pc[c]]
      /\ reply' = [c \in Call |-> IF c = from[h] THEN a ELSE reply[c]]
      /\ UNCHANGED <<config, repeats>>
  BY DEF Respond, Closed
<1>2. TypeOK'
  BY <1>1 DEF Inv, TypeOK
<1>3. CallInv'
  BY <1>1 DEF Inv, TypeOK, CallInv, ConnectionInv
<1>4. ConnectionInv'
  BY <1>1, PrepaidPaymentAssumption DEF Inv, TypeOK, ConnectionInv
<1>5. HandlerInv'
  <2> SUFFICES ASSUME NEW g \in Handler PROVE HandlerOK(g)'
    BY DEF HandlerInv
  <2>1. CASE g = h
    BY <2>1, <1>1 DEF HandlerOK, Inv, TypeOK
  <2>2. CASE g # h
    BY <2>2, <1>1, HandlerKept DEF Inv, TypeOK, HandlerInv
  <2> QED
    BY <2>1, <2>2
<1>6. LedgerInv'
  BY <1>1 DEF Inv, LedgerInv, Genuine, PaymentOfCall
<1> QED
  BY <1>2, <1>3, <1>4, <1>5, <1>6 DEF Inv

(* The application's key, or else the digest of the header.                *)
LEMMA KeyIsOwn ==
  ASSUME Inv, NEW h \in Handler, hpc[h] \in {"verifying", "verified"}
  PROVE  /\ request[h] \in Config
         /\ request[h].header \in Claims
         /\ IdempotencyKey(h) \in Keys
         /\ Genuine([key |-> IdempotencyKey(h), claim |-> request[h].header])
<1>1. HandlerOK(h)
  BY DEF Inv, HandlerInv
<1>2. request[h] \in Config /\ PaymentOfCall(request[h].header)
  BY <1>1 DEF HandlerOK
<1>3. request[h].header \in Claims
  BY <1>2, ConfigType DEF PaymentOfCall
<1>4. IdempotencyKey(h) \in ClientKey \/ IdempotencyKey(h) = request[h].header
  BY <1>2, ConfigType DEF IdempotencyKey
<1> QED
  BY <1>2, <1>3, <1>4 DEF Genuine, Keys

(* The facilitator verifies: at most one debit, for that request.          *)
LEMMA VerifyKeeps ==
  ASSUME Inv, NEW k \in Keys, NEW m \in Claims, NEW answer, Verify(k, m, answer),
         Genuine([key |-> k, claim |-> m]), UNCHANGED config, late' \subseteq late
  PROVE  /\ debits' \subseteq [key : Keys, claim : Claims]
         /\ Maps(credit, {Wallet[c].outpoint : c \in Call}, Nat)'
         /\ debits \subseteq debits'
         /\ answer = "VERIFIED" => Debited(m)'
         /\ LedgerInv'
<1>1. CASE UNCHANGED <<debits, credit>>
  <2>1. LedgerInv'
    BY <1>1, LedgerKept DEF Inv
  <2>2. answer = "VERIFIED" => Debited(m)'
    <3>1. CASE [key |-> k, claim |-> m] \in debits
      BY <3>1, <1>1 DEF Debited
    <3>2. CASE \E sats \in Sats : Debit(k, m, sats)
      <4>1. [key |-> k, claim |-> m] \in debits'
        BY <3>2 DEF Debit
      <4> QED
        BY <4>1 DEF Debited
    <3> QED
      BY <3>1, <3>2 DEF Verify
  <2> QED
    BY <1>1, <2>1, <2>2 DEF Inv, TypeOK, Maps
<1>2. ASSUME NEW sats \in Sats, Debit(k, m, sats)
      PROVE  /\ debits' \subseteq [key : Keys, claim : Claims]
             /\ Maps(credit, {Wallet[c].outpoint : c \in Call}, Nat)'
             /\ debits \subseteq debits' /\ Debited(m)' /\ LedgerInv'
  <2>1. /\ debits' = debits \cup {[key |-> k, claim |-> m]}
        /\ credit' = Set(credit, m.outpoint, Left(m, sats) - m.amount)
        /\ Left(m, sats) >= m.amount
        /\ \A d \in debits : d.claim.nonce # m.nonce
    BY <1>2 DEF Debit, NonceUnused, Enough
  <2>2. Maps(credit, {Wallet[c].outpoint : c \in Call}, Nat)'
    <3>1. sats \in Nat /\ m.amount \in Nat
          /\ m.outpoint \in {Wallet[c].outpoint : c \in Call}
      BY ClaimType, PrepaidPaymentAssumption
    <3>2. Left(m, sats) \in Nat
      BY <3>1 DEF Left, Inv, TypeOK, Maps
    <3>3. Left(m, sats) - m.amount \in Nat
      BY <3>1, <3>2, <2>1
    <3> HIDE DEF Left
    <3> QED
      BY <3>1, <3>3, <2>1 DEF Set, Inv, TypeOK, Maps
  <2>3. LedgerInv'
    <3>1. \A v \in late' \cup debits' : Genuine(v)'
      BY <2>1 DEF Inv, LedgerInv, Genuine, PaymentOfCall
    <3>2. \A d, e \in debits' : d.claim = e.claim => d = e
      BY <2>1 DEF Inv, LedgerInv
    <3> QED
      BY <3>1, <3>2 DEF LedgerInv
  <2>4. Debited(m)'
    BY <2>1 DEF Debited
  <2> QED
    BY <2>1, <2>2, <2>3, <2>4 DEF Inv, TypeOK
<1> QED
  BY <1>1, <1>2 DEF Verify
-----------------------------------------------------------------------------
(* The steps.                                                              *)

LEMMA CallSteps ==
  ASSUME Inv, NEW c \in Call,
         \/ \E r \in Resource : Request(c, r)
         \/ \E r \in Resource, k \in ClientKey \cup {NoKey} : Repeat(c, r, k)
         \/ Intercept(c) \/ Pay(c)
  PROVE  Inv'
<1>1. repeats \in 0..MaxRepeats /\ MaxRepeats \in Nat
  BY PrepaidPaymentAssumption DEF Inv, TypeOK
<1>2. ASSUME NEW r \in Resource, Request(c, r) PROVE Inv'
  <2> DEFINE q == [resource |-> r, header |-> NoClaim, key |-> NoKey]
  <2>1. q \in Config
    BY DEF Config
  <2>2. Send(c, q) /\ config[c].header = NoClaim /\ repeats' = repeats
    BY <1>2 DEF Request, Inv, CallInv
  <2> HIDE DEF q
  <2> QED
    BY <2>1, <2>2, <1>1, SendKeeps
<1>3. ASSUME NEW r \in Resource, NEW k \in ClientKey \cup {NoKey}, Repeat(c, r, k)
      PROVE  Inv'
  <2> DEFINE q == [config[c] EXCEPT !.resource = r, !.key = k]
  <2>0. pc[c] = "ended" /\ config[c].header # NoClaim
    BY <1>3 DEF Repeat
  <2>1. config[c] \in Config
    BY <2>0 DEF Inv, CallInv
  <2>2. q \in Config /\ q.header = config[c].header
    BY <2>1, RepeatedConfig
  <2>3. Send(c, q) /\ repeats < MaxRepeats /\ repeats' = repeats + 1
    BY <1>3, Zenon DEF Repeat
  <2>4. repeats' \in 0..MaxRepeats
    BY <2>3, <1>1
  <2> HIDE DEF q
  <2> QED
    BY <2>2, <2>3, <2>4, SendKeeps
<1>4. ASSUME pc[c] = "replied", pc' = [pc EXCEPT ![c] = "ended"],
             reply' = [reply EXCEPT ![c] = Plain("NONE")],
             UNCHANGED <<config, now, repeats, server, late, debits, credit>>
      PROVE  Inv'
  <2>1. TypeOK'
    BY <1>4, PlainAnswers DEF Inv, TypeOK, server
  <2>2. CallInv' /\ ConnectionInv'
    BY <1>4 DEF Inv, TypeOK, CallInv, ConnectionInv, server
  <2>3. HandlerInv' /\ LedgerInv' /\ ServedIsDebited'
    BY <1>4, HandlerKept, LedgerKept, ServedKept DEF Inv, HandlerInv, server
  <2> QED
    BY <2>1, <2>2, <2>3 DEF Inv
<1>5. ASSUME pc[c] = "replied", Payable(c), pc' = [pc EXCEPT ![c] = "signing"],
             UNCHANGED <<config, reply, now, repeats, server, late, debits, credit>>
      PROVE  Inv'
  <2>1. TypeOK'
    BY <1>5 DEF Inv, TypeOK, server
  <2>2. CallInv' /\ ConnectionInv'
    BY <1>5 DEF Inv, TypeOK, CallInv, ConnectionInv, server, Payable
  <2>3. HandlerInv' /\ LedgerInv' /\ ServedIsDebited'
    BY <1>5, HandlerKept, LedgerKept, ServedKept DEF Inv, HandlerInv, server
  <2> QED
    BY <2>1, <2>2, <2>3 DEF Inv
<1>6. ASSUME Intercept(c) PROVE Inv'
  BY <1>4, <1>5, <1>6 DEF Intercept, End
<1>7. ASSUME Pay(c) PROVE Inv'
  <2>1. pc[c] = "signing" /\ config[c] \in Config /\ config[c].header = NoClaim
    BY <1>7 DEF Pay, Inv, CallInv
  <2>2. ASSUME End(c), UNCHANGED <<now, config, repeats, server, late, debits, credit>>
        PROVE  Inv'
    <3>1. TypeOK'
      BY <2>2, PlainAnswers DEF End, Inv, TypeOK, server
    <3>2. CallInv' /\ ConnectionInv'
      BY <2>1, <2>2 DEF End, Inv, TypeOK, CallInv, ConnectionInv, server
    <3>3. HandlerInv' /\ LedgerInv' /\ ServedIsDebited'
      BY <2>2, HandlerKept, LedgerKept, ServedKept DEF Inv, HandlerInv, server
    <3> QED
      BY <3>1, <3>2, <3>3 DEF Inv
  <2>3. ASSUME NEW o \in reply[c].offer, repeats' = repeats,
               Send(c, [config[c] EXCEPT !.header = Signed(c, o)])
        PROVE  Inv'
    <3> DEFINE q == [config[c] EXCEPT !.header = Signed(c, o)]
    <3>0. reply[c] \in Answers
      BY DEF Inv, TypeOK
    <3>1. Signed(c, o) \in Claims
      BY <3>0, SignedType
    <3>2. q \in Config
      BY <3>1, <2>1, PaidConfig
    <3>3. Send(c, q)
      BY <2>3
    <3> HIDE DEF q
    <3> QED
      BY <3>2, <3>3, <2>1, <2>3, <1>1, SendKeeps
  <2> QED
    BY <1>7, <2>2, <2>3 DEF Pay
<1> QED
  BY <1>2, <1>3, <1>6, <1>7

LEMMA GiveUpStep ==
  ASSUME Inv, NEW c \in Call, GiveUp(c)
  PROVE  Inv'
<1>1. /\ pc' = [pc EXCEPT ![c] = "ended"]
      /\ reply' = [reply EXCEPT ![c] = Plain("NONE")]
      /\ from' = [h \in Handler |-> IF from[h] = c THEN Nobody ELSE from[h]]
      /\ pc[c] = "waiting"
      /\ UNCHANGED <<now, config, repeats, hpc, request, verdict, drawn, served,
                     late, debits, credit>>
  BY DEF GiveUp, End
<1>2. TypeOK'
  BY <1>1, PlainAnswers DEF Inv, TypeOK
<1>3. CallInv' /\ ConnectionInv'
  BY <1>1, PrepaidPaymentAssumption DEF Inv, TypeOK, CallInv, ConnectionInv
<1>4. HandlerInv' /\ LedgerInv' /\ ServedIsDebited'
  BY <1>1, HandlerKept, LedgerKept, ServedKept DEF Inv, HandlerInv
<1> QED
  BY <1>2, <1>3, <1>4 DEF Inv

(* An invoice is offered, the header refused, or the facilitator asked.    *)
LEMMA HandleStep ==
  ASSUME Inv, NEW h \in Handler, Handle(h)
  PROVE  Inv'
<1> DEFINE q == request[h]
<1>1. /\ HandlerOK(h)
      /\ hpc[h] = "received" /\ UNCHANGED <<now, served, late, debits, credit>>
  BY DEF Handle, Inv, HandlerInv
<1>2. q \in Config /\ q.resource \in Resource
  BY <1>1, ConfigType DEF HandlerOK
<1>3. ASSUME NEW a \in Answers, Respond(h, a), drawn' \subseteq Nonce
      PROVE  Inv'
  <2>1. ServedIsDebited'
    BY <1>1, ServedKept DEF Inv
  <2> QED
    BY <1>1, <1>3, <2>1, RespondKeeps DEF Inv, TypeOK, LedgerInv
<1>4. ASSUME drawn # Nonce,
             LET n == CHOOSE n \in Nonce : n \notin drawn IN
               /\ drawn' = drawn \cup {n}
               /\ Respond(h, [code |-> "OFFER", offer |-> {Offer(n, q.resource, now)}])
      PROVE  Inv'
  <2> DEFINE n == CHOOSE n \in Nonce : n \notin drawn
  <2>1. n \in Nonce
    BY <1>4 DEF Inv, TypeOK
  <2>2. /\ drawn' = drawn \cup {n}
        /\ Respond(h, [code |-> "OFFER", offer |-> {Offer(n, q.resource, now)}])
    BY <1>4
  <2> HIDE DEF n, q
  <2>3. [code |-> "OFFER", offer |-> {Offer(n, q.resource, now)}] \in Answers
    BY <2>1, <1>2, OfferAnswers DEF Inv, TypeOK
  <2>4. drawn' \subseteq Nonce
    BY <2>1, <2>2 DEF Inv, TypeOK
  <2> QED
    BY <2>2, <2>3, <2>4, <1>3
<1>5. ASSUME Respond(h, Plain("REFUSED")), UNCHANGED drawn PROVE Inv'
  BY <1>5, <1>3, PlainAnswers DEF Inv, TypeOK
<1>6. ASSUME q.header # NoClaim, Valid(q.resource, q.header),
             hpc' = [hpc EXCEPT ![h] = "verifying"],
             UNCHANGED <<client, from, request, verdict, drawn>>
      PROVE  Inv'
  <2>1. TypeOK'
    BY <1>1, <1>6 DEF Inv, TypeOK, client
  <2>2. CallInv' /\ ConnectionInv'
    BY <1>1, <1>6 DEF Inv, TypeOK, CallInv, ConnectionInv, client
  <2>3. HandlerInv'
    <3> SUFFICES ASSUME NEW g \in Handler PROVE HandlerOK(g)'
      BY DEF HandlerInv
    <3>1. CASE g = h
      BY <3>1, <1>1, <1>6
         DEF HandlerOK, Valid, Inv, TypeOK, client, PaymentOfCall, Debited
    <3>2. CASE g # h
      BY <3>2, <1>1, <1>6, HandlerKept DEF Inv, TypeOK, HandlerInv, client
    <3> QED
      BY <3>1, <3>2
  <2>4. LedgerInv' /\ ServedIsDebited'
    BY <1>1, <1>6, LedgerKept, ServedKept DEF Inv, client
  <2> QED
    BY <2>1, <2>2, <2>3, <2>4 DEF Inv
<1> QED
  BY <1>4, <1>5, <1>6 DEF Handle

(* The facilitator answers a handler.                                      *)
LEMMA FacilitateStep ==
  ASSUME Inv, NEW h \in Handler, Facilitate(h)
  PROVE  Inv'
<1>1. /\ hpc[h] = "verifying" /\ hpc' = [hpc EXCEPT ![h] = "verified"]
      /\ UNCHANGED <<now, client, from, request, drawn, served, late>>
  BY DEF Facilitate
<1>2. PICK k \in Keys, m \in Claims : k = IdempotencyKey(h) /\ m = request[h].header
  BY <1>1, KeyIsOwn
<1>3. PICK answer \in {"VERIFIED", "REFUSED"} :
        Verify(k, m, answer) /\ verdict' = [verdict EXCEPT ![h] = answer]
  BY <1>2 DEF Facilitate
<1>4. Genuine([key |-> k, claim |-> m])
  BY <1>2, <1>1, KeyIsOwn
<1>5. UNCHANGED config /\ late' \subseteq late
  BY <1>1 DEF client
<1>6. /\ debits' \subseteq [key : Keys, claim : Claims]
      /\ Maps(credit, {Wallet[c].outpoint : c \in Call}, Nat)'
      /\ debits \subseteq debits'
      /\ answer = "VERIFIED" => Debited(m)'
      /\ LedgerInv'
  BY <1>3, <1>4, <1>5, VerifyKeeps
<1>7. TypeOK'
  BY <1>1, <1>3, <1>6 DEF Inv, TypeOK, client
<1>8. CallInv' /\ ConnectionInv'
  BY <1>1 DEF Inv, TypeOK, CallInv, ConnectionInv, client
<1>9. HandlerInv'
  <2> SUFFICES ASSUME NEW g \in Handler PROVE HandlerOK(g)'
    BY DEF HandlerInv
  <2>1. CASE g = h
    <3>1. HandlerOK(h)
      BY DEF Inv, HandlerInv
    <3>2. verdict'[h] = answer /\ hpc'[h] = "verified" /\ request'[h] = request[h]
      BY <1>1, <1>3 DEF Inv, TypeOK
    <3>3. PaymentOfCall(m)'
      BY <3>1, <1>2, <1>1, <1>5 DEF HandlerOK, PaymentOfCall
    <3>4. /\ request[h] \in Config /\ m.resource = request[h].resource
          /\ m.amount = AmountOf[request[h].resource]
      BY <3>1, <1>2, <1>1 DEF HandlerOK
    <3>5. verdict'[h] = "VERIFIED" => Debited(m)'
      BY <3>2, <1>6
    <3> QED
      BY <2>1, <1>2, <3>2, <3>3, <3>4, <3>5 DEF HandlerOK
  <2>2. CASE g # h
    BY <2>2, <1>1, <1>3, <1>6, HandlerKept DEF Inv, TypeOK, HandlerInv, client
  <2> QED
    BY <2>1, <2>2
<1>10. ServedIsDebited'
  BY <1>1, <1>6, ServedKept DEF Inv
<1> QED
  BY <1>6, <1>7, <1>8, <1>9, <1>10 DEF Inv

(* A late verification changes the ledger alone.                           *)
LEMMA FacilitateLateStep ==
  ASSUME Inv, NEW v \in late, FacilitateLate(v)
  PROVE  Inv'
<1>1. late' = late \ {v} /\ UNCHANGED <<now, client, server>>
  BY DEF FacilitateLate
<1>2. PICK answer \in {"VERIFIED", "REFUSED"} : Verify(v.key, v.claim, answer)
  BY DEF FacilitateLate
<1>3. v.key \in Keys /\ v.claim \in Claims /\ Genuine([key |-> v.key, claim |-> v.claim])
  BY DEF Inv, TypeOK, LedgerInv, Genuine
<1>4. UNCHANGED config /\ late' \subseteq late
  BY <1>1 DEF client
<1>5. /\ debits' \subseteq [key : Keys, claim : Claims]
      /\ Maps(credit, {Wallet[c].outpoint : c \in Call}, Nat)'
      /\ debits \subseteq debits'
      /\ LedgerInv'
  BY <1>2, <1>3, <1>4, VerifyKeeps
<1>6. TypeOK'
  BY <1>1, <1>5 DEF Inv, TypeOK, client, server
<1>7. CallInv' /\ ConnectionInv'
  BY <1>1 DEF Inv, TypeOK, CallInv, ConnectionInv, client, server
<1>8. HandlerInv' /\ ServedIsDebited'
  BY <1>1, <1>5, HandlerKept, ServedKept DEF Inv, HandlerInv, client, server
<1> QED
  BY <1>5, <1>6, <1>7, <1>8 DEF Inv

(* The application is reached, or the call refused.                        *)
LEMMA ConcludeStep ==
  ASSUME Inv, NEW h \in Handler, Conclude(h)
  PROVE  Inv'
<1>1. hpc[h] = "verified" /\ UNCHANGED <<now, drawn, late, debits, credit>>
  BY DEF Conclude
<1>2. HandlerOK(h)
  BY DEF Inv, HandlerInv
<1>3. PICK a \in {Plain("OK"), Plain("REFUSED")} : Respond(h, a)
  BY DEF Conclude
<1>4. a \in Answers
  BY PlainAnswers
<1>5. /\ served' \subseteq [claim : Claims, resource : Resource]
      /\ ServedIsDebited'
  <2>1. CASE served' = served
    BY <2>1, <1>1, ServedKept DEF Inv, TypeOK
  <2>2. CASE verdict[h] = "VERIFIED" /\ served' = served \cup Served(h)
    <3>1. /\ request[h].header \in Claims /\ request[h].resource \in Resource
          /\ request[h].header.resource = request[h].resource
          /\ request[h].header.amount = AmountOf[request[h].resource]
          /\ Debited(request[h].header)
      BY <2>2, <1>1, <1>2, ConfigType DEF HandlerOK, PaymentOfCall
    <3>2. served' = served \cup {[claim |-> request[h].header,
                                  resource |-> request[h].resource]}
      BY <2>2 DEF Served
    <3>3. served' \subseteq [claim : Claims, resource : Resource]
      BY <3>1, <3>2 DEF Inv, TypeOK
    <3>4. ServedIsDebited'
      BY <3>1, <3>2, <1>1 DEF Inv, ServedIsDebited, Debited
    <3> QED
      BY <3>3, <3>4
  <2> QED
    BY <2>1, <2>2 DEF Conclude
<1> QED
  BY <1>1, <1>3, <1>4, <1>5, RespondKeeps DEF Inv, TypeOK, LedgerInv

(* 502: the verification is lost, or still to arrive.                      *)
LEMMA UnavailableStep ==
  ASSUME Inv, NEW h \in Handler, Unavailable(h)
  PROVE  Inv'
<1> DEFINE v == [key |-> IdempotencyKey(h), claim |-> request[h].header]
<1>1. /\ hpc[h] \in {"verifying", "verified"}
      /\ Respond(h, Plain("UNAVAILABLE"))
      /\ late' = late \/ late' = late \cup {v}
      /\ UNCHANGED <<now, drawn, served, debits, credit>>
  BY DEF Unavailable, BadGateway
<1>2. v \in [key : Keys, claim : Claims] /\ Genuine(v)
  BY <1>1, KeyIsOwn
<1> HIDE DEF v
<1>3. /\ late' \subseteq [key : Keys, claim : Claims]
      /\ \A w \in late' : Genuine(w)
  BY <1>1, <1>2 DEF Inv, TypeOK, LedgerInv
<1>4. ServedIsDebited'
  BY <1>1, ServedKept DEF Inv
<1> QED
  BY <1>1, <1>3, <1>4, PlainAnswers, RespondKeeps DEF Inv, TypeOK
-----------------------------------------------------------------------------
(* The invariant.                                                          *)

LEMMA InitInv ==
  ASSUME Init
  PROVE  Inv
<1>1. TypeOK
  BY PlainAnswers, PrepaidPaymentAssumption
     DEF Init, LedgerInit, TypeOK, Time, Maps, Empty
<1>2. CallInv /\ ConnectionInv /\ HandlerInv
  BY PrepaidPaymentAssumption
     DEF Init, CallInv, ConnectionInv, HandlerInv, HandlerOK, NoConfig
<1>3. LedgerInv /\ ServedIsDebited
  BY DEF Init, LedgerInit, LedgerInv, ServedIsDebited
<1> QED
  BY <1>1, <1>2, <1>3 DEF Inv

LEMMA StutterInv ==
  ASSUME Inv, UNCHANGED <<client, server, late, debits, credit>>, now' \in Time
  PROVE  Inv'
<1>1. TypeOK'
  BY DEF Inv, TypeOK, client, server
<1>2. CallInv' /\ ConnectionInv'
  BY DEF Inv, CallInv, ConnectionInv, client, server
<1>3. HandlerInv' /\ LedgerInv' /\ ServedIsDebited'
  BY HandlerKept, LedgerKept, ServedKept DEF Inv, HandlerInv, client, server
<1> QED
  BY <1>1, <1>2, <1>3 DEF Inv

LEMMA NextInv ==
  ASSUME Inv, [Next]_vars
  PROVE  Inv'
<1>1. CASE Tick
  BY <1>1, StutterInv, PrepaidPaymentAssumption DEF Tick, Inv, TypeOK, Time
<1>2. ASSUME NEW c \in Call,
             \/ \E r \in Resource : Request(c, r)
             \/ \E r \in Resource, k \in ClientKey \cup {NoKey} : Repeat(c, r, k)
             \/ GiveUp(c) \/ Intercept(c) \/ Pay(c)
      PROVE  Inv'
  BY <1>2, CallSteps, GiveUpStep
<1>3. ASSUME NEW h \in Handler,
             Handle(h) \/ Facilitate(h) \/ Conclude(h) \/ Unavailable(h)
      PROVE  Inv'
  BY <1>3, HandleStep, FacilitateStep, ConcludeStep, UnavailableStep
<1>4. ASSUME NEW v \in late, FacilitateLate(v) PROVE Inv'
  BY <1>4, FacilitateLateStep
<1>5. CASE UNCHANGED vars
  BY <1>5, StutterInv DEF vars, Inv, TypeOK
<1> QED
  BY <1>1, <1>2, <1>3, <1>4, <1>5 DEF Next

LEMMA InvHolds == Spec => []Inv
<1>1. Init => Inv
  BY InitInv
<1>2. Inv /\ [Next]_vars => Inv'
  BY NextInv
<1> QED
  BY <1>1, <1>2, PTL DEF Spec
-----------------------------------------------------------------------------
(* The state of calls, handlers, messages and ledger keeps its types: what *)
(* is signed, forwarded and debited is always a payment for some offer.    *)
THEOREM TypeCorrect == Spec => []TypeOK
<1>1. Inv => TypeOK
  BY DEF Inv
<1> QED
  BY <1>1, InvHolds, PTL

(* The application is reached only for a debited payment of the resource   *)
(* asked for and of its price, whichever handler, repetition or late       *)
(* verification came first.                                                *)
THEOREM ServedStaysDebited == Spec => []ServedIsDebited
<1>1. Inv => ServedIsDebited
  BY DEF Inv
<1> QED
  BY <1>1, InvHolds, PTL

(* A call is debited once, for the payment in its header, however often    *)
(* and with whatever keys it is repeated.                                  *)
THEOREM CallsDebitedOnce == Spec => []OneDebitPerCall
<1>1. Inv => OneDebitPerCall
  <2> SUFFICES ASSUME Inv, NEW d \in debits
               PROVE  /\ \E c \in Call : d.claim = config[c].header
                      /\ \A e \in debits : e.claim = d.claim => e = d
    BY DEF OneDebitPerCall
  <2>1. Genuine(d)
    BY DEF Inv, LedgerInv
  <2>2. \A e \in debits : e.claim = d.claim => e = d
    BY DEF Inv, LedgerInv
  <2> QED
    BY <2>1, <2>2 DEF Genuine, PaymentOfCall
<1> QED
  BY <1>1, InvHolds, PTL

RefusedNew ==
  \A h \in Handler :
    verdict[h] = "none" /\ verdict'[h] = "REFUSED" =>
      \A d \in debits : d.claim = request[h].header =>
                          request[h].key # NoKey \/ d.key \in ClientKey

(* Only the facilitator makes a verdict a refusal.                         *)
LEMMA RefusalIsTheFacilitators ==
  ASSUME Inv, Next, NEW h \in Handler, verdict[h] = "none", verdict'[h] = "REFUSED"
  PROVE  Facilitate(h)
<1>1. verdict' # verdict
  OBVIOUS
<1>2. PICK g \in Handler : Handle(g) \/ Facilitate(g) \/ Conclude(g) \/ Unavailable(g)
  BY <1>1 DEF Next, Tick, Request, Repeat, GiveUp, Intercept, Pay, Send,
              FacilitateLate, server
<1>3. ASSUME Closed(g) PROVE FALSE
  BY <1>3 DEF Closed, Inv, TypeOK
<1>4. Facilitate(g)
  BY <1>1, <1>2, <1>3
     DEF Handle, Conclude, Unavailable, Respond, BadGateway
<1>5. g = h
  BY <1>4 DEF Facilitate, Inv, TypeOK
<1> QED
  BY <1>4, <1>5

(* No retry of a debited payment is refused by the facilitator, unless the *)
(* application has chosen a key.                                           *)
THEOREM RetriesAccepted == Spec => RetryAccepted
<1>1. ASSUME Inv, Next PROVE RefusedNew
  <2> SUFFICES ASSUME NEW h \in Handler,
                      verdict[h] = "none", verdict'[h] = "REFUSED",
                      NEW d \in debits, d.claim = request[h].header,
                      request[h].key = NoKey
               PROVE  d.key \in ClientKey
    BY DEF RefusedNew
  <2>1. Facilitate(h)
    BY <1>1, RefusalIsTheFacilitators
  <2>2. IdempotencyKey(h) = request[h].header
    BY DEF IdempotencyKey
  <2>3. [key |-> request[h].header, claim |-> request[h].header] \notin debits
    BY <2>1, <2>2, <1>1 DEF Facilitate, Verify, Inv, TypeOK
  <2>4. d = [key |-> d.key, claim |-> d.claim]
    BY <1>1 DEF Inv, TypeOK
  <2>5. d.key \in ClientKey \/ d.key = d.claim
    BY <1>1 DEF Inv, LedgerInv, Genuine
  <2> QED
    BY <2>3, <2>4, <2>5
<1>2. ASSUME UNCHANGED vars PROVE [RefusedNew]_vars
  BY <1>2
<1>3. Inv /\ [Next]_vars => [RefusedNew]_vars
  BY <1>1, <1>2
<1> QED
  BY <1>3, InvHolds, PTL DEF Spec, RetryAccepted, RefusedNew
=============================================================================
