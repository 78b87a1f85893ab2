------------------------- MODULE FacilitatorProofs -------------------------
(***************************************************************************)
(* Proofs about Facilitator for any number of requests, keys, nonces and   *)
(* outputs.  The inductive invariant Inv says, beside types, that the      *)
(* request at work is the head of the queue and has been checked against   *)
(* the ledger as it still is, and that a debited nonce is either in the    *)
(* nonce store with its expiry or has expired for everybody.               *)
(***************************************************************************)
EXTENDS Facilitator, FiniteSetTheorems, TLAPS

Running == {"signature", "funding"}
Queued == {"chained", "signature", "funding"}

QueueInv ==
  /\ \A c \in Call : pc[c] \in Queued <=> \E i \in DOMAIN tail : tail[i] = c
  /\ \A i, j \in DOMAIN tail : tail[i] = tail[j] => i = j
  /\ \A c \in Call : pc[c] \in Running => Head(tail) = c

(* What a request has passed so far still holds while it awaits.           *)
RequestInv ==
  \A c \in Call :
    /\ pc[c] # "idle" => req[c] \in Request
    /\ pc[c] # "done" => answer[c].code = "NONE"
    /\ pc[c] \in Running => /\ clock[c] <= now
                            /\ clock[c] < req[c].claim.expiresAt
                            /\ req[c].key \notin DOMAIN idempotency
    /\ pc[c] = "funding" => /\ req[c].claim.sound
                            /\ req[c].claim.nonce \notin DOMAIN nonces

Forgotten(m) ==
  /\ m.expiresAt <= now
  /\ \A c \in Call : pc[c] \in Running => m.expiresAt <= clock[c]

Remembered(m) == m.nonce \in DOMAIN nonces /\ nonces[m.nonce] = m.expiresAt

NonceInv == \A i \in DOMAIN entries :
              Remembered(entries[i].claim) \/ Forgotten(entries[i].claim)

SpentInv == \A n \in DOMAIN nonces : \E i \in DOMAIN entries :
              entries[i].claim.nonce = n /\ entries[i].claim.expiresAt = nonces[n]

KeyInv == \A i \in DOMAIN entries : entries[i].key \in DOMAIN idempotency

ResponseInv ==
  \A k \in DOMAIN idempotency : \E i \in DOMAIN entries :
    /\ entries[i].key = k /\ entries[i].claim = idempotency[k].claim
    /\ entries[i].remaining = idempotency[k].remaining

PayerInv ==
  \A i \in DOMAIN entries :
    LET m == entries[i].claim IN
    m.outpoint \in DOMAIN accounts /\ accounts[m.outpoint].payer = m.payer

LedgerInv == NonceInv /\ SpentInv /\ KeyInv /\ ResponseInv /\ PayerInv

Inv == TypeOK /\ QueueInv /\ RequestInv /\ LedgerInv /\ VerifiedIsDebited
-----------------------------------------------------------------------------
(* The types of claims and entries.                                        *)
LEMMA ClaimType ==
  ASSUME NEW m \in Claim
  PROVE  /\ m.nonce \in Nonce /\ m.payer \in Payer /\ m.outpoint \in Outpoint
         /\ m.amount \in Nat /\ m.expiresAt \in Nat
BY FacilitatorAssumption

LEMMA EntryType ==
  ASSUME TypeOK, NEW i \in DOMAIN entries
  PROVE  /\ entries[i].key \in Key /\ entries[i].claim \in Claim
         /\ entries[i].remaining \in Nat
<1>1. entries \in Seq(Entry)
  BY DEF TypeOK
<1>2. entries[i] \in Entry
  BY <1>1
<1> QED
  BY <1>2 DEF Entry
-----------------------------------------------------------------------------
(* The queue.                                                              *)

(* The head of the queue is at work, and nobody else is.                   *)
LEMMA OneAtWork ==
  ASSUME QueueInv, NEW c \in Call, Turn(c), NEW d \in Call, pc[d] \in Running
  PROVE  d = c
BY DEF QueueInv, Turn

(* A request that is queued finds a queue that is not empty.               *)
LEMMA QueueNotEmpty ==
  ASSUME TypeOK, QueueInv, NEW c \in Call, pc[c] \in Queued
  PROVE  tail \in Seq(Call) /\ tail # <<>>
<1>1. tail \in Seq(Call)
  BY DEF TypeOK
<1>2. PICK i \in DOMAIN tail : tail[i] = c
  BY DEF QueueInv
<1> QED
  BY <1>1, <1>2

(* Finishing takes the head off the queue and leaves nobody at work.       *)
LEMMA FinishQueue ==
  ASSUME TypeOK, QueueInv, NEW c \in Call, pc[c] \in Queued, Turn(c),
         NEW o, NEW n, Finish(c, o, n)
  PROVE  /\ QueueInv'
         /\ \A d \in Call : pc'[d] \notin Running
         /\ tail' \in Seq(Call)
<1>1. tail \in Seq(Call) /\ tail # <<>>
  BY QueueNotEmpty
<1>2. tail' = Tail(tail) /\ pc' = [pc EXCEPT ![c] = "done"]
  BY DEF Finish, Released
<1>3. pc \in [Call -> {"idle", "chained", "signature", "funding", "done"}]
  BY DEF TypeOK
<1>4. tail[1] = c
  BY <1>1 DEF Turn
<1>5. /\ tail' \in Seq(Call)
      /\ DOMAIN tail = 1 .. Len(tail) /\ Len(tail) \in Nat /\ Len(tail) >= 1
      /\ DOMAIN tail' = 1 .. Len(tail) - 1
      /\ \A i \in DOMAIN tail' : tail'[i] = tail[i + 1]
  BY <1>1, <1>2
<1>6. \A d \in Call : pc'[d] \in Queued <=> d # c /\ pc[d] \in Queued
  BY <1>2, <1>3 DEF Queued
<1>7. \A d \in Call : pc'[d] \notin Running
  BY <1>2, <1>3, OneAtWork DEF Running
<1>8. \A i, j \in DOMAIN tail' : tail'[i] = tail'[j] => i = j
  <2> SUFFICES ASSUME NEW i \in DOMAIN tail', NEW j \in DOMAIN tail',
                      tail'[i] = tail'[j]
               PROVE  i = j
    OBVIOUS
  <2>1. i + 1 \in DOMAIN tail /\ j + 1 \in DOMAIN tail
    BY <1>5
  <2>2. i + 1 = j + 1
    BY <2>1, <1>5 DEF QueueInv
  <2> QED
    BY <2>2, <1>5
<1>9. ASSUME NEW d \in Call
      PROVE  pc'[d] \in Queued <=> \E i \in DOMAIN tail' : tail'[i] = d
  <2>1. ASSUME pc'[d] \in Queued PROVE \E i \in DOMAIN tail' : tail'[i] = d
    <3>1. PICK j \in DOMAIN tail : tail[j] = d
      BY <2>1, <1>6 DEF QueueInv
    <3>2. j # 1
      BY <3>1, <2>1, <1>6, <1>4
    <3>3. j - 1 \in DOMAIN tail' /\ tail'[j - 1] = tail[j]
      BY <3>1, <3>2, <1>5
    <3> QED
      BY <3>1, <3>3
  <2>2. ASSUME NEW i \in DOMAIN tail', tail'[i] = d PROVE pc'[d] \in Queued
    <3>1. i + 1 \in DOMAIN tail /\ tail[i + 1] = d /\ i + 1 # 1 /\ 1 \in DOMAIN tail
      BY <2>2, <1>5
    <3>2. pc[d] \in Queued /\ d # c
      BY <3>1, <1>4 DEF QueueInv
    <3> QED
      BY <3>2, <1>6
  <2> QED
    BY <2>1, <2>2
<1> QED
  BY <1>5, <1>7, <1>8, <1>9 DEF QueueInv

(* What finishing does to everything but the ledger.                       *)
LEMMA FinishRequest ==
  ASSUME Inv, NEW c \in Call, pc[c] \in Queued, Turn(c),
         NEW o \in Refused \cup {"VERIFIED"}, NEW n \in Nat, Finish(c, o, n),
         req' = req, now' = now
  PROVE  /\ pc' \in [Call -> {"idle", "chained", "signature", "funding", "done"}]
         /\ req' \in [Call -> Request \cup {NoRequest}]
         /\ clock' \in [Call -> Nat] /\ answer' \in [Call -> Answer]
         /\ now' \in Nat
         /\ RequestInv'
<1>1. \A d \in Call : pc'[d] \notin Running
  BY FinishQueue DEF Inv
<1>2. /\ pc' = [pc EXCEPT ![c] = "done"]
      /\ answer' = [answer EXCEPT ![c] = [code |-> o, remaining |-> n]]
      /\ clock' = [clock EXCEPT ![c] = 0]
  BY DEF Finish
<1>3. [code |-> o, remaining |-> n] \in Answer
  BY DEF Answer
<1>4. /\ pc' \in [Call -> {"idle", "chained", "signature", "funding", "done"}]
      /\ req' \in [Call -> Request \cup {NoRequest}]
      /\ clock' \in [Call -> Nat] /\ answer' \in [Call -> Answer] /\ now' \in Nat
  BY <1>2, <1>3 DEF Inv, TypeOK
<1>5. ASSUME NEW d \in Call
      PROVE  /\ pc'[d] # "idle" => req'[d] \in Request
             /\ pc'[d] # "done" => answer'[d].code = "NONE"
  <2>1. CASE d = c
    BY <2>1, <1>2 DEF Inv, TypeOK, RequestInv, Queued
  <2>2. CASE d # c
    BY <2>2, <1>2 DEF Inv, TypeOK, RequestInv
  <2> QED
    BY <2>1, <2>2
<1> QED
  BY <1>1, <1>4, <1>5 DEF RequestInv, Running

(* A ledger that does not change stays sound when nobody is at work.       *)
LEMMA LedgerUnchanged ==
  ASSUME LedgerInv, UNCHANGED ledgerVars, now' = now,
         \A d \in Call : pc'[d] \notin Running
  PROVE  LedgerInv'
BY DEF LedgerInv, ledgerVars, NonceInv, Remembered, Forgotten, SpentInv, KeyInv,
       ResponseInv, PayerInv

(* An answer that is no VERIFIED, or one that an entry supports.           *)
LEMMA AnswerSupported ==
  ASSUME Inv, NEW c \in Call, NEW o, NEW n, Finish(c, o, n), req' = req,
         entries' = entries,
         o = "VERIFIED" => \E i \in DOMAIN entries :
                             /\ entries[i].key = req[c].key
                             /\ entries[i].claim = req[c].claim
                             /\ entries[i].remaining = n
  PROVE  VerifiedIsDebited'
<1>1. answer' = [answer EXCEPT ![c] = [code |-> o, remaining |-> n]]
  BY DEF Finish
<1>2. answer \in [Call -> Answer]
  BY DEF Inv, TypeOK
<1> SUFFICES ASSUME NEW d \in Call, answer'[d].code = "VERIFIED"
             PROVE  \E i \in DOMAIN entries :
                      /\ entries[i].key = req[d].key
                      /\ entries[i].claim = req[d].claim
                      /\ entries[i].remaining = answer'[d].remaining
  BY DEF VerifiedIsDebited
<1>3. CASE d = c
  BY <1>1, <1>2, <1>3
<1>4. CASE d # c
  BY <1>1, <1>2, <1>4 DEF Inv, VerifiedIsDebited
<1> QED
  BY <1>3, <1>4

(* Any refusal that leaves the ledger alone preserves the invariant.       *)
LEMMA RefusalPreserves ==
  ASSUME Inv, NEW c \in Call, pc[c] \in Queued, Turn(c),
         NEW o \in Refused, Refuse(c, o), UNCHANGED <<now, req, ledgerVars>>
  PROVE  Inv'
<1>1. Finish(c, o, 0) /\ o # "VERIFIED" /\ UNCHANGED ledgerVars
  BY DEF Refuse, Refused
<1>2. QueueInv' /\ (\A d \in Call : pc'[d] \notin Running) /\ tail' \in Seq(Call)
  BY <1>1, FinishQueue DEF Inv
<1>3. /\ pc' \in [Call -> {"idle", "chained", "signature", "funding", "done"}]
      /\ req' \in [Call -> Request \cup {NoRequest}]
      /\ clock' \in [Call -> Nat] /\ answer' \in [Call -> Answer] /\ now' \in Nat
      /\ RequestInv'
  BY <1>1, FinishRequest
<1>4. LedgerInv'
  BY <1>1, <1>2, LedgerUnchanged DEF Inv
<1>5. VerifiedIsDebited'
  BY <1>1, AnswerSupported DEF ledgerVars
<1>6. TypeOK'
  BY <1>1, <1>2, <1>3 DEF Inv, TypeOK, ledgerVars
<1> QED
  BY <1>2, <1>3, <1>4, <1>5, <1>6 DEF Inv
-----------------------------------------------------------------------------
(* The actions.                                                            *)

LEMMA InitInv ==
  ASSUME Init
  PROVE  Inv
<1>1. TypeOK
  <2>1. NoAnswer \in Answer
    BY DEF NoAnswer, Answer
  <2>2. entries \in Seq(Entry) /\ tail \in Seq(Call)
    BY DEF Init
  <2>3. DOMAIN Empty = {}
    BY DEF Empty
  <2> QED
    BY <2>1, <2>2, <2>3 DEF Init, TypeOK, Maps
<1>2. QueueInv
  BY DEF Init, QueueInv, Queued, Running
<1>3. RequestInv
  BY DEF Init, RequestInv, Running, NoAnswer
<1>4. DOMAIN entries = {} /\ DOMAIN nonces = {} /\ DOMAIN idempotency = {}
  BY DEF Init, Empty
<1>5. LedgerInv
  BY <1>4 DEF LedgerInv, NonceInv, SpentInv, KeyInv, ResponseInv, PayerInv
<1>6. VerifiedIsDebited
  BY DEF Init, VerifiedIsDebited, NoAnswer
<1> QED
  BY <1>1, <1>2, <1>3, <1>5, <1>6 DEF Inv

(* Time passes: what had expired still has, what was read stays in the past*)
LEMMA TickInv ==
  ASSUME Inv, Tick
  PROVE  Inv'
<1>1. TypeOK'
  BY DEF Inv, TypeOK, Tick, ledgerVars
<1>2. QueueInv'
  BY DEF Inv, QueueInv, Tick
<1>3. now \in Nat /\ now' = now + 1
  BY DEF Inv, TypeOK, Tick
<1>4. RequestInv'
  <2>1. clock \in [Call -> Nat]
    BY DEF Inv, TypeOK
  <2> QED
    BY <1>3, <2>1 DEF Inv, RequestInv, Tick, ledgerVars, Running
<1>5. NonceInv'
  <2>1. ASSUME NEW i \in DOMAIN entries
        PROVE  entries[i].claim.expiresAt \in Nat
    BY EntryType, ClaimType DEF Inv
  <2>2. ASSUME NEW i \in DOMAIN entries, Forgotten(entries[i].claim)
        PROVE  Forgotten(entries[i].claim)'
    BY <1>3, <2>1, <2>2 DEF Forgotten, Tick, ledgerVars
  <2> QED
    BY <2>2 DEF Inv, LedgerInv, NonceInv, Remembered, Tick, ledgerVars
<1>6. LedgerInv'
  BY <1>5 DEF Inv, LedgerInv, SpentInv, KeyInv, ResponseInv, PayerInv, Tick, ledgerVars
<1>7. VerifiedIsDebited'
  BY DEF Inv, VerifiedIsDebited, Tick, ledgerVars
<1> QED
  BY <1>1, <1>2, <1>4, <1>6, <1>7 DEF Inv

(* A new request goes to the end of the queue.                             *)
LEMMA ReceiveInv ==
  ASSUME Inv, NEW c \in Call, NEW q \in Request, Receive(c, q)
  PROVE  Inv'
<1>1. /\ pc[c] = "idle" /\ pc' = [pc EXCEPT ![c] = "chained"]
      /\ req' = [req EXCEPT ![c] = q]
      /\ tail' = Append(tail, c)
      /\ UNCHANGED <<now, ledgerVars, clock, answer>>
  BY DEF Receive
<1>2. /\ pc \in [Call -> {"idle", "chained", "signature", "funding", "done"}]
      /\ req \in [Call -> Request \cup {NoRequest}]
      /\ tail \in Seq(Call)
  BY DEF Inv, TypeOK
<1>3. TypeOK'
  <2>1. pc' \in [Call -> {"idle", "chained", "signature", "funding", "done"}]
    BY <1>1, <1>2
  <2>2. req' \in [Call -> Request \cup {NoRequest}] /\ tail' \in Seq(Call)
    BY <1>1, <1>2
  <2> QED
    BY <1>1, <2>1, <2>2 DEF Inv, TypeOK, ledgerVars
<1>4. /\ DOMAIN tail = 1 .. Len(tail) /\ Len(tail) \in Nat
      /\ DOMAIN tail' = 1 .. Len(tail) + 1
      /\ \A i \in DOMAIN tail : tail'[i] = tail[i]
      /\ tail'[Len(tail) + 1] = c
  BY <1>1, <1>2
<1>5. \A i \in DOMAIN tail : tail[i] # c
  BY <1>1 DEF Inv, QueueInv, Queued
<1>6. QueueInv'
  <2>1. \A i, j \in DOMAIN tail' : tail'[i] = tail'[j] => i = j
    BY <1>4, <1>5 DEF Inv, QueueInv
  <2>2. ASSUME NEW d \in Call
        PROVE  pc'[d] \in Queued <=> \E i \in DOMAIN tail' : tail'[i] = d
    <3>1. CASE d = c
      BY <3>1, <1>1, <1>2, <1>4 DEF Queued
    <3>2. CASE d # c
      <4>1. pc'[d] = pc[d]
        BY <3>2, <1>1, <1>2
      <4>2. (\E i \in DOMAIN tail : tail[i] = d) <=> \E i \in DOMAIN tail' : tail'[i] = d
        BY <3>2, <1>4
      <4> QED
        BY <4>1, <4>2 DEF Inv, QueueInv
    <3> QED
      BY <3>1, <3>2
  <2>3. ASSUME NEW d \in Call, pc'[d] \in Running PROVE Head(tail') = d
    <3>1. pc[d] \in Running /\ pc[d] \in Queued
      BY <2>3, <1>1, <1>2 DEF Running, Queued
    <3>2. tail # <<>> /\ Head(tail) = d
      BY <3>1, QueueNotEmpty DEF Inv, QueueInv
    <3> QED
      BY <3>2, <1>1, <1>2
  <2> QED
    BY <2>1, <2>2, <2>3 DEF QueueInv
<1>7. \A d \in Call : pc'[d] \in Running <=> pc[d] \in Running
  BY <1>1, <1>2 DEF Running
<1>8. RequestInv'
  <2> SUFFICES ASSUME NEW d \in Call
               PROVE  /\ pc'[d] # "idle" => req'[d] \in Request
                      /\ pc'[d] # "done" => answer'[d].code = "NONE"
                      /\ pc'[d] \in Running => /\ clock'[d] <= now'
                                               /\ clock'[d] < req'[d].claim.expiresAt
                                               /\ req'[d].key \notin DOMAIN idempotency'
                      /\ pc'[d] = "funding" => /\ req'[d].claim.sound
                                               /\ req'[d].claim.nonce \notin DOMAIN nonces'
    BY DEF RequestInv
  <2>1. CASE d = c
    BY <2>1, <1>1, <1>2 DEF Inv, RequestInv, Running
  <2>2. CASE d # c
    <3>1. pc'[d] = pc[d] /\ req'[d] = req[d]
      BY <2>2, <1>1, <1>2
    <3> QED
      BY <3>1, <1>1 DEF Inv, RequestInv, ledgerVars
  <2> QED
    BY <2>1, <2>2
<1>9. LedgerInv'
  <2>1. NonceInv'
    BY <1>1, <1>7 DEF Inv, LedgerInv, NonceInv, Remembered, Forgotten, ledgerVars
  <2> QED
    BY <2>1, <1>1 DEF Inv, LedgerInv, SpentInv, KeyInv, ResponseInv, PayerInv, ledgerVars
<1>10. VerifiedIsDebited'
  <2> SUFFICES ASSUME NEW d \in Call, answer[d].code = "VERIFIED"
               PROVE  req'[d] = req[d]
    BY <1>1 DEF Inv, VerifiedIsDebited, ledgerVars
  <2>1. d # c
    BY <1>1 DEF Inv, RequestInv
  <2> QED
    BY <2>1, <1>1, <1>2
<1> QED
  BY <1>3, <1>6, <1>8, <1>9, <1>10 DEF Inv

(* Start refuses, repeats a stored answer, or goes on to the signature.    *)
LEMMA StartInv ==
  ASSUME Inv, NEW c \in Call, Start(c)
  PROVE  Inv'
<1> DEFINE k == req[c].key
           m == req[c].claim
<1>1. pc[c] = "chained" /\ Turn(c) /\ UNCHANGED <<now, ledgerVars, req>>
  BY DEF Start
<1>2. pc[c] \in Queued /\ req[c] \in Request
  BY <1>1 DEF Queued, Inv, RequestInv
<1>3. k \in Key /\ m \in Claim
  BY <1>2 DEF Request
<1>4. CASE \E o \in Refused : Refuse(c, o)
  BY <1>1, <1>2, <1>4, RefusalPreserves
<1>5. CASE k \in DOMAIN idempotency /\ SameRequest(k, m)
           /\ Finish(c, "VERIFIED", idempotency[k].remaining)
  <2> DEFINE n == idempotency[k].remaining
  <2>1. n \in Nat /\ idempotency[k].claim = m
    BY <1>5 DEF Inv, TypeOK, Maps, SameRequest
  <2>2. Finish(c, "VERIFIED", n)
    BY <1>5
  <2> HIDE DEF n
  <2>3. QueueInv' /\ (\A d \in Call : pc'[d] \notin Running) /\ tail' \in Seq(Call)
    BY <2>2, <1>1, <1>2, FinishQueue DEF Inv
  <2>4. /\ pc' \in [Call -> {"idle", "chained", "signature", "funding", "done"}]
        /\ req' \in [Call -> Request \cup {NoRequest}]
        /\ clock' \in [Call -> Nat] /\ answer' \in [Call -> Answer] /\ now' \in Nat
        /\ RequestInv'
    BY <2>1, <2>2, <1>1, <1>2, FinishRequest
  <2>5. LedgerInv'
    BY <1>1, <2>3, LedgerUnchanged DEF Inv
  <2>6. \E i \in DOMAIN entries : entries[i].key = k /\ entries[i].claim = m
                                   /\ entries[i].remaining = n
    BY <1>5, <2>1 DEF n, Inv, LedgerInv, ResponseInv
  <2>7. VerifiedIsDebited'
    BY <1>1, <2>2, <2>6, AnswerSupported DEF ledgerVars
  <2>8. TypeOK'
    BY <1>1, <2>3, <2>4 DEF Inv, TypeOK, ledgerVars
  <2> QED
    BY <2>3, <2>4, <2>5, <2>7, <2>8 DEF Inv
<1>6. CASE /\ k \notin DOMAIN idempotency
           /\ m.issuedAt <= now /\ now < m.expiresAt
           /\ pc' = [pc EXCEPT ![c] = "signature"]
           /\ clock' = [clock EXCEPT ![c] = now]
           /\ UNCHANGED <<answer, tail>>
  <2>1. /\ pc \in [Call -> {"idle", "chained", "signature", "funding", "done"}]
        /\ clock \in [Call -> Nat] /\ now \in Nat
    BY DEF Inv, TypeOK
  <2>2. TypeOK'
    BY <1>1, <1>6, <2>1 DEF Inv, TypeOK, ledgerVars
  <2>3. /\ \A d \in Call : pc'[d] \in Running => d = c
        /\ \A d \in Call : pc'[d] \in Queued <=> pc[d] \in Queued
        /\ pc'[c] = "signature" /\ clock'[c] = now
        /\ \A d \in Call : d # c => pc'[d] = pc[d]
    BY <1>1, <1>6, <2>1, OneAtWork DEF Inv, Running, Queued
  <2>4. QueueInv'
    BY <1>1, <1>6, <2>3 DEF Inv, QueueInv, Turn
  <2>5. RequestInv'
    BY <1>1, <1>2, <1>6, <2>1, <2>3 DEF Inv, RequestInv, ledgerVars, Running
  <2>6. NonceInv'
    BY <1>1, <2>3 DEF Inv, LedgerInv, NonceInv, Remembered, Forgotten, ledgerVars
  <2>7. LedgerInv'
    BY <1>1, <2>6 DEF Inv, LedgerInv, SpentInv, KeyInv, ResponseInv, PayerInv, ledgerVars
  <2>8. VerifiedIsDebited'
    BY <1>1, <1>6 DEF Inv, VerifiedIsDebited, ledgerVars
  <2> QED
    BY <2>2, <2>4, <2>5, <2>7, <2>8 DEF Inv
<1> QED
  BY <1>4, <1>5, <1>6 DEF Start, Refused

(* Pruning keeps what is not forgotten, and forgets only what has expired  *)
(* for the request at work.                                                *)
LEMMA PruneKeeps ==
  ASSUME Inv, NEW c \in Call, pc[c] \in Running,
         nonces' = Pruned(clock[c]), now' = now, entries' = entries,
         \A d \in Call : pc'[d] \in Running => d = c /\ clock'[d] = clock[c]
  PROVE  /\ NonceInv' /\ SpentInv'
         /\ Maps(nonces', Nonce, Nat)
<1>1. /\ DOMAIN nonces' = {x \in DOMAIN nonces : nonces[x] > clock[c]}
      /\ \A x \in DOMAIN nonces' : nonces'[x] = nonces[x]
  BY DEF Pruned
<1>2. Maps(nonces', Nonce, Nat) /\ clock[c] \in Nat /\ now \in Nat /\ clock[c] <= now
  BY <1>1 DEF Inv, TypeOK, Maps, RequestInv
<1>3. SpentInv'
  BY <1>1 DEF Inv, LedgerInv, SpentInv
<1>4. ASSUME NEW i \in DOMAIN entries
      PROVE  (Remembered(entries[i].claim) \/ Forgotten(entries[i].claim))'
  <2> DEFINE m == entries[i].claim
  <2>1. m.expiresAt \in Nat
    BY EntryType, ClaimType DEF Inv
  <2>2. CASE Remembered(m) /\ m.expiresAt > clock[c]
    BY <1>1, <2>2 DEF Remembered
  <2>3. CASE ~(m.expiresAt > clock[c])
    <3>1. m.expiresAt <= clock[c] /\ m.expiresAt <= now
      BY <2>1, <2>3, <1>2
    <3> QED
      BY <3>1 DEF Forgotten
  <2>4. CASE Forgotten(m)
    BY <2>4, <2>3 DEF Forgotten
  <2> QED
    BY <2>2, <2>3, <2>4 DEF Inv, LedgerInv, NonceInv
<1> QED
  BY <1>2, <1>3, <1>4 DEF NonceInv

(* Consume refuses, or leaves a nonce store without the claim's nonce.     *)
LEMMA ConsumeInv ==
  ASSUME Inv, NEW c \in Call, Consume(c)
  PROVE  Inv'
<1> DEFINE m == req[c].claim
<1>1. /\ pc[c] = "signature"
      /\ UNCHANGED <<now, accounts, entries, idempotency, req>>
  BY DEF Consume
<1>2. pc[c] \in Queued /\ pc[c] \in Running /\ Turn(c)
  BY <1>1 DEF Queued, Running, Inv, QueueInv, Turn
<1>3. /\ pc \in [Call -> {"idle", "chained", "signature", "funding", "done"}]
      /\ clock \in [Call -> Nat] /\ now \in Nat
  BY DEF Inv, TypeOK
<1>4. CASE \E o \in Refused : Refuse(c, o) /\ UNCHANGED nonces
  BY <1>1, <1>2, <1>4, RefusalPreserves DEF ledgerVars
<1>5. CASE nonces' = Pruned(clock[c]) /\ Refuse(c, "NONCE_REUSED")
  <2>1. Finish(c, "NONCE_REUSED", 0) /\ "NONCE_REUSED" \in Refused
    BY <1>5 DEF Refuse, Refused
  <2>2. QueueInv' /\ (\A d \in Call : pc'[d] \notin Running) /\ tail' \in Seq(Call)
    BY <1>2, <2>1, FinishQueue DEF Inv
  <2>3. /\ pc' \in [Call -> {"idle", "chained", "signature", "funding", "done"}]
        /\ req' \in [Call -> Request \cup {NoRequest}]
        /\ clock' \in [Call -> Nat] /\ answer' \in [Call -> Answer] /\ now' \in Nat
        /\ RequestInv'
    BY <1>1, <1>2, <2>1, FinishRequest
  <2>4. NonceInv' /\ SpentInv' /\ Maps(nonces', Nonce, Nat)
    BY <1>1, <1>2, <1>5, <2>2, PruneKeeps
  <2>5. LedgerInv'
    BY <1>1, <2>4 DEF Inv, LedgerInv, KeyInv, ResponseInv, PayerInv
  <2>6. VerifiedIsDebited'
    BY <1>1, <2>1, AnswerSupported DEF Refused
  <2>7. TypeOK'
    BY <1>1, <2>2, <2>3, <2>4 DEF Inv, TypeOK
  <2> QED
    BY <2>2, <2>3, <2>5, <2>6, <2>7 DEF Inv
<1>6. CASE /\ m.sound /\ m.nonce \notin DOMAIN Pruned(clock[c])
           /\ nonces' = Pruned(clock[c])
           /\ pc' = [pc EXCEPT ![c] = "funding"]
           /\ UNCHANGED <<answer, clock, tail>>
  <2>1. /\ \A d \in Call : pc'[d] \in Running => d = c
        /\ \A d \in Call : pc'[d] \in Queued <=> pc[d] \in Queued
        /\ pc'[c] = "funding"
        /\ \A d \in Call : d # c => pc'[d] = pc[d]
    BY <1>1, <1>2, <1>3, <1>6, OneAtWork DEF Inv, Running, Queued
  <2>2. QueueInv'
    BY <1>2, <1>6, <2>1 DEF Inv, QueueInv, Turn
  <2>3. NonceInv' /\ SpentInv' /\ Maps(nonces', Nonce, Nat)
    BY <1>1, <1>2, <1>6, <2>1, PruneKeeps
  <2>4. RequestInv'
    BY <1>1, <1>2, <1>6, <2>1 DEF Inv, RequestInv, Running, Queued
  <2>5. LedgerInv'
    BY <1>1, <2>3 DEF Inv, LedgerInv, KeyInv, ResponseInv, PayerInv
  <2>6. VerifiedIsDebited'
    BY <1>1, <1>6 DEF Inv, VerifiedIsDebited
  <2>7. TypeOK'
    BY <1>1, <1>3, <1>6, <2>3 DEF Inv, TypeOK
  <2> QED
    BY <2>2, <2>4, <2>5, <2>6, <2>7 DEF Inv
<1> QED
  BY <1>4, <1>5, <1>6 DEF Consume, Consumed, Refused

(* The account that a debit is made from.                                  *)
LEMMA CreditType ==
  ASSUME TypeOK, NEW m \in Claim, NEW sats \in Sats
  PROVE  /\ Credit(m, sats) \in Account
         /\ m.outpoint \in DOMAIN accounts => Credit(m, sats) = accounts[m.outpoint]
<1>1. sats \in Nat
  BY FacilitatorAssumption
<1> QED
  BY <1>1, ClaimType DEF Credit, Account, TypeOK, Maps

(* The conditions under which Inspect debits.                              *)
Debits(c, sats) ==
  LET m == req[c].claim
      account == Credit(m, sats) IN
  /\ pc[c] = "funding" /\ sats \in Sats /\ sats >= m.amount
  /\ account.value = sats /\ account.payer = m.payer
  /\ account.remaining >= m.amount
  /\ Debit(c, account)
  /\ UNCHANGED <<now, req>>

(* What a debit writes.                                                    *)
LEMMA DebitWrites ==
  ASSUME Inv, NEW c \in Call, NEW sats, Debits(c, sats)
  PROVE  LET k == req[c].key
             m == req[c].claim
             account == Credit(m, sats)
             n == account.remaining - m.amount
             e == [key |-> k, claim |-> m, value |-> account.value, remaining |-> n] IN
         /\ pc[c] \in Queued /\ pc[c] \in Running /\ Turn(c)
         /\ k \in Key /\ m \in Claim /\ account \in Account /\ n \in Nat
         /\ e \in Entry
         /\ nonces' = Set(nonces, m.nonce, m.expiresAt)
         /\ accounts' = Set(accounts, m.outpoint, [account EXCEPT !.remaining = n])
         /\ idempotency' = Set(idempotency, k, [claim |-> m, remaining |-> n])
         /\ entries' = Append(entries, e)
         /\ entries' \in Seq(Entry)
         /\ DOMAIN entries' = DOMAIN entries \cup {Len(entries) + 1}
         /\ \A i \in DOMAIN entries : entries'[i] = entries[i]
         /\ entries'[Len(entries) + 1] = e
         /\ Finish(c, "VERIFIED", n)
<1> DEFINE k == req[c].key
           m == req[c].claim
           account == Credit(m, sats)
           n == account.remaining - m.amount
           e == [key |-> k, claim |-> m, value |-> account.value, remaining |-> n]
<1>1. pc[c] \in Queued /\ pc[c] \in Running /\ Turn(c)
  BY DEF Debits, Queued, Running, Inv, QueueInv, Turn
<1>2. req[c] \in Request
  BY <1>1 DEF Inv, RequestInv, Running
<1>3. k \in Key /\ m \in Claim
  BY <1>2 DEF Request
<1>4. account \in Account
  BY <1>3, CreditType DEF Inv, Debits
<1>5. n \in Nat
  <2>1. account.remaining \in Nat /\ m.amount \in Nat /\ account.remaining >= m.amount
    BY <1>3, <1>4, ClaimType DEF Account, Debits
  <2> HIDE DEF account, m
  <2> QED
    BY <2>1
<1>6. e \in Entry
  BY <1>3, <1>4, <1>5 DEF Entry, Account
<1>7. entries' = Append(entries, e)
  BY DEF Debits, Debit
<1>8. /\ entries' \in Seq(Entry)
      /\ DOMAIN entries' = DOMAIN entries \cup {Len(entries) + 1}
      /\ \A i \in DOMAIN entries : entries'[i] = entries[i]
      /\ entries'[Len(entries) + 1] = e
  <2>1. entries \in Seq(Entry)
    BY DEF Inv, TypeOK
  <2> HIDE DEF e
  <2> QED
    BY <2>1, <1>6, <1>7
<1> QED
  BY <1>1, <1>3, <1>4, <1>5, <1>6, <1>7, <1>8 DEF Debits, Debit, CommittedNonces

(* A debit keeps the invariant: its nonce, its key and its payer are new to*)
(* the ledger or agree with it.                                            *)
LEMMA DebitInv ==
  ASSUME Inv, NEW c \in Call, NEW sats, Debits(c, sats)
  PROVE  Inv'
<1> DEFINE k == req[c].key
           m == req[c].claim
           account == Credit(m, sats)
           n == account.remaining - m.amount
           e == [key |-> k, claim |-> m, value |-> account.value, remaining |-> n]
           last == Len(entries) + 1
<1>1. /\ pc[c] \in Queued /\ pc[c] \in Running /\ Turn(c)
      /\ k \in Key /\ m \in Claim /\ account \in Account /\ n \in Nat
      /\ e \in Entry
      /\ nonces' = Set(nonces, m.nonce, m.expiresAt)
      /\ accounts' = Set(accounts, m.outpoint, [account EXCEPT !.remaining = n])
      /\ idempotency' = Set(idempotency, k, [claim |-> m, remaining |-> n])
      /\ entries' \in Seq(Entry)
      /\ Finish(c, "VERIFIED", n)
  BY DebitWrites
<1>2. /\ DOMAIN entries' = DOMAIN entries \cup {last}
      /\ \A i \in DOMAIN entries : entries'[i] = entries[i]
      /\ entries'[last] = e
  BY DebitWrites
<1>3. UNCHANGED <<now, req>> /\ account.payer = m.payer
  BY DEF Debits
<1>4. e.key = k /\ e.claim = m /\ e.remaining = n
  OBVIOUS
<1>5. [account EXCEPT !.remaining = n] \in Account
      /\ [account EXCEPT !.remaining = n].payer = m.payer
  BY <1>1, <1>3 DEF Account
<1> DEFINE left == [account EXCEPT !.remaining = n]
<1>6. m.nonce \in Nonce /\ m.outpoint \in Outpoint /\ m.expiresAt \in Nat
  BY <1>1, ClaimType
<1>7. m.nonce \notin DOMAIN nonces
  BY DEF Inv, RequestInv, Debits
<1>8. m.outpoint \in DOMAIN accounts => account = accounts[m.outpoint]
  BY <1>1, CreditType DEF Inv, Debits
<1>9. QueueInv' /\ (\A d \in Call : pc'[d] \notin Running) /\ tail' \in Seq(Call)
  BY <1>1, FinishQueue DEF Inv
<1>10. /\ pc' \in [Call -> {"idle", "chained", "signature", "funding", "done"}]
       /\ req' \in [Call -> Request \cup {NoRequest}]
       /\ clock' \in [Call -> Nat] /\ answer' \in [Call -> Answer] /\ now' \in Nat
       /\ RequestInv'
  BY <1>1, <1>3, FinishRequest
<1> HIDE DEF k, m, account, n, e, last, left
<1>a. /\ DOMAIN nonces' = DOMAIN nonces \cup {m.nonce}
      /\ nonces'[m.nonce] = m.expiresAt
      /\ \A x \in DOMAIN nonces : x # m.nonce => nonces'[x] = nonces[x]
  BY <1>1 DEF Set
<1>b. /\ DOMAIN accounts' = DOMAIN accounts \cup {m.outpoint}
      /\ accounts'[m.outpoint] = left
      /\ \A x \in DOMAIN accounts : x # m.outpoint => accounts'[x] = accounts[x]
  BY <1>1 DEF Set, left
<1>c. /\ DOMAIN idempotency' = DOMAIN idempotency \cup {k}
      /\ idempotency'[k] = [claim |-> m, remaining |-> n]
      /\ \A x \in DOMAIN idempotency : x # k => idempotency'[x] = idempotency[x]
  BY <1>1 DEF Set
<1>11. TypeOK'
  <2>1. Maps(accounts', Outpoint, Account)
    BY <1>b, <1>5, <1>6 DEF Inv, TypeOK, Maps, left
  <2>2. [claim |-> m, remaining |-> n] \in [claim : Claim, remaining : Nat]
    BY <1>1
  <2>3. Maps(idempotency', Key, [claim : Claim, remaining : Nat])
    BY <1>c, <1>1, <2>2 DEF Inv, TypeOK, Maps
  <2>4. Maps(nonces', Nonce, Nat)
    BY <1>a, <1>6 DEF Inv, TypeOK, Maps
  <2> QED
    BY <1>1, <1>9, <1>10, <2>1, <2>3, <2>4 DEF TypeOK
<1>12. NonceInv'
  <2>1. /\ entries'[last].claim.nonce \in DOMAIN nonces'
        /\ nonces'[entries'[last].claim.nonce] = entries'[last].claim.expiresAt
    BY <1>a, <1>2, <1>4
  <2>2. ASSUME NEW i \in DOMAIN entries
        PROVE  (Remembered(entries[i].claim) \/ Forgotten(entries[i].claim))'
    <3>1. entries'[i] = entries[i]
      BY <1>2
    <3>2. CASE Remembered(entries[i].claim)
      <4>1. entries[i].claim.nonce # m.nonce
        BY <3>2, <1>7 DEF Remembered
      <4> QED
        BY <3>1, <3>2, <4>1, <1>a DEF Remembered
    <3>3. CASE Forgotten(entries[i].claim)
      BY <3>1, <3>3, <1>3, <1>9 DEF Forgotten
    <3> QED
      BY <3>2, <3>3 DEF Inv, LedgerInv, NonceInv
  <2> QED
    BY <2>1, <2>2, <1>2 DEF NonceInv, Remembered
<1>13. SpentInv'
  <2> SUFFICES ASSUME NEW x \in DOMAIN nonces'
               PROVE  \E i \in DOMAIN entries' : /\ entries'[i].claim.nonce = x
                                                 /\ entries'[i].claim.expiresAt = nonces'[x]
    BY DEF SpentInv
  <2>1. CASE x = m.nonce
    BY <2>1, <1>a, <1>2, <1>4
  <2>2. CASE x # m.nonce
    <3>1. x \in DOMAIN nonces /\ nonces'[x] = nonces[x]
      BY <2>2, <1>a
    <3> QED
      BY <3>1, <1>2 DEF Inv, LedgerInv, SpentInv
  <2> QED
    BY <2>1, <2>2
<1>14. KeyInv'
  BY <1>c, <1>2, <1>4 DEF Inv, LedgerInv, KeyInv
<1>15. ResponseInv'
  <2> SUFFICES ASSUME NEW x \in DOMAIN idempotency'
               PROVE  \E i \in DOMAIN entries' :
                        /\ entries'[i].key = x
                        /\ entries'[i].claim = idempotency'[x].claim
                        /\ entries'[i].remaining = idempotency'[x].remaining
    BY DEF ResponseInv
  <2>1. CASE x = k
    BY <2>1, <1>c, <1>2, <1>4
  <2>2. CASE x # k
    <3>1. x \in DOMAIN idempotency /\ idempotency'[x] = idempotency[x]
      BY <2>2, <1>c
    <3> QED
      BY <3>1, <1>2 DEF Inv, LedgerInv, ResponseInv
  <2> QED
    BY <2>1, <2>2
<1>16. PayerInv'
  <2>1. m.outpoint \in DOMAIN accounts' /\ accounts'[m.outpoint].payer = m.payer
    BY <1>b, <1>5 DEF left
  <2>2. ASSUME NEW i \in DOMAIN entries
        PROVE  /\ entries[i].claim.outpoint \in DOMAIN accounts'
               /\ accounts'[entries[i].claim.outpoint].payer = entries[i].claim.payer
    <3>1. /\ entries[i].claim.outpoint \in DOMAIN accounts
          /\ accounts[entries[i].claim.outpoint].payer = entries[i].claim.payer
      BY DEF Inv, LedgerInv, PayerInv
    <3>2. CASE entries[i].claim.outpoint = m.outpoint
      BY <3>1, <3>2, <2>1, <1>3, <1>8
    <3>3. CASE entries[i].claim.outpoint # m.outpoint
      BY <3>1, <3>3, <1>b
    <3> QED
      BY <3>2, <3>3
  <2> QED
    BY <2>1, <2>2, <1>2, <1>4 DEF PayerInv
<1>17. VerifiedIsDebited'
  <2> SUFFICES ASSUME NEW d \in Call, answer'[d].code = "VERIFIED"
               PROVE  \E i \in DOMAIN entries' :
                        /\ entries'[i].key = req'[d].key
                        /\ entries'[i].claim = req'[d].claim
                        /\ entries'[i].remaining = answer'[d].remaining
    BY DEF VerifiedIsDebited
  <2>1. /\ answer \in [Call -> Answer]
        /\ answer' = [answer EXCEPT ![c] = [code |-> "VERIFIED", remaining |-> n]]
    BY <1>1 DEF Inv, TypeOK, Finish
  <2>2. CASE d = c
    <3>1. answer'[d].remaining = n /\ req'[d] = req[c]
      BY <2>1, <2>2, <1>3
    <3> QED
      BY <3>1, <1>2, <1>4 DEF k, m
  <2>3. CASE d # c
    <3>1. answer'[d] = answer[d] /\ req'[d] = req[d]
      BY <2>1, <2>3, <1>3
    <3>2. PICK i \in DOMAIN entries : /\ entries[i].key = req[d].key
                                      /\ entries[i].claim = req[d].claim
                                      /\ entries[i].remaining = answer[d].remaining
      BY <3>1 DEF Inv, VerifiedIsDebited
    <3> QED
      BY <3>1, <3>2, <1>2
  <2> QED
    BY <2>2, <2>3
<1> QED
  BY <1>9, <1>10, <1>11, <1>12, <1>13, <1>14, <1>15, <1>16, <1>17 DEF Inv, LedgerInv

(* Inspect refuses or debits.                                              *)
LEMMA InspectCases ==
  ASSUME NEW c \in Call, Inspect(c)
  PROVE  /\ pc[c] = "funding" /\ UNCHANGED <<now, req>>
         /\ \/ \E o \in Refused : Refuse(c, o) /\ UNCHANGED ledgerVars
            \/ \E sats \in Sats : Debits(c, sats)
BY DEF Inspect, Unfunded, Refused, Debits

LEMMA InspectInv ==
  ASSUME Inv, NEW c \in Call, Inspect(c)
  PROVE  Inv'
<1>1. /\ pc[c] = "funding" /\ UNCHANGED <<now, req>>
      /\ \/ \E o \in Refused : Refuse(c, o) /\ UNCHANGED ledgerVars
         \/ \E sats \in Sats : Debits(c, sats)
  BY InspectCases
<1>2. pc[c] \in Queued /\ Turn(c)
  BY <1>1 DEF Queued, Running, Inv, QueueInv, Turn
<1> QED
  BY <1>1, <1>2, RefusalPreserves, DebitInv

(* The answer leaves; the request is forgotten.                            *)
LEMMA ReturnInv ==
  ASSUME Inv, NEW c \in Call, Return(c)
  PROVE  Inv'
<1>1. /\ pc[c] = "done" /\ pc' = [pc EXCEPT ![c] = "idle"]
      /\ req' = [req EXCEPT ![c] = NoRequest]
      /\ answer' = [answer EXCEPT ![c] = NoAnswer]
      /\ UNCHANGED <<now, ledgerVars, tail, clock>>
  BY DEF Return
<1>2. /\ pc \in [Call -> {"idle", "chained", "signature", "funding", "done"}]
      /\ req \in [Call -> Request \cup {NoRequest}]
      /\ answer \in [Call -> Answer]
  BY DEF Inv, TypeOK
<1>3. NoAnswer \in Answer /\ NoAnswer.code = "NONE"
  BY DEF NoAnswer, Answer
<1>4. TypeOK'
  BY <1>1, <1>2, <1>3 DEF Inv, TypeOK, ledgerVars
<1>5. /\ \A d \in Call : pc'[d] \in Queued <=> pc[d] \in Queued
      /\ \A d \in Call : pc'[d] \in Running <=> pc[d] \in Running
      /\ pc'[c] = "idle" /\ answer'[c] = NoAnswer
      /\ \A d \in Call : d # c => pc'[d] = pc[d] /\ req'[d] = req[d] /\ answer'[d] = answer[d]
  BY <1>1, <1>2 DEF Queued, Running
<1>6. QueueInv'
  BY <1>1, <1>5 DEF Inv, QueueInv
<1>7. RequestInv'
  BY <1>1, <1>3, <1>5 DEF Inv, RequestInv, Running, ledgerVars
<1>8. NonceInv'
  BY <1>1, <1>5 DEF Inv, LedgerInv, NonceInv, Remembered, Forgotten, ledgerVars
<1>9. LedgerInv'
  BY <1>1, <1>8 DEF Inv, LedgerInv, SpentInv, KeyInv, ResponseInv, PayerInv, ledgerVars
<1>10. VerifiedIsDebited'
  BY <1>1, <1>3, <1>5 DEF Inv, VerifiedIsDebited, ledgerVars
<1> QED
  BY <1>4, <1>6, <1>7, <1>9, <1>10 DEF Inv

LEMMA NextInv ==
  ASSUME Inv, [Next]_vars
  PROVE  Inv'
<1>1. CASE UNCHANGED vars
  BY <1>1 DEF vars, ledgerVars, Inv, TypeOK, QueueInv, RequestInv, LedgerInv,
              NonceInv, Remembered, Forgotten, SpentInv, KeyInv, ResponseInv, PayerInv,
              VerifiedIsDebited
<1> QED
  BY <1>1, TickInv, ReceiveInv, StartInv, ConsumeInv, InspectInv, ReturnInv DEF Next

(* Types, queue, what a waiting request relies upon and the agreement of   *)
(* the ledger's maps hold in every reachable state.                        *)
THEOREM Invariance == Spec => []Inv
BY InitInv, NextInv, PTL DEF Spec
-----------------------------------------------------------------------------
(* verify keeps its types for any number of requests; a balance is never   *)
(* negative.                                                               *)
THEOREM TypeCorrect == Spec => []TypeOK
<1>1. Inv => TypeOK
  BY DEF Inv
<1> QED
  BY <1>1, Invariance, PTL

(* Whoever verify answers VERIFIED has a debit for this very request and   *)
(* with this balance, the repetition of a request included.                *)
THEOREM VerifiedStaysDebited == Spec => []VerifiedIsDebited
<1>1. Inv => VerifiedIsDebited
  BY DEF Inv
<1> QED
  BY <1>1, Invariance, PTL

(* consume only stages a nonce: none is in the store that was not debited, *)
(* so a payer whose funding was refused can present the invoice again.     *)
THEOREM NoncesSpentByDebits == Spec => []NonceSpentByDebit
<1>1. Inv => NonceSpentByDebit
  BY DEF Inv, LedgerInv, SpentInv, NonceSpentByDebit
<1> QED
  BY <1>1, Invariance, PTL
-----------------------------------------------------------------------------
(* No debit so far has the nonce of a request that is about to debit: a    *)
(* nonce that was pruned since belongs to an invoice that had expired when *)
(* this request read the clock.                                            *)
LEMMA NonceIsNew ==
  ASSUME Inv, NEW c \in Call, pc[c] = "funding", NEW i \in DOMAIN entries
  PROVE  entries[i].claim.nonce # req[c].claim.nonce
<1> DEFINE m == req[c].claim
           l == entries[i].claim
<1> SUFFICES ASSUME l.nonce = m.nonce
             PROVE  FALSE
  OBVIOUS
<1>1. /\ m.nonce \notin DOMAIN nonces /\ clock[c] < m.expiresAt
      /\ req[c] \in Request /\ pc[c] \in Running
  BY DEF Inv, RequestInv, Running
<1>2. l \in Claim /\ m \in Claim
  BY <1>1, EntryType DEF Inv, Request
<1>3. l.expiresAt = m.expiresAt /\ l.expiresAt \in Nat
  BY <1>2, NonceAssumption, ClaimType
<1>4. Forgotten(l)
  BY <1>1 DEF Inv, LedgerInv, NonceInv, Remembered
<1>5. l.expiresAt <= clock[c] /\ clock[c] \in Nat
  BY <1>1, <1>4 DEF Forgotten, Inv, TypeOK
<1> QED
  BY <1>1, <1>3, <1>5

(* A debit of the facilitator is a debit of the abstract ledger.           *)
LEMMA DebitMaps ==
  ASSUME Inv, NEW c \in Call, NEW sats, Debits(c, sats)
  PROVE  Ledger!LedgerNext
<1> DEFINE k == req[c].key
           m == req[c].claim
           account == Credit(m, sats)
           n == account.remaining - m.amount
           e == [key |-> k, claim |-> m, value |-> account.value, remaining |-> n]
           last == Len(entries) + 1
           debits == {[key |-> entries[i].key, claim |-> entries[i].claim] : i \in DOMAIN entries}
           credit == [o \in DOMAIN accounts |-> accounts[o].remaining]
<1>1. /\ k \in Key /\ m \in Claim /\ account \in Account
      /\ accounts' = Set(accounts, m.outpoint, [account EXCEPT !.remaining = n])
      /\ DOMAIN entries' = DOMAIN entries \cup {last}
      /\ \A i \in DOMAIN entries : entries'[i] = entries[i]
      /\ entries'[last] = e
  BY DebitWrites
<1>2. /\ sats \in Sats /\ account.payer = m.payer /\ account.remaining >= m.amount
      /\ account.value = sats
  BY DEF Debits
<1>3. /\ m.sound /\ k \notin DOMAIN idempotency /\ pc[c] = "funding"
  BY DEF Inv, RequestInv, Debits, Running
<1>4. m.outpoint \in DOMAIN accounts => account = accounts[m.outpoint]
  BY <1>1, CreditType DEF Inv, Debits
<1>5. Ledger!Left(m, sats) = account.remaining
  <2>1. CASE m.outpoint \in DOMAIN accounts
    BY <2>1, <1>4 DEF Ledger!Left
  <2>2. CASE m.outpoint \notin DOMAIN accounts
    BY <2>2 DEF Ledger!Left, Credit
  <2> QED
    BY <2>1, <2>2
<1>6. \A d \in debits : d.key # k
  BY <1>3 DEF Inv, LedgerInv, KeyInv
<1>7. \A d \in debits : d.claim.nonce # m.nonce
  BY <1>3, NonceIsNew
<1>8. \A d \in debits : d.claim.outpoint = m.outpoint => d.claim.payer = m.payer
  BY <1>2, <1>4 DEF Inv, LedgerInv, PayerInv
<1>9. debits' = debits \cup {[key |-> k, claim |-> m]}
  <2>1. e.key = k /\ e.claim = m
    OBVIOUS
  <2> HIDE DEF e, k, m, last
  <2> QED
    BY <1>1, <2>1
<1>10. credit' = Ledger!Set(credit, m.outpoint, account.remaining - m.amount)
  <2>1. [account EXCEPT !.remaining = n].remaining = n
    BY <1>1 DEF Account
  <2> DEFINE left == [account EXCEPT !.remaining = n]
             o == m.outpoint
  <2>2. /\ DOMAIN accounts' = DOMAIN accounts \cup {o}
        /\ accounts'[o] = left
        /\ \A x \in DOMAIN accounts : x # o => accounts'[x] = accounts[x]
    BY <1>1 DEF Set
  <2>3. left.remaining = n
    BY <2>1
  <2> HIDE DEF left, n, o
  <2>4. credit' = [x \in DOMAIN accounts \cup {o} |-> IF x = o THEN n ELSE accounts[x].remaining]
    BY <2>2, <2>3
  <2>5. Ledger!Set(credit, o, n)
          = [x \in DOMAIN accounts \cup {o} |-> IF x = o THEN n ELSE accounts[x].remaining]
    BY DEF Ledger!Set
  <2> QED
    BY <2>4, <2>5 DEF n, o
<1>11. Ledger!Debit(k, m, sats)
  BY <1>2, <1>3, <1>5, <1>6, <1>7, <1>8, <1>9, <1>10
     DEF Ledger!Debit, Ledger!NonceUnused, Ledger!Enough
<1> QED
  BY <1>1, <1>2, <1>11 DEF Ledger!LedgerNext

(* Only a debit touches accounts and entries.                              *)
LEMMA OnlyDebits ==
  ASSUME [Next]_vars
  PROVE  \/ UNCHANGED <<accounts, entries>>
         \/ \E c \in Call : \E sats \in Sats : Debits(c, sats)
<1>1. ASSUME NEW c \in Call, Inspect(c)
      PROVE  UNCHANGED ledgerVars \/ \E sats \in Sats : Debits(c, sats)
  BY <1>1, InspectCases
<1> QED
  BY <1>1 DEF Next, vars, ledgerVars, Tick, Receive, Start, Consume, Return

(* verify over the process-local maps, with nonces forgotten at expiry and *)
(* the state read before two awaits, implements the ledger: one debit for  *)
(* an invoice and for a key, one payer for an output, and no overdraft.    *)
THEOREM RefinesLedger == Spec => ImplementsLedger
<1>1. Init => Ledger!LedgerInit
  <2> SUFFICES ASSUME Init PROVE Ledger!LedgerInit
    OBVIOUS
  <2>1. DOMAIN entries = {} /\ DOMAIN accounts = {}
    BY DEF Init, Empty
  <2>2. [o \in DOMAIN accounts |-> accounts[o].remaining] = Ledger!Empty
    BY <2>1 DEF Ledger!Empty
  <2> QED
    BY <2>1, <2>2 DEF Ledger!LedgerInit
<1>2. ASSUME Inv, [Next]_vars
      PROVE  [Ledger!LedgerNext]_Ledger!ledger
  <2>1. CASE UNCHANGED <<entries, accounts>>
    BY <2>1 DEF Ledger!ledger
  <2>2. CASE \E c \in Call : \E sats \in Sats : Debits(c, sats)
    <3>1. Ledger!LedgerNext
      BY <1>2, <2>2, DebitMaps
    <3> QED
      BY <3>1
  <2> QED
    BY <1>2, <2>1, <2>2, OnlyDebits
<1> QED
  BY <1>1, <1>2, Invariance, PTL DEF Spec, ImplementsLedger, Ledger!LedgerSpec
-----------------------------------------------------------------------------
(* Numbers.  A set of naturals has a least one: what induction over the    *)
(* naturals is done with below, by the least counterexample.               *)
LEMMA LeastNumber ==
  ASSUME NEW S, S \subseteq Nat, S # {}
  PROVE  \E m \in S : \A k \in S : m <= k
<1> DEFINE Less == OpToRel(<, Nat)
<1>1. \A p \in Nat \X Nat : p[1] < p[2] => p \in Less
  BY DEF OpToRel
<1>2. \E m \in S : \A k \in S : ~(<<k, m>> \in Less)
  BY WFMin, NatLessThanWellFounded, Zenon
<1> HIDE DEF Less
<1> PICK m \in S : \A k \in S : ~(<<k, m>> \in Less)
  BY <1>2
<1>3. \A k \in S : k \in Nat /\ m \in Nat /\ ~(k < m)
  BY <1>1
<1> QED
  BY <1>3

(* Max of the community modules, over a part of an initial segment.        *)
LEMMA GreatestIndex ==
  ASSUME NEW k \in Nat, NEW s, s \subseteq 1..k, s # {}
  PROVE  Max(s) \in s /\ \A i \in s : i <= Max(s)
<1> DEFINE Bounds == {m \in Nat : \A i \in s : i <= m}
<1>0. \A i \in s : i \in 1..k
  OBVIOUS
<1>1. k \in Bounds /\ Bounds \subseteq Nat
  OBVIOUS
<1> PICK m \in Bounds : \A b \in Bounds : m <= b
  BY <1>1, LeastNumber
<1>2. m \in s
  <2> SUFFICES ASSUME m \notin s PROVE FALSE
    OBVIOUS
  <2>1. \A i \in s : 1 <= i /\ i <= m /\ i # m
    BY <1>0
  <2> PICK i \in s : TRUE
    OBVIOUS
  <2>2. m - 1 \in Nat
    BY <1>0, <2>1
  <2>3. \A j \in s : j <= m - 1
    BY <1>0, <2>1
  <2>4. m - 1 \in Bounds
    BY <2>2, <2>3
  <2> QED
    BY <2>2, <2>4
<1>3. \A i \in s : m >= i
  BY <1>0
<1>4. \E x \in s : \A y \in s : x >= y
  BY <1>2, <1>3
<1>5. Max(s) \in s /\ \A y \in s : Max(s) >= y
  BY <1>4, Zenon DEF Max
<1> QED
  BY <1>0, <1>5

(* Spent as the fold it is: over the indexes of the entries, the last first *)
(* to be taken off.                                                        *)
Total(sum, e, o) == IF e.claim.outpoint = o THEN sum + e.claim.amount ELSE sum

SpentIn(q, o) == FoldLeft(LAMBDA sum, e : Total(sum, e, o), 0, q)

Rest(s) == s \ {Max(s)}

SumStep(F, q, o, S) ==
  [s \in SUBSET S |-> IF s = {} THEN 0 ELSE Total(F[Rest(s)], q[Max(s)], o)]

Sums(q, o) == CHOOSE F : F = SumStep(F, q, o, DOMAIN q)

LEMMA SpentIsFold ==
  ASSUME NEW q, NEW o
  PROVE  SpentIn(q, o) = Sums(q, o)[DOMAIN q]
BY DEF SpentIn, Sums, SumStep, Rest, FoldLeft, MapThenFoldSet

LEMMA SpentOfEntries ==
  ASSUME NEW o
  PROVE  Spent(o) = SpentIn(entries, o)
BY DEF Spent, SpentIn, Total

LEMMA RestIsSmaller ==
  ASSUME NEW k \in Nat, NEW s, s \subseteq 1..k, s # {}
  PROVE  k # 0 /\ Rest(s) \subseteq 1..(k - 1) /\ Max(s) \in 1..k
<1>1. Max(s) \in s /\ \A i \in s : i <= Max(s)
  BY GreatestIndex
<1>2. \A i \in s : i \in 1..k
  OBVIOUS
<1>3. \A i \in Rest(s) : i \in 1..(k - 1)
  <2> TAKE i \in Rest(s)
  <2>1. i \in 1..k /\ i <= Max(s) /\ i # Max(s) /\ Max(s) \in 1..k
    BY <1>1, <1>2 DEF Rest
  <2> QED
    BY <2>1
<1>4. Max(s) \in 1..k
  BY <1>1, <1>2
<1>5. k # 0
  BY <1>4
<1> QED
  BY <1>3, <1>4, <1>5

(* The sums over the subsets of 1..k are defined, one k after the other.   *)
LEMMA SumsDefined ==
  ASSUME NEW q, NEW o, NEW n \in Nat, DOMAIN q = 1..n
  PROVE  Sums(q, o) = SumStep(Sums(q, o), q, o, 1..n)
<1>1. \A k \in 0..n : \E F : F = SumStep(F, q, o, 1..k)
  <2> DEFINE Bad == {k \in 0..n : ~\E F : F = SumStep(F, q, o, 1..k)}
  <2> SUFFICES ASSUME Bad # {} PROVE FALSE
    OBVIOUS
  <2>0. Bad \subseteq Nat
    OBVIOUS
  <2> PICK k \in Bad : \A j \in Bad : k <= j
    BY <2>0, LeastNumber
  <2>1. CASE k = 0
    <3> DEFINE F == [s \in SUBSET (1..k) |-> 0]
    <3>1. \A s \in SUBSET (1..k) : s = {}
      BY <2>1
    <3>2. F = SumStep(F, q, o, 1..k)
      BY <3>1 DEF SumStep
    <3> QED
      BY <3>2
  <2>2. CASE k # 0
    <3>1. k - 1 \in 0..n /\ ~(k <= k - 1) /\ k \in Nat
      BY <2>2
    <3>2. k - 1 \notin Bad
      BY <3>1
    <3> PICK F : F = SumStep(F, q, o, 1..(k - 1))
      BY <3>1, <3>2
    <3> DEFINE G == SumStep(F, q, o, 1..k)
    <3>3. ASSUME NEW s \in SUBSET (1..k), s # {}
          PROVE  G[Rest(s)] = F[Rest(s)]
      <4>1. Rest(s) \in SUBSET (1..(k - 1))
        BY <3>1, <3>3, RestIsSmaller
      <4>2. Rest(s) \in SUBSET (1..k)
        BY DEF Rest
      <4> QED
        BY <4>1, <4>2 DEF SumStep
    <3>4. G = SumStep(G, q, o, 1..k)
      BY <3>3 DEF SumStep
    <3> QED
      BY <3>4
  <2> QED
    BY <2>1, <2>2
<1> DEFINE P(F) == F = SumStep(F, q, o, DOMAIN q)
<1>2. \E F : P(F)
  BY <1>1
<1>3. Sums(q, o) = CHOOSE F : P(F)
  BY DEF Sums
<1> HIDE DEF P
<1>4. P(Sums(q, o))
  BY <1>2, <1>3, Zenon
<1> QED
  BY <1>4 DEF P

(* The sum over no entries is 0.                                           *)
LEMMA SpentNothing ==
  ASSUME NEW q, NEW o, DOMAIN q = {}
  PROVE  SpentIn(q, o) = 0
<1>1. DOMAIN q = 1..0 /\ {} \in SUBSET (1..0)
  OBVIOUS
<1>2. Sums(q, o) = SumStep(Sums(q, o), q, o, 1..0)
  BY <1>1, SumsDefined
<1>3. Sums(q, o)[{}] = 0
  BY <1>1, <1>2 DEF SumStep
<1> QED
  BY <1>3, SpentIsFold

(* The sum over the entries and one more.                                  *)
LEMMA SpentAppended ==
  ASSUME NEW q, NEW p, NEW o, NEW n \in Nat, DOMAIN q = 1..n, DOMAIN p = 1..(n + 1),
         \A i \in 1..n : p[i] = q[i]
  PROVE  SpentIn(p, o) = Total(SpentIn(q, o), p[n + 1], o)
<1> DEFINE F == Sums(q, o)
           G == Sums(p, o)
<1>1. F = SumStep(F, q, o, 1..n) /\ G = SumStep(G, p, o, 1..(n + 1))
  BY SumsDefined
<1> HIDE DEF F, G
<1>2. \A k \in 0..n : \A s \in SUBSET (1..k) : G[s] = F[s]
  <2> DEFINE Bad == {k \in 0..n : \E s \in SUBSET (1..k) : G[s] # F[s]}
  <2> SUFFICES ASSUME Bad # {} PROVE FALSE
    OBVIOUS
  <2>0. Bad \subseteq Nat
    OBVIOUS
  <2> PICK k \in Bad : \A j \in Bad : k <= j
    BY <2>0, LeastNumber
  <2> PICK s \in SUBSET (1..k) : G[s] # F[s]
    OBVIOUS
  <2>1. s \in SUBSET (1..n) /\ s \in SUBSET (1..(n + 1)) /\ k \in Nat
    OBVIOUS
  <2>2. /\ F[s] = IF s = {} THEN 0 ELSE Total(F[Rest(s)], q[Max(s)], o)
        /\ G[s] = IF s = {} THEN 0 ELSE Total(G[Rest(s)], p[Max(s)], o)
    BY <1>1, <2>1 DEF SumStep
  <2>3. s # {}
    BY <2>2
  <2>4. k # 0 /\ Rest(s) \in SUBSET (1..(k - 1)) /\ Max(s) \in 1..k
    BY <2>1, <2>3, RestIsSmaller
  <2>5. k - 1 \in 0..n /\ ~(k <= k - 1) /\ Max(s) \in 1..n
    BY <2>1, <2>4
  <2>6. G[Rest(s)] = F[Rest(s)]
    BY <2>4, <2>5
  <2>7. p[Max(s)] = q[Max(s)]
    BY <2>5
  <2> QED
    BY <2>2, <2>6, <2>7
<1>3. n + 1 \in Nat /\ n + 1 \in 1..(n + 1) /\ n \in 0..n
  OBVIOUS
<1>4. Max(1..(n + 1)) = n + 1
  <2>1. Max(1..(n + 1)) \in 1..(n + 1) /\ \A i \in 1..(n + 1) : i <= Max(1..(n + 1))
    <3>1. 1..(n + 1) # {}
      BY <1>3
    <3> QED
      BY <1>3, <3>1, GreatestIndex
  <2>3. n + 1 <= Max(1..(n + 1))
    BY <1>3, <2>1
  <2> HIDE DEF Max
  <2> QED
    BY <2>1, <2>3
<1>5. Rest(1..(n + 1)) = 1..n
  BY <1>4 DEF Rest
<1>6. G[1..(n + 1)] = Total(G[1..n], p[n + 1], o)
  BY <1>1, <1>3, <1>4, <1>5 DEF SumStep
<1>7. G[1..n] = F[1..n]
  BY <1>2, <1>3
<1> QED
  BY <1>6, <1>7, SpentIsFold DEF F, G
-----------------------------------------------------------------------------
(* An output has an account as soon as it is debited, and its value is what*)
(* is left and what was debited.                                           *)
CreditInv(o) ==
  /\ SpentIn(entries, o) \in Int
  /\ o \in DOMAIN accounts =>
       accounts[o].remaining + SpentIn(entries, o) = accounts[o].value
  /\ o \notin DOMAIN accounts => SpentIn(entries, o) = 0

DebitedInv == \A o \in Outpoint : CreditInv(o)

(* A debit takes from one output what it enters for it; of the others it   *)
(* takes nothing.                                                          *)
LEMMA DebitKeepsCredit ==
  ASSUME Inv, DebitedInv, NEW c \in Call, NEW sats, Debits(c, sats)
  PROVE  DebitedInv'
<1> DEFINE k == req[c].key
           m == req[c].claim
           account == Credit(m, sats)
           n == account.remaining - m.amount
           e == [key |-> k, claim |-> m, value |-> account.value, remaining |-> n]
           left == [account EXCEPT !.remaining = n]
<1>1. /\ m \in Claim /\ account \in Account /\ n \in Nat
      /\ accounts' = Set(accounts, m.outpoint, left)
      /\ entries' = Append(entries, e)
      /\ entries' \in Seq(Entry)
  BY DebitWrites
<1>2. account.value = sats /\ sats \in Sats
  BY DEF Debits
<1>3. entries \in Seq(Entry) /\ Maps(accounts, Outpoint, Account)
  BY DEF Inv, TypeOK
<1>4. m.amount \in Int /\ account.remaining \in Int /\ account.value \in Int
      /\ m.outpoint \in Outpoint
  BY <1>1, ClaimType DEF Account
<1>5. left.remaining = n /\ left.value = account.value
  BY <1>1 DEF Account
<1>6. IF m.outpoint \in DOMAIN accounts THEN account = accounts[m.outpoint]
      ELSE account.remaining = account.value
  <2>1. CASE m.outpoint \in DOMAIN accounts
    BY <2>1, <1>1, <1>2, CreditType DEF Inv
  <2>2. CASE m.outpoint \notin DOMAIN accounts
    BY <2>2 DEF Credit
  <2> QED
    BY <2>1, <2>2
<1>7. e.claim = m
  OBVIOUS
<1> HIDE DEF k, m, account, e, left
<1>8. /\ DOMAIN accounts' = DOMAIN accounts \cup {m.outpoint}
      /\ accounts'[m.outpoint] = left
      /\ \A x \in DOMAIN accounts : x # m.outpoint => accounts'[x] = accounts[x]
  BY <1>1 DEF Set
<1>9. ASSUME NEW o \in Outpoint
      PROVE  SpentIn(entries', o) = Total(SpentIn(entries, o), e, o)
  <2>1. /\ Len(entries) \in Nat /\ DOMAIN entries = 1..Len(entries)
        /\ DOMAIN entries' = 1..(Len(entries) + 1)
        /\ \A i \in 1..Len(entries) : entries'[i] = entries[i]
        /\ entries'[Len(entries) + 1] = e
    BY <1>1, <1>3
  <2> QED
    BY <2>1, SpentAppended
<1>10. ASSUME NEW o \in Outpoint PROVE CreditInv(o)'
  <2>1. /\ SpentIn(entries, o) \in Int
        /\ o \in DOMAIN accounts =>
             accounts[o].remaining + SpentIn(entries, o) = accounts[o].value
        /\ o \notin DOMAIN accounts => SpentIn(entries, o) = 0
    BY DEF DebitedInv, CreditInv
  <2>2. CASE o = m.outpoint
    <3>1. SpentIn(entries', o) = SpentIn(entries, o) + m.amount
      BY <2>2, <1>7, <1>9 DEF Total
    <3>2. accounts'[o].remaining = account.remaining - m.amount
          /\ accounts'[o].value = account.value
      BY <2>2, <1>5, <1>8
    <3>3. account.remaining + SpentIn(entries, o) = account.value
      BY <2>1, <2>2, <1>4, <1>6
    <3>4. SpentIn(entries', o) \in Int
          /\ accounts'[o].remaining + SpentIn(entries', o) = accounts'[o].value
      BY <2>1, <3>1, <3>2, <3>3, <1>4
    <3>5. o \in DOMAIN accounts'
      BY <2>2, <1>8
    <3> QED
      BY <3>4, <3>5 DEF CreditInv
  <2>3. CASE o # m.outpoint
    <3>1. SpentIn(entries', o) = SpentIn(entries, o)
      BY <2>3, <1>7, <1>9 DEF Total
    <3>2. /\ o \in DOMAIN accounts' <=> o \in DOMAIN accounts
          /\ o \in DOMAIN accounts => accounts'[o] = accounts[o]
      BY <2>3, <1>8
    <3> QED
      BY <2>1, <3>1, <3>2 DEF CreditInv
  <2> QED
    BY <2>2, <2>3
<1> QED
  BY <1>10 DEF DebitedInv

(* Value is what is left and what was debited in every reachable state.    *)
LEMMA DebitedInvariance == Spec => []DebitedInv
<1>1. Init => DebitedInv
  <2> SUFFICES ASSUME Init, NEW o \in Outpoint PROVE CreditInv(o)
    BY DEF DebitedInv
  <2>1. DOMAIN entries = {} /\ DOMAIN accounts = {}
    BY DEF Init, Empty
  <2>2. SpentIn(entries, o) = 0
    BY <2>1, SpentNothing
  <2> QED
    BY <2>1, <2>2 DEF CreditInv
<1>2. ASSUME Inv, DebitedInv, [Next]_vars
      PROVE  DebitedInv'
  <2>1. CASE UNCHANGED <<accounts, entries>>
    BY <1>2, <2>1 DEF DebitedInv, CreditInv
  <2>2. CASE \E c \in Call : \E sats \in Sats : Debits(c, sats)
    BY <1>2, <2>2, DebitKeepsCredit
  <2> QED
    BY <1>2, <2>1, <2>2, OnlyDebits
<1> QED
  BY <1>1, <1>2, Invariance, PTL DEF Spec

(* Nothing is debited from an output that its account does not lose, and   *)
(* the account loses nothing else, over all the requests there ever were.  *)
THEOREM CreditStaysConserved == Spec => []CreditConserved
<1>1. Inv /\ DebitedInv => CreditConserved
  <2> SUFFICES ASSUME Inv, DebitedInv, NEW o \in DOMAIN accounts
               PROVE  accounts[o].remaining + Spent(o) = accounts[o].value
    BY DEF CreditConserved
  <2>1. o \in Outpoint
    BY DEF Inv, TypeOK, Maps
  <2> QED
    BY <2>1, SpentOfEntries DEF DebitedInv, CreditInv
<1> QED
  BY <1>1, Invariance, DebitedInvariance, PTL

(* All the debits of an output together stay within its value.             *)
THEOREM NeverOverdrawn ==
  Spec => [](\A o \in DOMAIN accounts : Spent(o) \in Int /\ Spent(o) <= accounts[o].value)
<1> DEFINE Covered ==
             \A o \in DOMAIN accounts : Spent(o) \in Int /\ Spent(o) <= accounts[o].value
<1>1. Inv /\ DebitedInv => Covered
  <2> SUFFICES ASSUME Inv, DebitedInv, NEW o \in DOMAIN accounts
               PROVE  Spent(o) \in Int /\ Spent(o) <= accounts[o].value
    OBVIOUS
  <2>1. o \in Outpoint /\ accounts[o].remaining \in Nat /\ accounts[o].value \in Nat
    BY DEF Inv, TypeOK, Maps, Account
  <2>2. /\ SpentIn(entries, o) \in Int
        /\ accounts[o].remaining + SpentIn(entries, o) = accounts[o].value
    BY <2>1 DEF DebitedInv, CreditInv
  <2>3. Spent(o) = SpentIn(entries, o)
    BY SpentOfEntries
  <2> HIDE DEF Spent, SpentIn
  <2> QED
    BY <2>1, <2>2, <2>3
<1> HIDE DEF Covered
<1>2. Spec => []Covered
  BY <1>1, Invariance, DebitedInvariance, PTL
<1> QED
  BY <1>2 DEF Covered
-----------------------------------------------------------------------------
(* No two entries of the ledger are of one invoice or of one key.          *)
OneEntry ==
  \A i, j \in DOMAIN entries :
    \/ entries[i].key = entries[j].key
    \/ entries[i].claim.nonce = entries[j].claim.nonce
    => i = j

(* However often and with whatever keys, payers and outputs an invoice is  *)
(* presented, and although its nonce is forgotten when it expires: it is   *)
(* debited once, and so is a key.                                          *)
THEOREM DebitedOnce == Spec => []OneEntry
<1>1. Init => OneEntry
  BY DEF Init, OneEntry
<1>2. ASSUME Inv, OneEntry, [Next]_vars
      PROVE  OneEntry'
  <2>1. CASE UNCHANGED <<accounts, entries>>
    BY <1>2, <2>1 DEF OneEntry
  <2>2. ASSUME NEW c \in Call, NEW sats, Debits(c, sats)
        PROVE  OneEntry'
    <3> DEFINE k == req[c].key
               m == req[c].claim
               account == Credit(m, sats)
               n == account.remaining - m.amount
               e == [key |-> k, claim |-> m, value |-> account.value, remaining |-> n]
               last == Len(entries) + 1
    <3>0. /\ DOMAIN entries' = DOMAIN entries \cup {last}
          /\ \A i \in DOMAIN entries : entries'[i] = entries[i]
          /\ entries'[last] = e
      BY <1>2, <2>2, DebitWrites
    <3>1. entries'[last].key = k /\ entries'[last].claim = m
      BY <3>0
    <3>2. pc[c] = "funding" /\ k \notin DOMAIN idempotency
      BY <1>2, <2>2 DEF Debits, Inv, RequestInv, Running
    <3>3. \A i \in DOMAIN entries : entries[i].key # k /\ entries[i].claim.nonce # m.nonce
      BY <1>2, <3>2, NonceIsNew DEF Inv, LedgerInv, KeyInv
    <3> HIDE DEF k, m, last, e
    <3> QED
      BY <1>2, <3>0, <3>1, <3>3 DEF OneEntry
  <2> QED
    BY <1>2, <2>1, <2>2, OnlyDebits
<1> QED
  BY <1>1, <1>2, Invariance, PTL DEF Spec
=============================================================================
