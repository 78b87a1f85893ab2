---------------------- MODULE SettlementGatewayProofs ----------------------
(***************************************************************************)
(* Proofs about SettlementGateway for any number of requests, invoices,    *)
(* resources, transactions and losses of the store, and any tolerance,     *)
(* skew, validity, outage and reorganisation depth within the assumptions. *)
(* The inductive invariant Inv has three parts: types; what holds of the   *)
(* store and the chain (StoreInv), above all that the invoices of the      *)
(* present store are fenced off from the payments of older ones; and what  *)
(* each request has established before each of its awaits (CallInv).       *)
(***************************************************************************)
EXTENDS SettlementGateway, TLAPS

(* The unlocks before the store was lost.                                  *)
Old == {u \in unlocked : u.epoch < epoch}

Seen(t) == ObservedAt(chain[t])

(* Evidence for t that no reorganisation or eviction can change any more.  *)
Anchored(t) ==
  /\ Seen(t) > 0
  /\ \/ chain[t].final /\ chain[t].seen > 0
     \/ chain[t].at = "block" /\ chain[t].mined + ReorgDepth <= now

(* The evidence for t, when there is any, is not older than the invoice.   *)
Recent(t, r) == Seen(t) > 0 => Seen(t) >= r.issuedAt - Tolerance

ChainInv ==
  \A t \in Txid :
    /\ chain[t].seen <= now /\ chain[t].mined <= now
    /\ chain[t].at = "absent" => ~chain[t].final

UpTo(n) ==
  /\ \A r \in rows : r.index < n
  /\ \A i \in 0 .. n - 1 : \E r \in rows : r.index = i

IndexInv == \E n \in Nat : UpTo(n)

HashInv ==
  /\ \A r \in rows : r.hash \in drawn /\ r.issuedAt <= now
  /\ \A r, s \in rows : r.hash = s.hash => r = s

(* What a paid row was paid with and when.                                 *)
PaidInv ==
  /\ \A r \in rows : \A t \in r.paidBy :
       /\ r.paidBy = {t} /\ Pays(t, r) /\ Recent(t, r)
       /\ r.issuedAt <= r.settledAt /\ ~Expired(r, r.settledAt)
  /\ \A r, s \in rows : \A t \in r.paidBy : t \in s.paidBy => r = s

UnlockInv ==
  \A u \in unlocked :
    /\ u.epoch <= epoch
    /\ u.epoch = epoch => \E r \in rows : r.hash = u.hash /\ r.paidBy = {u.txid}

(* Every invoice of the new store is fenced off from the old payments.     *)
FenceInv ==
  \A u \in Old :
    /\ Anchored(u.txid)
    /\ Seen(u.txid) + Tolerance + Skew < now
    /\ \A r \in rows : Seen(u.txid) + Tolerance < r.issuedAt

StoreInv ==
  /\ ChainInv /\ IndexInv /\ HashInv /\ PaidInv /\ UnlockInv /\ FenceInv
  /\ PaidOnce /\ SettlesOneInvoice

(* The row a request read is still there; it may have been paid since.     *)
Linked(c, r) ==
  /\ r.hash = req[c].hash /\ snap[c].hash = r.hash
  /\ snap[c].resource = r.resource /\ snap[c].index = r.index
  /\ snap[c].issuedAt = r.issuedAt
  /\ snap[c].paidBy # {} => r.paidBy = snap[c].paidBy

OfferOK(c) ==
  pc[c] = "offer" =>
    /\ req[c] \in OfferRequest
    /\ clock[c] <= now
    /\ \A u \in Old : Seen(u.txid) + Tolerance < clock[c]

RowOK(c) ==
  /\ pc[c] = "lookup" => req[c] \in ProofRequest /\ snap[c] = NoRow
  /\ pc[c] \in {"check", "query", "commit"} =>
       /\ req[c] \in ProofRequest /\ snap[c] \in Row
       /\ \E r \in rows : Linked(c, r)

CheckedOK(c) ==
  pc[c] \in {"query", "commit"} =>
    /\ Fits(snap[c], req[c])
    /\ snap[c].paidBy \in {{}, {req[c].txid}}
    /\ snap[c].issuedAt <= clock[c]
    /\ snap[c].paidBy = {} => ~Expired(snap[c], clock[c])

EvidenceOK(c) ==
  pc[c] = "commit" =>
    /\ Pays(req[c].txid, snap[c])
    /\ Recent(req[c].txid, snap[c])
    /\ \A u \in Old : u.txid # req[c].txid

UnlockedOK(c) ==
  code[c] = "UNLOCKED" =>
    \E r \in rows :
      /\ r.hash = req[c].hash
      /\ r.resource = req[c].resource
      /\ r.paidBy = {req[c].txid}
      /\ req[c] \in ProofRequest
      /\ Pays(req[c].txid, r)

AnswerOK(c) ==
  /\ pc[c] # "done" => code[c] = "NONE"
  /\ snap[c] # NoRow /\ snap[c].paidBy = {req[c].txid} => code[c] \notin Denied

CallOK(c) ==
  /\ OfferOK(c) /\ RowOK(c) /\ CheckedOK(c) /\ EvidenceOK(c)
  /\ UnlockedOK(c) /\ AnswerOK(c)

CallInv == \A c \in Call : CallOK(c)

Inv == TypeOK /\ StoreInv /\ CallInv
-----------------------------------------------------------------------------
(* MAX + 1 over an initial segment of the naturals is its length.          *)
LEMMA NextIndexIsLength ==
  ASSUME TypeOK, NEW n \in Nat, UpTo(n)
  PROVE  NextIndex(rows) = n
<1> DEFINE I == {r.index : r \in rows}
           IsMax(m) == \A r \in rows : r.index <= m
<1>1. \A r \in rows : r.index \in Nat /\ r.index < n
  BY DEF TypeOK, Row, UpTo
<1>2. CASE rows = {}
  <2>1. n = 0
    BY <1>2 DEF UpTo
  <2> QED
    BY <1>2, <2>1 DEF NextIndex
<1>3. CASE rows # {}
  <2>1. n > 0 /\ n - 1 \in 0 .. n - 1
    BY <1>3, <1>1
  <2>2. n - 1 \in I /\ IsMax(n - 1)
    BY <2>1, <1>1 DEF UpTo
  <2>3. \A m \in I : IsMax(m) => m = n - 1
    BY <2>2, <1>1, <2>1
  <2> DEFINE M == CHOOSE m \in I : IsMax(m)
  <2>4. M = n - 1
    BY <2>2, <2>3
  <2>5. NextIndex(rows) = 1 + M
    BY <1>3, Zenon DEF NextIndex
  <2> HIDE DEF M
  <2> QED
    BY <2>4, <2>5, <2>1
<1> QED
  BY <1>2, <1>3

(* The time Chronik gives for a transaction is a time that has passed.     *)
LEMMA SeenType ==
  ASSUME ChronikTypeOK, ChainInv, NEW t \in Txid
  PROVE  Seen(t) \in Nat /\ Seen(t) <= now
BY DEF ChronikTypeOK, ChainInv, Sighting, Seen, ObservedAt

(* What one step of the chain can do to the evidence: it appears now, it   *)
(* disappears, or it stays; anchored evidence stays.                       *)
LEMMA ChronikStep ==
  ASSUME ChronikTypeOK, ChainInv, ChronikNext
  PROVE  /\ ChronikTypeOK' /\ ChainInv' /\ now <= now'
         /\ \A t \in Txid : Seen(t)' \in {Seen(t), 0, now}
         /\ \A t \in Txid : Anchored(t) => Anchored(t)' /\ Seen(t)' = Seen(t)
<1> USE ChronikAssumption DEF ChronikTypeOK
<1>1. CASE Tick
  BY <1>1 DEF Tick, ChainInv, Sighting, Seen, ObservedAt, Anchored
<1>2. ASSUME NEW t \in Txid,
             Broadcast(t) \/ Finalize(t) \/ Mine(t) \/ Reorg(t) \/ Evict(t)
      PROVE  /\ now' = now
             /\ chain' \in [Txid -> Sighting]
             /\ chain'[t].seen <= now /\ chain'[t].mined <= now
             /\ chain'[t].at = "absent" => ~chain'[t].final
             /\ \A x \in Txid \ {t} : chain'[x] = chain[x]
             /\ Seen(t)' \in {Seen(t), 0, now}
             /\ Anchored(t) => Anchored(t)' /\ Seen(t)' = Seen(t)
  <2> DEFINE s == chain[t]
             Rec(a, f, n, m) == [at |-> a, final |-> f, seen |-> n, mined |-> m]
  <2>1. s \in Sighting /\ now \in Nat /\ now' = now
    BY <1>2 DEF Broadcast, Finalize, Mine, Reorg, Evict
  <2>2. /\ s.at \in {"absent", "mempool", "block"} /\ s.final \in BOOLEAN
        /\ s.seen \in Nat /\ s.mined \in Nat
        /\ s.seen <= now /\ s.mined <= now /\ (s.at = "absent" => ~s.final)
    BY <2>1 DEF ChainInv, Sighting
  <2>3. /\ chain' = [chain EXCEPT ![t] = chain'[t]]
        /\ \/ s.at # "block" /\ ~s.final /\ chain'[t] = Rec("absent", FALSE, 0, 0)
           \/ s.at # "block" /\ ~s.final /\ chain'[t] = Rec("mempool", FALSE, now, 0)
           \/ s.at = "mempool" /\ chain'[t] = Rec("mempool", TRUE, s.seen, s.mined)
           \/ s.at # "block" /\ chain'[t] = Rec("block", s.final, s.seen, now)
           \/ /\ s.at = "block" /\ now < s.mined + ReorgDepth
              /\ chain'[t] = Rec("mempool", s.final, s.seen, 0)
    <3>1. CASE Broadcast(t)
      BY <3>1, <2>1, <2>2 DEF Broadcast, Unseen
    <3>2. CASE Finalize(t)
      BY <3>2, <2>1, <2>2 DEF Finalize, Sighting
    <3>3. CASE Mine(t)
      BY <3>3, <2>1, <2>2 DEF Mine, Sighting
    <3>4. CASE Reorg(t)
      BY <3>4, <2>1, <2>2 DEF Reorg, Sighting
    <3>5. CASE Evict(t)
      BY <3>5, <2>1, <2>2 DEF Evict, Unseen
    <3> QED
      BY <1>2, <3>1, <3>2, <3>3, <3>4, <3>5
  <2>4. /\ chain'[t] \in Sighting
        /\ chain'[t].seen <= now /\ chain'[t].mined <= now
        /\ chain'[t].at = "absent" => ~chain'[t].final
    <3>1. /\ Rec("absent", FALSE, 0, 0) \in Sighting
          /\ Rec("mempool", FALSE, now, 0) \in Sighting
          /\ Rec("mempool", TRUE, s.seen, s.mined) \in Sighting
      BY <2>1, <2>2 DEF Sighting
    <3>2. /\ Rec("block", s.final, s.seen, now) \in Sighting
          /\ Rec("mempool", s.final, s.seen, 0) \in Sighting
      BY <2>1, <2>2 DEF Sighting
    <3>3. chain'[t] \in Sighting
      <4> HIDE DEF Rec
      <4> QED
        BY <2>3, <3>1, <3>2
    <3> QED
      BY <2>1, <2>2, <2>3, <3>3
  <2>5. chain' \in [Txid -> Sighting] /\ \A x \in Txid \ {t} : chain'[x] = chain[x]
    BY <2>3, <2>4
  <2>6. Seen(t)' \in {Seen(t), 0, now}
    BY <2>1, <2>2, <2>3 DEF Seen, ObservedAt
  <2>7. Anchored(t) => Anchored(t)' /\ Seen(t)' = Seen(t)
    <3> USE <2>1, <2>2 DEF Anchored, Seen, ObservedAt
    <3>1. CASE s.final /\ s.seen > 0
      <4>1. chain'[t].final /\ chain'[t].seen = s.seen
        BY <3>1, <2>3
      <4> QED
        BY <3>1, <4>1
    <3>2. CASE s.at = "block" /\ s.mined + ReorgDepth <= now
      <4>1. FALSE
        BY <3>2, <2>3
      <4> QED
        BY <4>1
    <3> QED
      BY <3>1, <3>2
  <2> QED
    BY <2>1, <2>4, <2>5, <2>6, <2>7
<1>3. ASSUME NEW t \in Txid,
             Broadcast(t) \/ Finalize(t) \/ Mine(t) \/ Reorg(t) \/ Evict(t)
      PROVE  /\ ChronikTypeOK' /\ ChainInv' /\ now <= now'
             /\ \A x \in Txid : Seen(x)' \in {Seen(x), 0, now}
             /\ \A x \in Txid : Anchored(x) => Anchored(x)' /\ Seen(x)' = Seen(x)
  <2>1. \A x \in Txid \ {t} : Seen(x)' = Seen(x) /\ (Anchored(x) => Anchored(x)')
    BY <1>2, <1>3 DEF Seen, Anchored
  <2>2. ChronikTypeOK' /\ ChainInv' /\ now <= now'
    BY <1>2, <1>3 DEF ChainInv
  <2> QED
    BY <1>2, <1>3, <2>1, <2>2
<1> QED
  BY <1>1, <1>3 DEF ChronikNext
-----------------------------------------------------------------------------
(* What a step of one request leaves alone besides its own variables.      *)
shared == <<chronikVars, rows, drawn, epoch, unlocked>>

Idle(d) ==
  /\ pc'[d] = pc[d] /\ req'[d] = req[d] /\ clock'[d] = clock[d]
  /\ snap'[d] = snap[d] /\ code'[d] = code[d]

(* What is said of the store and the chain depends on nothing else.        *)
LEMMA StoreUnchanged ==
  ASSUME StoreInv, UNCHANGED shared
  PROVE  StoreInv'
<1> USE DEF StoreInv, shared, chronikVars
<1>1. ChainInv' /\ IndexInv' /\ HashInv'
  BY DEF ChainInv, IndexInv, UpTo, HashInv
<1>2. PaidInv'
  BY DEF PaidInv, Pays, PayTo, Recent, Seen, Expired
<1>3. UnlockInv' /\ FenceInv'
  BY DEF UnlockInv, FenceInv, Old, Anchored, Seen
<1>4. PaidOnce' /\ SettlesOneInvoice'
  BY DEF PaidOnce, SettlesOneInvoice
<1> QED
  BY <1>1, <1>2, <1>3, <1>4

(* Rows are never dropped, and of a row that is there only an unpaid one   *)
(* changes, by being paid.                                                 *)
Keeps ==
  \A r \in rows : \E s \in rows' :
    /\ s.hash = r.hash /\ s.resource = r.resource /\ s.index = r.index
    /\ s.issuedAt = r.issuedAt
    /\ r.paidBy # {} => s.paidBy = r.paidBy

(* What holds of a request survives the steps of the others and the chain. *)
LEMMA CallKept ==
  ASSUME TypeOK, HashInv, NEW d \in Call, CallOK(d), Idle(d), Keeps,
         now' \in Nat, now <= now', Old' = Old,
         \A t \in Txid : Seen(t)' \in {Seen(t), 0, now},
         \A u \in Old : Seen(u.txid)' = Seen(u.txid)
  PROVE  CallOK(d)'
<1> USE DEF CallOK, Idle
<1>1. OfferOK(d)'
  BY DEF OfferOK, TypeOK, ChronikTypeOK
<1>2. ASSUME NEW r \in rows, Linked(d, r)
      PROVE  \E s \in rows' : Linked(d, s)'
  <2> PICK s \in rows' :
        /\ s.hash = r.hash /\ s.resource = r.resource /\ s.index = r.index
        /\ s.issuedAt = r.issuedAt
        /\ r.paidBy # {} => s.paidBy = r.paidBy
    BY DEF Keeps
  <2>1. Linked(d, s)'
    BY <1>2 DEF Linked
  <2> QED
    BY <2>1
<1>3. RowOK(d)'
  BY <1>2 DEF RowOK
<1>4. CheckedOK(d)'
  BY DEF CheckedOK, Fits, Expired
<1>5. EvidenceOK(d)'
  <2> SUFFICES ASSUME pc[d] = "commit" PROVE EvidenceOK(d)'
    BY DEF EvidenceOK
  <2> PICK r \in rows : Linked(d, r)
    BY DEF RowOK
  <2>1. req[d].txid \in Txid /\ snap[d].issuedAt \in Int /\ snap[d].issuedAt <= now
    BY DEF RowOK, Linked, HashInv, ProofRequest, TypeOK, Row
  <2>2. Recent(req[d].txid, snap[d])'
    BY <2>1, GatewayAssumption DEF EvidenceOK, Recent, TypeOK, ChronikTypeOK
  <2> QED
    BY <2>2 DEF EvidenceOK, Pays, PayTo
<1>6. UnlockedOK(d)'
  <2> SUFFICES ASSUME code[d] = "UNLOCKED" PROVE UnlockedOK(d)'
    BY DEF UnlockedOK
  <2> PICK r \in rows :
        /\ r.hash = req[d].hash /\ r.resource = req[d].resource
        /\ r.paidBy = {req[d].txid} /\ req[d] \in ProofRequest
        /\ Pays(req[d].txid, r)
    BY DEF UnlockedOK
  <2> PICK s \in rows' :
        /\ s.hash = r.hash /\ s.resource = r.resource /\ s.index = r.index
        /\ s.issuedAt = r.issuedAt
        /\ r.paidBy # {} => s.paidBy = r.paidBy
    BY DEF Keeps
  <2> QED
    BY DEF UnlockedOK, Pays, PayTo
<1>7. AnswerOK(d)'
  BY DEF AnswerOK
<1> QED
  BY <1>1, <1>3, <1>4, <1>5, <1>6, <1>7

(* A step of request c that touches nothing shared preserves the invariant *)
(* when it preserves what is said of c.                                    *)
LEMMA LocalStep ==
  ASSUME Inv, NEW c \in Call, UNCHANGED shared, TypeOK', CallOK(c)',
         \A d \in Call \ {c} : Idle(d)
  PROVE  Inv'
<1>1. StoreInv'
  BY StoreUnchanged DEF Inv
<1>2. Keeps /\ Old' = Old /\ now' = now /\ \A t : Seen(t)' = Seen(t)
  BY DEF Keeps, Old, Seen, shared, chronikVars
<1>3. \A d \in Call \ {c} : CallOK(d)'
  BY <1>2, CallKept DEF Inv, CallInv, StoreInv, TypeOK, ChronikTypeOK
<1> QED
  BY <1>1, <1>3 DEF Inv, CallInv

(* An answer that unlocks nothing, and denies no retry of a settled proof, *)
(* ends a request well.                                                    *)
LEMMA Answered ==
  ASSUME NEW c \in Call, NEW o, o # "UNLOCKED", pc'[c] = "done", code'[c] = o,
         snap'[c] # NoRow /\ snap'[c].paidBy = {req'[c].txid} => o \notin Denied
  PROVE  CallOK(c)'
BY DEF CallOK, OfferOK, RowOK, CheckedOK, EvidenceOK, UnlockedOK, AnswerOK

(* A request arrives; one that asks for an offer reads a clock that is,    *)
(* skew included, later than every payment to an older store.              *)
LEMMA ArriveInv ==
  ASSUME Inv, NEW c \in Call, NEW q \in Request,
         \/ q \in OfferRequest /\ ArriveWithoutProof(c, q)
         \/ q \in ProofRequest /\ ArriveWithProof(c, q)
  PROVE  Inv'
<1> USE GatewayAssumption DEF Inv
<1>1. CASE q \in OfferRequest /\ ArriveWithoutProof(c, q)
  <2> PICK time \in ServerTime : clock' = [clock EXCEPT ![c] = time]
    BY <1>1 DEF ArriveWithoutProof
  <2>0. time \in Int /\ time <= now /\ now - Skew <= time
    BY DEF ServerTime, TypeOK, ChronikTypeOK
  <2>1. TypeOK'
    BY <1>1, <2>0 DEF ArriveWithoutProof, TypeOK, ChronikTypeOK, chronikVars, Goto
  <2>2. \A d \in Call \ {c} : Idle(d)
    BY <1>1 DEF ArriveWithoutProof, TypeOK, Idle, Goto
  <2>3. /\ pc'[c] = "offer" /\ req'[c] = q /\ clock'[c] = time
        /\ snap'[c] = NoRow /\ code'[c] = "NONE" /\ UNCHANGED shared
    BY <1>1 DEF ArriveWithoutProof, TypeOK, shared, Goto
  <2>4. \A u \in Old : Seen(u.txid) + Tolerance < time
    <3> SUFFICES ASSUME NEW u \in Old PROVE Seen(u.txid) + Tolerance < time
      OBVIOUS
    <3>1. u.txid \in Txid
      BY DEF Old, TypeOK
    <3>2. Seen(u.txid) \in Nat /\ Seen(u.txid) + Tolerance + Skew < now
      BY <3>1, SeenType DEF StoreInv, FenceInv, TypeOK
    <3> QED
      BY <2>0, <3>2 DEF TypeOK, ChronikTypeOK
  <2>5. OfferOK(c)'
    BY <1>1, <2>0, <2>3, <2>4 DEF OfferOK, shared, chronikVars, Old, Seen
  <2>6. CallOK(c)'
    BY <2>3, <2>5 DEF CallOK, RowOK, CheckedOK, EvidenceOK, UnlockedOK, AnswerOK
  <2> QED
    BY <2>1, <2>2, <2>3, <2>6, LocalStep
<1>2. CASE q \in ProofRequest /\ ArriveWithProof(c, q)
  <2>1. TypeOK'
    BY <1>2 DEF ArriveWithProof, TypeOK, ChronikTypeOK, chronikVars, Goto
  <2>2. \A d \in Call \ {c} : Idle(d)
    BY <1>2 DEF ArriveWithProof, TypeOK, Idle, Goto
  <2>3. /\ pc'[c] = "lookup" /\ req'[c] = q
        /\ snap'[c] = NoRow /\ code'[c] = "NONE" /\ UNCHANGED shared
    BY <1>2 DEF ArriveWithProof, TypeOK, shared, Goto
  <2>4. CallOK(c)'
    BY <1>2, <2>3
    DEF CallOK, OfferOK, RowOK, CheckedOK, EvidenceOK, UnlockedOK, AnswerOK
  <2> QED
    BY <2>1, <2>2, <2>3, <2>4, LocalStep
<1> QED
  BY <1>1, <1>2

(* The row a lookup finds is there, under the hash that was asked for.     *)
LEMMA LookupInv ==
  ASSUME Inv, NEW c \in Call, Lookup(c)
  PROVE  Inv'
<1> USE DEF Inv
<1>1. TypeOK'
  BY DEF Lookup, Reply, Proceed, Goto, TypeOK, ChronikTypeOK, chronikVars, Denied
<1>2. UNCHANGED shared /\ \A d \in Call \ {c} : Idle(d)
  BY DEF Lookup, Reply, Proceed, Goto, TypeOK, shared, Idle
<1>3. req'[c] = req[c] /\ req[c] \in ProofRequest /\ snap[c] = NoRow /\ code[c] = "NONE"
  BY DEF Lookup, CallInv, CallOK, RowOK, AnswerOK
<1>4. CASE Reply(c, "INVOICE_NOT_FOUND") /\ UNCHANGED snap
  <2>1. pc'[c] = "done" /\ code'[c] = "INVOICE_NOT_FOUND" /\ snap'[c] = NoRow
    BY <1>3, <1>4 DEF Reply, Goto, TypeOK
  <2> QED
    BY <1>1, <1>2, <2>1, LocalStep, Answered
<1>5. ASSUME NEW r \in rows, r.hash = req[c].hash,
             snap' = [snap EXCEPT ![c] = r], Proceed(c, "check")
      PROVE  Inv'
  <2>1. pc'[c] = "check" /\ code'[c] = "NONE" /\ snap'[c] = r /\ r \in Row
    BY <1>3, <1>5 DEF Proceed, Goto, TypeOK
  <2>2. RowOK(c)'
    BY <1>2, <1>3, <1>5, <2>1 DEF RowOK, Linked, shared
  <2>3. CallOK(c)'
    BY <2>1, <2>2 DEF CallOK, OfferOK, CheckedOK, EvidenceOK, UnlockedOK, AnswerOK, Denied
  <2> QED
    BY <1>1, <1>2, <2>3, LocalStep
<1> QED
  BY <1>4, <1>5 DEF Lookup

(* An answer to a request at an await after the lookup.                    *)
LEMMA ReplyInv ==
  ASSUME Inv, NEW c \in Call, NEW o \in Denied \cup Deferred,
         pc[c] \in {"check", "query", "commit"}, Reply(c, o),
         UNCHANGED <<shared, req, snap>>,
         snap[c].paidBy = {req[c].txid} => o \notin Denied
  PROVE  Inv'
<1> USE DEF Inv
<1>1. TypeOK'
  BY DEF Reply, Goto, TypeOK, ChronikTypeOK, shared, chronikVars
<1>2. \A d \in Call \ {c} : Idle(d)
  BY DEF Reply, Goto, TypeOK, Idle
<1>3. /\ pc'[c] = "done" /\ code'[c] = o /\ o # "UNLOCKED"
      /\ snap'[c] = snap[c] /\ req'[c] = req[c] /\ UNCHANGED shared
  BY DEF Reply, Goto, TypeOK, Denied, Deferred
<1> QED
  BY <1>1, <1>2, <1>3, LocalStep, Answered

(* The checks on the row deny nothing to a retry of the transaction that   *)
(* paid it, and let an unpaid row pass inside its validity window only.    *)
LEMMA CheckInv ==
  ASSUME Inv, NEW c \in Call, Check(c)
  PROVE  Inv'
<1> USE DEF Inv
<1> DEFINE r == snap[c]
           t == req[c].txid
<1>0. /\ pc[c] = "check" /\ req[c] \in ProofRequest /\ r \in Row /\ code[c] = "NONE"
      /\ UNCHANGED <<shared, req, snap>> /\ UNCHANGED shared
  BY DEF Check, CallInv, CallOK, RowOK, AnswerOK, shared
<1>1. CASE Reply(c, "RESOURCE_MISMATCH")
  BY <1>0, <1>1, ReplyInv DEF Denied, Deferred
<1>2. CASE Reply(c, "INVOICE_NOT_YET_VALID")
  BY <1>0, <1>2, ReplyInv DEF Denied, Deferred
<1>3. ASSUME NEW time \in ServerTime, TooLate(r, t, time), Reply(c, "INVOICE_EXPIRED")
      PROVE  Inv'
  BY <1>0, <1>3, ReplyInv DEF TooLate, Denied
<1>4. CASE r.paidBy \notin {{}, {t}} /\ Reply(c, "TXID_CONFLICT")
  BY <1>0, <1>4, ReplyInv DEF Denied
<1>5. ASSUME NEW time \in ServerTime, Fits(r, req[c]), time >= r.issuedAt,
             ~TooLate(r, t, time), r.paidBy \in {{}, {t}}, Goto(c, "query"),
             clock' = [clock EXCEPT ![c] = time], UNCHANGED code
      PROVE  Inv'
  <2>0. time \in Int
    BY GatewayAssumption DEF ServerTime, TypeOK, ChronikTypeOK
  <2>1. TypeOK'
    BY <1>0, <1>5, <2>0 DEF Goto, TypeOK, ChronikTypeOK, shared, chronikVars
  <2>2. \A d \in Call \ {c} : Idle(d)
    BY <1>0, <1>5 DEF Goto, TypeOK, Idle
  <2>3. /\ pc'[c] = "query" /\ req'[c] = req[c] /\ clock'[c] = time
        /\ snap'[c] = r /\ code'[c] = "NONE" /\ rows' = rows
    BY <1>0, <1>5 DEF Goto, TypeOK, shared
  <2>4. RowOK(c)'
    BY <1>0, <2>3 DEF CallInv, CallOK, RowOK, Linked
  <2>5. CheckedOK(c)'
    BY <1>5, <2>3 DEF CheckedOK, TooLate, Fits, Expired
  <2>6. CallOK(c)'
    BY <2>3, <2>4, <2>5 DEF CallOK, OfferOK, EvidenceOK, UnlockedOK, AnswerOK, Denied
  <2> QED
    BY <1>0, <2>1, <2>2, <2>6, LocalStep
<1> QED
  BY <1>1, <1>2, <1>3, <1>4, <1>5, Zenon DEF Check

(* A row that is paid by the transaction of the proof passes every check on*)
(* Chronik's answer, and a row that is not passes them with evidence that  *)
(* no older store can have accepted.                                       *)
LEMMA QueryInv ==
  ASSUME Inv, NEW c \in Call, Query(c)
  PROVE  Inv'
<1> USE DEF Inv
<1> DEFINE r == snap[c]
           t == req[c].txid
           s == chain[t]
<1>0. /\ pc[c] = "query" /\ req[c] \in ProofRequest /\ r \in Row /\ code[c] = "NONE"
      /\ UNCHANGED <<shared, req, snap>> /\ UNCHANGED shared
  BY DEF Query, CallInv, CallOK, RowOK, AnswerOK, shared
<1> PICK x \in rows : Linked(c, x)
  BY <1>0 DEF CallInv, CallOK, RowOK
<1>1. t \in Txid /\ Seen(t) \in Nat /\ Seen(t) = ObservedAt(s)
  BY <1>0, SeenType DEF ProofRequest, StoreInv, TypeOK, Seen
<1>2. x \in Row /\ x.index = r.index /\ x.resource = r.resource /\ x.issuedAt = r.issuedAt
  BY DEF Linked, TypeOK
<1>3. r.paidBy = {t} => Pays(t, r) /\ (Seen(t) > 0 => ~Historical(s, r))
  <2> SUFFICES ASSUME r.paidBy = {t}
               PROVE  Pays(t, r) /\ (Seen(t) > 0 => ~Historical(s, r))
    OBVIOUS
  <2>1. x.paidBy = {t}
    BY DEF Linked
  <2>2. Pays(t, x) /\ Recent(t, x)
    BY <2>1 DEF StoreInv, PaidInv
  <2> QED
    BY <1>1, <1>2, <2>2, GatewayAssumption DEF Pays, PayTo, Recent, Historical, Row
<1>4. CASE Reply(c, "CHRONIK_UNAVAILABLE")
  BY <1>0, <1>4, ReplyInv DEF Denied, Deferred
<1>5. CASE Reply(c, "TX_NOT_FOUND")
  BY <1>0, <1>5, ReplyInv DEF Denied, Deferred
<1>6. CASE Reply(c, "TRANSACTION_NOT_FINAL")
  BY <1>0, <1>6, ReplyInv DEF Denied, Deferred
<1>7. CASE Reply(c, "TRANSACTION_TIME_UNKNOWN")
  BY <1>0, <1>7, ReplyInv DEF Denied, Deferred
<1>8. CASE ObservedAt(s) > 0 /\ Historical(s, r) /\ Reply(c, "HISTORICAL_TRANSACTION")
  BY <1>0, <1>1, <1>3, <1>8, ReplyInv DEF Denied
<1>9. CASE ~Pays(t, r) /\ Reply(c, "PAYMENT_MISMATCH")
  BY <1>0, <1>3, <1>9, ReplyInv DEF Denied
<1>10. CASE ObservedAt(s) > 0 /\ ~Historical(s, r) /\ Pays(t, r) /\ Proceed(c, "commit")
  <2>1. TypeOK'
    BY <1>0, <1>10 DEF Proceed, Goto, TypeOK, ChronikTypeOK, shared, chronikVars
  <2>2. \A d \in Call \ {c} : Idle(d)
    BY <1>0, <1>10 DEF Proceed, Goto, TypeOK, Idle
  <2>3. /\ pc'[c] = "commit" /\ req'[c] = req[c] /\ clock'[c] = clock[c]
        /\ snap'[c] = r /\ code'[c] = "NONE" /\ UNCHANGED shared
    BY <1>0, <1>10 DEF Proceed, Goto, TypeOK, shared
  <2>4. \A u \in Old : u.txid # t
    <3> SUFFICES ASSUME NEW u \in Old, u.txid = t PROVE FALSE
      OBVIOUS
    <3>1. Seen(t) + Tolerance < x.issuedAt
      BY DEF StoreInv, FenceInv
    <3> QED
      BY <1>1, <1>2, <1>10, <3>1, GatewayAssumption DEF Historical, Row
  <2>5. Recent(t, r)
    BY <1>1, <1>2, <1>10, GatewayAssumption DEF Recent, Historical, Row
  <2>6. EvidenceOK(c)'
    BY <1>10, <2>3, <2>4, <2>5
    DEF EvidenceOK, Pays, PayTo, Recent, Seen, Old, shared, chronikVars
  <2>7. RowOK(c)' /\ CheckedOK(c)'
    BY <1>0, <2>3 DEF CallInv, CallOK, RowOK, Linked, CheckedOK, Fits, Expired, shared
  <2>8. CallOK(c)'
    BY <2>3, <2>6, <2>7 DEF CallOK, OfferOK, UnlockedOK, AnswerOK, Denied
  <2> QED
    BY <2>1, <2>2, <2>3, <2>8, LocalStep
<1> QED
  BY <1>4, <1>5, <1>6, <1>7, <1>8, <1>9, <1>10, Zenon DEF Query

(* A store that throws is answered with an error, which denies nothing.    *)
LEMMA StoreFailsInv ==
  ASSUME Inv, NEW c \in Call, StoreFails(c)
  PROVE  Inv'
<1> USE DEF Inv
<1>1. TypeOK'
  BY DEF StoreFails, Reply, Goto, TypeOK, ChronikTypeOK, chronikVars, Deferred
<1>2. UNCHANGED shared /\ \A d \in Call \ {c} : Idle(d)
  BY DEF StoreFails, Reply, Goto, TypeOK, Idle, shared
<1>3. pc'[c] = "done" /\ code'[c] = "ERROR"
  BY DEF StoreFails, Reply, Goto, TypeOK
<1>4. CallOK(c)'
  BY <1>3, Answered DEF Denied
<1> QED
  BY <1>1, <1>2, <1>4, LocalStep

(* A request that is cut off leaves nothing behind in its slot.            *)
LEMMA AbortInv ==
  ASSUME Inv, NEW c \in Call, Abort(c)
  PROVE  Inv'
<1> USE DEF Inv
<1>1. TypeOK'
  BY DEF Abort, TypeOK, ChronikTypeOK, chronikVars
<1>2. UNCHANGED shared /\ \A d \in Call \ {c} : Idle(d)
  BY DEF Abort, TypeOK, Idle, shared
<1>3. pc'[c] = "done" /\ code'[c] = "NONE"
  BY DEF Abort, TypeOK
<1>4. CallOK(c)'
  BY <1>3, Answered DEF Denied
<1> QED
  BY <1>1, <1>2, <1>4, LocalStep

(* A new invoice has the next index and a time after every old payment.    *)
LEMMA OfferInv ==
  ASSUME Inv, NEW c \in Call, Offer(c)
  PROVE  Inv'
<1> USE DEF Inv
<1> PICK n \in Nat : UpTo(n)
  BY DEF StoreInv, IndexInv
<1> PICK h \in Invoice \ drawn :
      /\ drawn' = drawn \cup {h}
      /\ rows' = rows \cup {[hash |-> h, resource |-> req[c].resource,
                             index |-> NextIndex(rows), issuedAt |-> clock[c],
                             paidBy |-> {}, settledAt |-> 0]}
  BY DEF Offer
<1> DEFINE new == [hash |-> h, resource |-> req[c].resource, index |-> n,
                   issuedAt |-> clock[c], paidBy |-> {}, settledAt |-> 0]
<1> PICK o \in Offered : Reply(c, o)
  BY DEF Offer
<1>1. /\ pc[c] = "offer" /\ UNCHANGED <<chronikVars, epoch, req, snap, unlocked>>
      /\ code[c] = "NONE" /\ req[c] \in OfferRequest
      /\ clock[c] \in Int /\ clock[c] <= now
      /\ \A u \in Old : Seen(u.txid) + Tolerance < clock[c]
  BY DEF Offer, CallInv, CallOK, OfferOK, AnswerOK, TypeOK
<1>2. rows' = rows \cup {new}
  BY NextIndexIsLength
<1>3. /\ new \in Row /\ new.hash = h /\ new.index = n /\ new.issuedAt = clock[c]
      /\ new.paidBy = {}
  BY <1>1 DEF Row, OfferRequest
<1> HIDE DEF new
<1>4. TypeOK'
  BY <1>1, <1>2, <1>3 DEF Reply, Goto, TypeOK, ChronikTypeOK, chronikVars
<1>5. ChainInv'
  BY <1>1 DEF ChainInv, StoreInv, chronikVars
<1>6. UpTo(n + 1)'
  <2>1. \A r \in rows' : r.index < n + 1
    BY <1>2, <1>3 DEF UpTo, TypeOK, Row
  <2>2. ASSUME NEW i \in 0 .. n
        PROVE  \E r \in rows' : r.index = i
    <3>1. CASE i = n
      BY <1>2, <1>3, <3>1
    <3>2. CASE i # n
      <4>1. i \in 0 .. n - 1
        BY <3>2
      <4> QED
        BY <1>2, <4>1 DEF UpTo
    <3> QED
      BY <3>1, <3>2
  <2> QED
    BY <2>1, <2>2 DEF UpTo
<1>7. HashInv'
  BY <1>1, <1>2, <1>3 DEF HashInv, StoreInv, chronikVars
<1>8. PaidInv'
  <2>1. \A r \in rows' : r.paidBy # {} => r \in rows
    BY <1>2, <1>3
  <2> QED
    BY <1>1, <2>1 DEF PaidInv, StoreInv, Pays, PayTo, Recent, Seen, Expired, chronikVars
<1>9. UnlockInv'
  BY <1>1, <1>2 DEF UnlockInv, StoreInv
<1>10. Old' = Old /\ now' = now /\ \A t : Seen(t)' = Seen(t) /\ Anchored(t)' = Anchored(t)
  BY <1>1 DEF Old, Seen, Anchored, chronikVars
<1>11. FenceInv'
  BY <1>1, <1>2, <1>3, <1>10 DEF FenceInv, StoreInv
<1>12. PaidOnce' /\ SettlesOneInvoice'
  BY <1>1 DEF PaidOnce, SettlesOneInvoice, StoreInv
<1>13. Keeps
  BY <1>2 DEF Keeps
<1>14. \A d \in Call \ {c} : Idle(d)
  BY <1>1 DEF Reply, Goto, TypeOK, Idle
<1>15. \A d \in Call \ {c} : CallOK(d)'
  BY <1>10, <1>13, <1>14, CallKept DEF CallInv, StoreInv, TypeOK, ChronikTypeOK
<1>16. CallOK(c)'
  <2>1. pc'[c] = "done" /\ code'[c] = o /\ o # "UNLOCKED" /\ o \notin Denied
    BY DEF Reply, Goto, TypeOK, Offered, Denied
  <2> QED
    BY <2>1, Answered
<1> QED
  BY <1>4, <1>5, <1>6, <1>7, <1>8, <1>9, <1>11, <1>12, <1>15, <1>16
  DEF StoreInv, IndexInv, CallInv

(* The commit settles or recognises one row; the request that is about to  *)
(* commit holds everything the new settlement needs.                       *)
LEMMA CommitInv ==
  ASSUME Inv, NEW c \in Call, Commit(c)
  PROVE  Inv'
<1> USE DEF Inv
<1> DEFINE h == req[c].hash
           t == req[c].txid
           uu == [hash |-> h, txid |-> t, epoch |-> epoch]
<1>0. /\ pc[c] = "commit" /\ req[c] \in ProofRequest /\ code[c] = "NONE"
      /\ UNCHANGED <<chronikVars, drawn, epoch, req, snap>>
      /\ CheckedOK(c) /\ EvidenceOK(c) /\ snap[c] \in Row
  BY DEF Commit, CallInv, CallOK, RowOK, AnswerOK
<1> PICK x \in rows : Linked(c, x)
  BY <1>0 DEF CallInv, CallOK, RowOK
<1>1. /\ t \in Txid /\ h \in Invoice /\ x \in Row /\ clock[c] \in Int
      /\ \A y \in rows : y.hash = h => y = x
  BY <1>0 DEF ProofRequest, TypeOK, Linked, StoreInv, HashInv
<1>2. CASE SettledElsewhere(h, t) /\ Reply(c, "TXID_REUSED") /\ UNCHANGED <<rows, unlocked>>
  <2>1. snap[c].paidBy # {t}
    BY <1>2 DEF SettledElsewhere, Linked, StoreInv, PaidInv
  <2> QED
    BY <1>0, <1>2, <2>1, ReplyInv DEF Denied, shared, chronikVars
<1>3. ASSUME NEW r \in rows, r.hash = h, ~Unpaid(r, t), r.paidBy # {t},
             Reply(c, "TXID_CONFLICT"), UNCHANGED <<rows, unlocked>>
      PROVE  Inv'
  <2>1. snap[c].paidBy # {t}
    BY <1>1, <1>3 DEF Linked
  <2> QED
    BY <1>0, <1>3, <2>1, ReplyInv DEF Denied, shared, chronikVars
<1>4. ASSUME ~SettledElsewhere(h, t), NEW y, y \in Row,
             y.hash = x.hash, y.resource = x.resource, y.index = x.index,
             y.issuedAt = x.issuedAt, y.paidBy = {t},
             y.issuedAt <= y.settledAt, ~Expired(y, y.settledAt),
             x.paidBy \in {{}, {t}}, rows' = (rows \ {x}) \cup {y},
             Reply(c, "UNLOCKED"), unlocked' = unlocked \cup {uu}
      PROVE  Inv'
  <2>1. TypeOK'
    BY <1>0, <1>1, <1>4 DEF Reply, Goto, TypeOK, ChronikTypeOK, chronikVars
  <2>2. ChainInv'
    BY <1>0 DEF ChainInv, StoreInv, chronikVars
  <2>3. IndexInv'
    <3> PICK n \in Nat : UpTo(n)
      BY DEF StoreInv, IndexInv
    <3>1. UpTo(n)'
      BY <1>1, <1>4 DEF UpTo, TypeOK, Row
    <3> QED
      BY <3>1 DEF IndexInv
  <2>4. HashInv'
    BY <1>0, <1>1, <1>4 DEF HashInv, StoreInv, chronikVars
  <2>5. /\ now' = now /\ chain' = chain /\ epoch' = epoch
        /\ \A u : Seen(u)' = Seen(u) /\ Anchored(u)' = Anchored(u)
    BY <1>0 DEF Seen, Anchored, chronikVars
  <2>6. Pays(t, y) /\ Recent(t, y)
    BY <1>0, <1>4 DEF EvidenceOK, Pays, PayTo, Recent, Linked
  <2>7. PaidInv'
    <3>1. \A r \in rows : t \in r.paidBy => r = x
      BY <1>1, <1>4 DEF SettledElsewhere
    <3>2. ASSUME NEW r \in rows', NEW z \in r.paidBy
          PROVE  /\ r.paidBy = {z} /\ Pays(z, r) /\ Recent(z, r)'
                 /\ r.issuedAt <= r.settledAt /\ ~Expired(r, r.settledAt)
      <4>1. CASE r = y
        BY <1>4, <2>5, <2>6, <3>2, <4>1 DEF Recent
      <4>2. CASE r \in rows
        BY <2>5, <3>2, <4>2 DEF StoreInv, PaidInv, Recent
      <4> QED
        BY <1>4, <4>1, <4>2
    <3>3. \A r, s \in rows' : \A z \in r.paidBy : z \in s.paidBy => r = s
      BY <1>4, <3>1 DEF StoreInv, PaidInv
    <3> QED
      BY <3>2, <3>3 DEF PaidInv, Pays, PayTo, Expired
  <2>8. UnlockInv'
    <3>1. ASSUME NEW u \in unlocked, u.epoch = epoch
          PROVE  \E r \in rows' : r.hash = u.hash /\ r.paidBy = {u.txid}
      <4> PICK r \in rows : r.hash = u.hash /\ r.paidBy = {u.txid}
        BY <3>1 DEF StoreInv, UnlockInv
      <4> QED
        BY <1>4
    <3>2. uu.epoch = epoch /\ y \in rows' /\ y.hash = uu.hash /\ y.paidBy = {uu.txid}
      BY <1>4 DEF Linked
    <3>3. \A u \in unlocked' : u = uu \/ (u \in unlocked /\ u.epoch <= epoch)
      BY <1>4 DEF StoreInv, UnlockInv
    <3> HIDE DEF uu
    <3> QED
      BY <2>5, <3>1, <3>2, <3>3 DEF UnlockInv, TypeOK
  <2>9. Old' = Old
    BY <1>4, <2>5 DEF Old, TypeOK
  <2>10. FenceInv'
    BY <1>4, <2>5, <2>9 DEF FenceInv, StoreInv
  <2>11. ASSUME NEW u \in unlocked
         PROVE  /\ u.txid = t => u.hash = h
                /\ u.epoch = epoch /\ u.hash = h => u.txid = t
    <3>1. CASE u.epoch = epoch
      <4> PICK r \in rows : r.hash = u.hash /\ r.paidBy = {u.txid}
        BY <3>1 DEF StoreInv, UnlockInv
      <4> QED
        BY <1>1, <1>4 DEF SettledElsewhere
    <3>2. CASE u.epoch # epoch
      <4>1. u \in Old
        BY <3>2 DEF Old, StoreInv, UnlockInv, TypeOK
      <4> QED
        BY <1>0, <3>2, <4>1 DEF EvidenceOK
    <3> QED
      BY <3>1, <3>2
  <2>12. PaidOnce' /\ SettlesOneInvoice'
    BY <1>4, <2>11 DEF PaidOnce, SettlesOneInvoice, StoreInv
  <2>13. Keeps
    BY <1>4 DEF Keeps
  <2>14. \A d \in Call \ {c} : Idle(d)
    BY <1>0, <1>4 DEF Reply, Goto, TypeOK, Idle
  <2>15. \A d \in Call \ {c} : CallOK(d)'
    BY <2>5, <2>9, <2>13, <2>14, CallKept DEF CallInv, StoreInv, TypeOK, ChronikTypeOK
  <2>16. CallOK(c)'
    <3>1. pc'[c] = "done" /\ code'[c] = "UNLOCKED" /\ req'[c] = req[c]
      BY <1>0, <1>4 DEF Reply, Goto, TypeOK
    <3>2. y \in rows' /\ y.hash = h /\ y.resource = req[c].resource
      BY <1>0, <1>4 DEF Linked, CheckedOK, Fits
    <3>3. UnlockedOK(c)'
      BY <1>0, <1>4, <2>6, <3>1, <3>2 DEF UnlockedOK, Pays, PayTo
    <3> QED
      BY <3>1, <3>3
      DEF CallOK, OfferOK, RowOK, CheckedOK, EvidenceOK, AnswerOK, Denied
  <2> QED
    BY <2>1, <2>2, <2>3, <2>4, <2>7, <2>8, <2>10, <2>12, <2>15, <2>16
    DEF StoreInv, CallInv
<1>5. ASSUME NEW r \in rows, r.hash = h, ~SettledElsewhere(h, t), Unpaid(r, t),
             rows' = (rows \ {r}) \cup
               {[r EXCEPT !.paidBy = {t}, !.settledAt = PaidAt(c)]},
             Reply(c, "UNLOCKED"), unlocked' = unlocked \cup {uu}
      PROVE  Inv'
  <2> DEFINE y == [r EXCEPT !.paidBy = {t}, !.settledAt = PaidAt(c)]
  <2>1. r = x
    BY <1>1, <1>5
  <2>2. /\ y \in Row /\ y.hash = x.hash /\ y.resource = x.resource
        /\ y.index = x.index /\ y.issuedAt = x.issuedAt
        /\ y.paidBy = {t} /\ y.settledAt = clock[c]
    BY <1>1, <2>1 DEF Row, PaidAt
  <2>3. snap[c].paidBy = {} /\ x.paidBy = {}
    BY <1>5, <2>1 DEF Unpaid, Linked
  <2>4. y.issuedAt <= y.settledAt /\ ~Expired(y, y.settledAt)
    BY <1>0, <2>2, <2>3 DEF CheckedOK, Linked, Expired
  <2> HIDE DEF y
  <2>5. rows' = (rows \ {x}) \cup {y}
    BY <1>5, <2>1 DEF y
  <2> QED
    BY <1>4, <1>5, <2>2, <2>3, <2>4, <2>5
<1>6. ASSUME NEW r \in rows, r.hash = h, ~SettledElsewhere(h, t), r.paidBy = {t},
             UNCHANGED rows, Reply(c, "UNLOCKED"), unlocked' = unlocked \cup {uu}
      PROVE  Inv'
  <2>1. r = x /\ rows' = (rows \ {x}) \cup {x}
    BY <1>1, <1>6
  <2>2. x.issuedAt <= x.settledAt /\ ~Expired(x, x.settledAt)
    BY <1>6, <2>1 DEF StoreInv, PaidInv
  <2> QED
    BY <1>1, <1>4, <1>6, <2>1, <2>2
<1> QED
  BY <1>2, <1>3, <1>5, <1>6, Zenon DEF Commit

(* When the store is lost, every payment that unlocked an invoice is       *)
(* anchored and older than anything the new store will issue.              *)
LEMMA LoseStoreInv ==
  ASSUME Inv, LoseStore
  PROVE  Inv'
<1> USE DEF Inv
<1>1. /\ now \in Nat /\ now' = now + Recovery /\ now' \in Nat /\ chain' = chain
      /\ epoch' = epoch + 1 /\ epoch' \in Nat /\ rows' = {}
      /\ drawn' = drawn /\ unlocked' = unlocked
  BY GatewayAssumption DEF LoseStore, TypeOK, ChronikTypeOK
<1>2. TypeOK'
  BY <1>1 DEF LoseStore, TypeOK, ChronikTypeOK
<1>3. ChainInv'
  BY <1>1, GatewayAssumption DEF ChainInv, StoreInv, TypeOK, ChronikTypeOK, Sighting
<1>4. UpTo(0)' /\ HashInv' /\ PaidInv'
  BY <1>1 DEF UpTo, HashInv, PaidInv
<1>5. UnlockInv'
  BY <1>1 DEF UnlockInv, StoreInv, TypeOK
<1>6. FenceInv'
  <2>1. ASSUME NEW u \in unlocked
        PROVE  Anchored(u.txid)' /\ Seen(u.txid)' + Tolerance + Skew < now'
    <3> DEFINE s == chain[u.txid]
    <3>1. u.txid \in Txid
      BY DEF TypeOK
    <3>2. Seen(u.txid) \in Nat /\ Seen(u.txid) <= now /\ Seen(u.txid)' = Seen(u.txid)
      BY <1>1, <3>1, SeenType DEF StoreInv, TypeOK, Seen
    <3>3. s \in Sighting /\ s.mined <= now /\ Final(s) /\ Seen(u.txid) > 0
      BY <3>1 DEF LoseStore, StoreInv, ChainInv, TypeOK, ChronikTypeOK, Seen
    <3>4. s.at = "block" \/ (s.final /\ s.seen > 0)
      BY <3>3 DEF Final, Seen, ObservedAt, Sighting
    <3>5. s.mined \in Nat /\ s.mined + ReorgDepth <= now'
      BY <1>1, <3>3, ChronikAssumption, GatewayAssumption, RecoveryAssumption DEF Sighting
    <3>6. Anchored(u.txid)'
      BY <1>1, <3>2, <3>3, <3>4, <3>5 DEF Anchored
    <3> QED
      BY <1>1, <3>2, <3>6, GatewayAssumption, RecoveryAssumption
  <2> QED
    BY <1>1, <2>1 DEF FenceInv, Old
<1>7. PaidOnce' /\ SettlesOneInvoice'
  BY <1>1 DEF PaidOnce, SettlesOneInvoice, StoreInv
<1>8. CallInv'
  BY DEF LoseStore, CallInv, CallOK, OfferOK, RowOK, CheckedOK, EvidenceOK,
         UnlockedOK, AnswerOK, Denied
<1> QED
  BY <1>2, <1>3, <1>4, <1>5, <1>6, <1>7, <1>8 DEF StoreInv, IndexInv

(* The chain moves on: what was accepted stays acceptable.                 *)
LEMMA ChronikInv ==
  ASSUME Inv, ChronikNext, UNCHANGED <<rows, drawn, epoch, callVars, unlocked>>
  PROVE  Inv'
<1> USE DEF Inv
<1>1. /\ ChronikTypeOK' /\ ChainInv' /\ now \in Nat /\ now' \in Nat /\ now <= now'
      /\ \A t \in Txid : Seen(t)' \in {Seen(t), 0, now}
      /\ \A t \in Txid : Anchored(t) => Anchored(t)' /\ Seen(t)' = Seen(t)
  BY ChronikStep DEF StoreInv, TypeOK, ChronikTypeOK
<1>2. TypeOK'
  BY <1>1 DEF TypeOK, callVars
<1>3. IndexInv'
  BY DEF StoreInv, IndexInv, UpTo
<1>4. HashInv'
  BY <1>1 DEF StoreInv, HashInv, TypeOK, Row
<1>5. PaidInv'
  <2>1. ASSUME NEW r \in rows, NEW t \in r.paidBy
        PROVE  Recent(t, r)'
    <3>1. t \in Txid /\ r.issuedAt \in Int /\ r.issuedAt <= now /\ Recent(t, r)
      BY DEF StoreInv, HashInv, PaidInv, TypeOK, Row
    <3> QED
      BY <1>1, <3>1, GatewayAssumption DEF Recent
  <2> QED
    BY <2>1 DEF StoreInv, PaidInv, Pays, PayTo, Expired
<1>6. UnlockInv' /\ PaidOnce' /\ SettlesOneInvoice'
  BY DEF StoreInv, UnlockInv, PaidOnce, SettlesOneInvoice
<1>7. Old' = Old /\ \A u \in Old : u.txid \in Txid /\ Seen(u.txid)' = Seen(u.txid)
  BY <1>1 DEF StoreInv, FenceInv, Old, TypeOK
<1>8. FenceInv'
  <2>1. ASSUME NEW u \in Old
        PROVE  Seen(u.txid) + Tolerance + Skew < now'
    <3>1. Seen(u.txid) \in Nat /\ Seen(u.txid) + Tolerance + Skew < now
      BY <1>7, SeenType DEF StoreInv, FenceInv, TypeOK
    <3> QED
      BY <1>1, <3>1, GatewayAssumption
  <2> QED
    BY <1>1, <1>7, <2>1 DEF StoreInv, FenceInv
<1>9. Keeps
  BY DEF Keeps
<1>10. ASSUME NEW d \in Call PROVE CallOK(d)'
  <2>1. Idle(d) /\ CallOK(d)
    BY DEF Idle, callVars, CallInv
  <2> QED
    BY <1>1, <1>7, <1>9, <2>1, CallKept DEF StoreInv
<1> QED
  BY <1>1, <1>2, <1>3, <1>4, <1>5, <1>6, <1>8, <1>10 DEF StoreInv, CallInv
-----------------------------------------------------------------------------
(* A server that has served nothing satisfies the invariant.               *)
LEMMA InitInv == Init => Inv
<1> SUFFICES ASSUME Init PROVE Inv
  OBVIOUS
<1> USE DEF Init, ChronikInit
<1>1. TypeOK
  BY DEF TypeOK, ChronikTypeOK, Sighting, Unseen
<1>2. ChainInv
  <2> SUFFICES ASSUME NEW t \in Txid
               PROVE  /\ chain[t].seen <= now /\ chain[t].mined <= now
                      /\ chain[t].at = "absent" => ~chain[t].final
    BY DEF ChainInv
  <2>1. chain[t] = Unseen /\ 0 <= now
    OBVIOUS
  <2>2. chain[t].seen = 0 /\ chain[t].mined = 0 /\ ~chain[t].final
    BY <2>1 DEF Unseen
  <2> QED
    BY <2>1, <2>2, Zenon
<1>3. UpTo(0) /\ HashInv /\ PaidInv /\ UnlockInv /\ FenceInv
  BY DEF UpTo, HashInv, PaidInv, UnlockInv, FenceInv, Old
<1>4. PaidOnce /\ SettlesOneInvoice
  BY DEF PaidOnce, SettlesOneInvoice
<1>5. CallInv
  BY DEF CallInv, CallOK, OfferOK, RowOK, CheckedOK, EvidenceOK, UnlockedOK,
         AnswerOK, Denied
<1> QED
  BY <1>1, <1>2, <1>3, <1>4, <1>5 DEF Inv, StoreInv, IndexInv

(* Every step of a request, of the store and of the chain preserves it.    *)
LEMMA NextInv == Inv /\ [Next]_vars => Inv'
<1> SUFFICES ASSUME Inv, [Next]_vars PROVE Inv'
  OBVIOUS
<1>1. ASSUME NEW c \in Call, NEW q \in OfferRequest, ArriveWithoutProof(c, q)
      PROVE  Inv'
  BY <1>1, ArriveInv DEF Request
<1>2. ASSUME NEW c \in Call, NEW q \in ProofRequest, ArriveWithProof(c, q)
      PROVE  Inv'
  BY <1>2, ArriveInv DEF Request
<1>3. ASSUME NEW c \in Call, Serve(c)
      PROVE  Inv'
  BY <1>3, OfferInv, LookupInv, CheckInv, QueryInv, CommitInv DEF Serve
<1>4. ASSUME NEW c \in Call, StoreFails(c) \/ Abort(c)
      PROVE  Inv'
  BY <1>4, StoreFailsInv, AbortInv
<1>5. CASE LoseStore
  BY <1>5, LoseStoreInv
<1>6. CASE ChronikNext /\ UNCHANGED <<rows, drawn, epoch, callVars, unlocked>>
  BY <1>6, ChronikInv
<1>7. CASE UNCHANGED vars
  <2>1. UNCHANGED shared /\ TypeOK'
    BY <1>7 DEF vars, shared, chronikVars, callVars, Inv, TypeOK, ChronikTypeOK
  <2>2. \A d \in Call : Idle(d)
    BY <1>7 DEF vars, callVars, Idle
  <2>3. StoreInv' /\ Keeps /\ Old' = Old /\ now' = now /\ \A t : Seen(t)' = Seen(t)
    BY <2>1, StoreUnchanged DEF Inv, Keeps, Old, Seen, shared, chronikVars
  <2>4. CallInv'
    BY <2>2, <2>3, CallKept DEF Inv, CallInv, StoreInv, TypeOK, ChronikTypeOK
  <2> QED
    BY <2>1, <2>3, <2>4 DEF Inv
<1> QED
  BY <1>1, <1>2, <1>3, <1>4, <1>5, <1>6, <1>7 DEF Next

(* The inductive invariant holds of every behaviour.                       *)
THEOREM InvHolds == Spec => []Inv
BY InitInv, NextInv, PTL DEF Spec

(* Every variable keeps its type; in particular the derivation index of a  *)
(* new invoice (NextIndex) is always a number.                             *)
THEOREM TypeCorrect == Spec => []TypeOK
<1>1. Inv => TypeOK
  BY DEF Inv
<1> QED
  BY <1>1, InvHolds, PTL

(* Across requests that race over the Chronik await, reorganisations and   *)
(* losses of the store, one transaction unlocks one invoice (commitPaid    *)
(* and the temporal fence of verifySettlementProof).                       *)
THEOREM UnlocksOneInvoice == Spec => []SettlesOneInvoice
<1>1. Inv => SettlesOneInvoice
  BY DEF Inv, StoreInv
<1> QED
  BY <1>1, InvHolds, PTL

(* While the store lives, an invoice is unlocked by one transaction        *)
(* (commitPaid).                                                           *)
THEOREM UnlockedOnce == Spec => []PaidOnce
<1>1. Inv => PaidOnce
  BY DEF Inv, StoreInv
<1> QED
  BY <1>1, InvHolds, PTL

(* What unlocks a resource is a settlement on record, for that resource, by*)
(* a transaction that pays the exact price to the invoice's own address    *)
(* (verifySettlementProof, settledInvoiceMatches).                         *)
THEOREM UnlocksArePaid == Spec => []UnlockIsPaid
<1>1. Inv => UnlockIsPaid
  <2> SUFFICES ASSUME Inv, NEW c \in Call, code[c] = "UNLOCKED"
               PROVE  \E r \in rows :
                        /\ r.hash = req[c].hash
                        /\ r.resource = req[c].resource
                        /\ r.paidBy = {req[c].txid}
                        /\ \E o \in Outputs[req[c].txid] :
                             o = [payTo |-> PayTo(r), sats |-> Price[r.resource],
                                  token |-> FALSE]
    BY DEF UnlockIsPaid
  <2> PICK r \in rows :
        /\ r.hash = req[c].hash /\ r.resource = req[c].resource
        /\ r.paidBy = {req[c].txid} /\ req[c] \in ProofRequest
        /\ Pays(req[c].txid, r)
    BY DEF Inv, CallInv, CallOK, UnlockedOK
  <2> PICK o \in Outputs[req[c].txid] :
        o.payTo = PayTo(r) /\ o.sats = Price[r.resource] /\ ~o.token
    BY DEF Pays
  <2>1. o \in Output
    BY GatewayAssumption DEF ProofRequest
  <2>2. o = [payTo |-> PayTo(r), sats |-> Price[r.resource], token |-> FALSE]
    BY <2>1 DEF Output
  <2> QED
    BY <2>2
<1> QED
  BY <1>1, InvHolds, PTL

(* A settlement is dated within the validity of its invoice, whatever      *)
(* happened between the reading of the clock and the commit (paidAt).      *)
THEOREM SettlementsInWindow == Spec => []SettledInWindow
<1>1. Inv => SettledInWindow
  <2> SUFFICES ASSUME Inv, NEW r \in rows, r.paidBy # {}
               PROVE  r.issuedAt <= r.settledAt /\ ~Expired(r, r.settledAt)
    BY DEF SettledInWindow
  <2> PICK t : t \in r.paidBy
    OBVIOUS
  <2> QED
    BY DEF Inv, StoreInv, PaidInv
<1> QED
  BY <1>1, InvHolds, PTL

(* The proof of a settled invoice is accepted again or deferred, and never *)
(* denied, at any later time and state of the chain.                       *)
THEOREM RetriesSucceed == Spec => []RetryNeverDenied
<1>1. Inv => RetryNeverDenied
  BY DEF Inv, CallInv, CallOK, AnswerOK, RetryNeverDenied
<1> QED
  BY <1>1, InvHolds, PTL
-----------------------------------------------------------------------------
(* The store contract behind the gateway: the rows as what was issued and  *)
(* what settled it.                                                        *)
Settlements ==
  {p \in Invoice \X Txid : \E r \in rows : r.hash = p[1] /\ p[2] \in r.paidBy}

Authority == INSTANCE SettlementAuthority WITH
  issued <- {r.hash : r \in rows},
  settlement <- Settlements

(* An offer issues an invoice that the store does not have.                *)
LEMMA OfferIssues ==
  ASSUME Inv, NEW c \in Call, Offer(c)
  PROVE  Authority!Next
<1> PICK h \in Invoice \ drawn :
      rows' = rows \cup {[hash |-> h, resource |-> req[c].resource,
                          index |-> NextIndex(rows), issuedAt |-> clock[c],
                          paidBy |-> {}, settledAt |-> 0]}
  BY DEF Offer
<1> DEFINE x == [hash |-> h, resource |-> req[c].resource,
                 index |-> NextIndex(rows), issuedAt |-> clock[c],
                 paidBy |-> {}, settledAt |-> 0]
<1>1. rows' = rows \cup {x} /\ x.hash = h /\ x.paidBy = {}
  OBVIOUS
<1> HIDE DEF x
<1>2. h \in Invoice /\ h \notin {r.hash : r \in rows}
  BY DEF Inv, StoreInv, HashInv
<1>3. {r.hash : r \in rows}' = {r.hash : r \in rows} \cup {h}
  BY <1>1
<1>4. Settlements' = Settlements
  BY <1>1 DEF Settlements
<1>5. Authority!Issue(h)
  BY <1>2, <1>3, <1>4 DEF Authority!Issue
<1> QED
  BY <1>2, <1>5 DEF Authority!Next

(* The commit of a proof settles an unpaid invoice by a transaction that   *)
(* settled no other, or writes nothing.                                    *)
LEMMA CommitSettles ==
  ASSUME Inv, NEW c \in Call, Commit(c)
  PROVE  Authority!Next \/ UNCHANGED rows
<1> DEFINE h == req[c].hash
           t == req[c].txid
<1>1. h \in Invoice /\ t \in Txid
  BY DEF Commit, Inv, CallInv, CallOK, RowOK, ProofRequest
<1>2. ASSUME ~SettledElsewhere(h, t), NEW r \in rows, r.hash = h, Unpaid(r, t),
             rows' = (rows \ {r}) \cup {[r EXCEPT !.paidBy = {t}, !.settledAt = PaidAt(c)]}
      PROVE  Authority!Next
  <2> DEFINE y == [r EXCEPT !.paidBy = {t}, !.settledAt = PaidAt(c)]
  <2>1. r \in Row
    BY DEF Inv, TypeOK
  <2>2. rows' = (rows \ {r}) \cup {y} /\ y.hash = h /\ y.paidBy = {t}
    BY <1>2, <2>1 DEF Row
  <2> HIDE DEF y, h, t
  <2>3. r.paidBy = {} /\ r.hash = h
    BY <1>2 DEF Unpaid
  <2>4. \A s \in rows : s.hash = h => s = r
    BY <2>3 DEF Inv, StoreInv, HashInv
  <2>5. \A s \in rows : t \notin s.paidBy
    BY <1>2, <2>3, <2>4 DEF SettledElsewhere
  <2>6. h \in {s.hash : s \in rows}
    BY <2>3
  <2>7. {s.hash : s \in rows}' = {s.hash : s \in rows}
    BY <2>2, <2>3
  <2>8. \A p \in Settlements : p[1] # h /\ p[2] # t
    BY <2>3, <2>4, <2>5 DEF Settlements
  <2>9. Settlements' = Settlements \cup {<<h, t>>}
    BY <1>1, <2>2, <2>3 DEF Settlements
  <2>10. Authority!Settle(h, t)
    BY <2>6, <2>7, <2>8, <2>9 DEF Authority!Settle
  <2> QED
    BY <1>1, <2>10 DEF Authority!Next
<1> QED
  BY <1>2 DEF Commit

(* What the gateway makes of its store, over all interleavings, is what    *)
(* the store contract allows, so that any store that implements the        *)
(* contract may take the place of the atomic one; only the loss of the     *)
(* database is not a step of the contract.                                 *)
THEOREM StoreIsAuthority ==
  Spec => Authority!Init /\ [][Authority!Next \/ LoseStore]_(Authority!vars)
<1>1. Init => Authority!Init
  BY DEF Init, Authority!Init, Settlements
<1>2. ASSUME Inv, [Next]_vars
      PROVE  [Authority!Next \/ LoseStore]_(Authority!vars)
  <2>1. CASE UNCHANGED rows
    BY <2>1 DEF Authority!vars, Settlements
  <2>2. UNCHANGED rows \/ LoseStore \/ \E c \in Call : Offer(c) \/ Commit(c)
    BY <1>2 DEF Next, vars, Serve, ArriveWithoutProof, ArriveWithProof, Lookup, Check,
                Query, StoreFails, Abort
  <2> QED
    BY <1>2, <2>1, <2>2, OfferIssues, CommitSettles
<1> QED
  BY <1>1, <1>2, InvHolds, PTL DEF Spec
=============================================================================
