------------------------- MODULE AgentBridgeProofs --------------------------
(***************************************************************************)
(* Proofs about AgentBridge for any number of concurrent calls, invoices   *)
(* and nonces.  The replay cache forgets, so it is no record of what was   *)
(* approved; the inductive invariant Inv says what it still knows: every   *)
(* approved invoice that has not expired, under its own expiry.            *)
(***************************************************************************)
EXTENDS AgentBridge, TLAPS

(* A call under way has an invoice that nobody has approved, and a deadline*)
(* that is no later than its expiry.                                       *)
CallInv ==
  \A c \in Running :
    /\ invoice[c] \in Invoice
    /\ deadline[c] <= invoice[c].expiresAt
    /\ \A i \in DOMAIN approvals : approvals[i].invoice # invoice[c]

Recalled(a) ==
  /\ a \in DOMAIN committedInvoices /\ committedInvoices[a] = a.expiresAt
  /\ a.nonce \in DOMAIN committedNonces /\ committedNonces[a.nonce] = a.expiresAt

MemoryInv ==
  \A i \in DOMAIN approvals :
    LET a == approvals[i].invoice IN a.expiresAt <= now \/ Recalled(a)

Inv ==
  /\ TypeOK /\ CallInv /\ MemoryInv
  /\ ApprovedOnce /\ ReservationsAreHeld /\ ApprovedInTime /\ NonceStaysSpent
-----------------------------------------------------------------------------
LEMMA InvoiceType ==
  ASSUME NEW i \in Invoice
  PROVE  i.nonce \in Nonce /\ i.expiresAt \in Nat /\ i.amountSats \in Nat
BY BridgeAssumption

LEMMA ApprovalType ==
  ASSUME TypeOK, NEW i \in DOMAIN approvals
  PROVE  /\ approvals[i].invoice \in Invoice /\ approvals[i].recordedAt \in Nat
         /\ approvals[i].invoice.expiresAt \in Nat
<1> DEFINE Approval == [invoice : Invoice, recordedAt : Nat]
<1>1. approvals \in Seq(Approval)
  BY DEF TypeOK
<1>2. approvals[i] \in Approval
  <2> HIDE DEF Approval
  <2> QED
    BY <1>1
<1> QED
  BY <1>2, InvoiceType

LEMMA LeastType ==
  ASSUME NEW m \in Nat, NEW n \in Nat
  PROVE  Least(m, n) \in Nat /\ Least(m, n) <= m /\ Least(m, n) <= n
BY DEF Least

(* Pruning forgets what has expired only.                                  *)
PruneOrKeep ==
  \/ UNCHANGED <<committedInvoices, committedNonces>>
  \/ /\ committedInvoices' = Pruned(committedInvoices)
     /\ committedNonces' = Pruned(committedNonces)

LEMMA PruneKeeps ==
  ASSUME TypeOK, MemoryInv, PruneOrKeep, UNCHANGED <<now, approvals>>
  PROVE  /\ Maps(committedInvoices, Invoice, Nat)'
         /\ Maps(committedNonces, Nonce, Nat)'
         /\ MemoryInv'
<1>1. Maps(committedInvoices, Invoice, Nat)' /\ Maps(committedNonces, Nonce, Nat)'
  BY DEF TypeOK, PruneOrKeep, Maps, Pruned
<1>2. ASSUME NEW i \in DOMAIN approvals,
             ~(approvals[i].invoice.expiresAt <= now)
      PROVE  Recalled(approvals[i].invoice)'
  <2>1. Recalled(approvals[i].invoice)
    BY <1>2 DEF MemoryInv
  <2>2. approvals[i].invoice.expiresAt > now
    BY <1>2, ApprovalType DEF TypeOK
  <2> QED
    BY <2>1, <2>2 DEF Recalled, PruneOrKeep, Pruned
<1> QED
  BY <1>1, <1>2 DEF MemoryInv
-----------------------------------------------------------------------------
(* What an approval that is still valid means for a call that reserves.    *)
LEMMA ReservedIsFresh ==
  ASSUME TypeOK, MemoryInv, NEW i \in Invoice, now < i.expiresAt,
         Conflict(i) = "NONE", NEW j \in DOMAIN approvals
  PROVE  /\ approvals[j].invoice # i
         /\ now < approvals[j].invoice.expiresAt => approvals[j].invoice.nonce # i.nonce
<1> DEFINE a == approvals[j].invoice
<1>1. /\ i \notin DOMAIN Pruned(committedInvoices)
      /\ i.nonce \notin DOMAIN Pruned(committedNonces)
  BY DEF Conflict
<1>2. a.expiresAt \in Nat /\ now \in Nat
  BY ApprovalType DEF TypeOK
<1>3. ASSUME now < a.expiresAt PROVE a # i /\ a.nonce # i.nonce
  <2>1. Recalled(a)
    BY <1>2, <1>3 DEF MemoryInv
  <2>2. a \in DOMAIN Pruned(committedInvoices)
        /\ a.nonce \in DOMAIN Pruned(committedNonces)
    BY <2>1, <1>3 DEF Recalled, Pruned
  <2> QED
    BY <2>2, <1>1
<1>4. CASE ~(now < a.expiresAt)
  BY <1>4
<1> QED
  BY <1>3, <1>4

(* A call that is refused before it reserves.                              *)
LEMMA RefusalKeeps ==
  ASSUME Inv, NEW c \in Call, NEW i \in Invoice, NEW o \in Outcome,
         pc[c] = "idle", End(c, o), invoice' = [invoice EXCEPT ![c] = i],
         PruneOrKeep, UNCHANGED <<now, approvals, inFlightInvoices, inFlightNonces>>
  PROVE  Inv'
<1>1. /\ pc' = [pc EXCEPT ![c] = "done"] /\ outcome' = [outcome EXCEPT ![c] = o]
      /\ deadline' = [deadline EXCEPT ![c] = 0]
  BY DEF End
<1>2. Running' = Running /\ c \notin Running
  BY <1>1 DEF Running, Inv, TypeOK
<1>3. \A d \in Running : invoice'[d] = invoice[d] /\ deadline'[d] = deadline[d]
  BY <1>1, <1>2 DEF Running, Inv, TypeOK
<1>4. TypeOK'
  BY <1>1, PruneKeeps DEF Inv, TypeOK
<1>5. MemoryInv'
  BY PruneKeeps DEF Inv
<1>6. CallInv' /\ NonceStaysSpent'
  BY <1>2, <1>3 DEF Inv, CallInv, NonceStaysSpent
<1>7. ReservationsAreHeld'
  BY <1>2, <1>3 DEF Inv, ReservationsAreHeld
<1>8. ApprovedOnce' /\ ApprovedInTime'
  BY DEF Inv, ApprovedOnce, ApprovedInTime
<1> QED
  BY <1>4, <1>5, <1>6, <1>7, <1>8 DEF Inv

(* A call that reserves its invoice.                                       *)
LEMMA ReserveKeeps ==
  ASSUME Inv, NEW c \in Call, NEW i \in Invoice,
         pc[c] = "idle", invoice' = [invoice EXCEPT ![c] = i],
         now < i.expiresAt, Conflict(i) = "NONE",
         inFlightInvoices' = inFlightInvoices \cup {i},
         inFlightNonces' = inFlightNonces \cup {i.nonce},
         pc' = [pc EXCEPT ![c] = "policy"],
         deadline' = [deadline EXCEPT ![c] = IntentExpiry(i)],
         PruneOrKeep, UNCHANGED <<now, outcome, approvals>>
  PROVE  Inv'
<1>1. Running' = Running \cup {c} /\ c \notin Running
  BY DEF Running, Inv, TypeOK
<1>2. /\ \A d \in Running : invoice'[d] = invoice[d] /\ deadline'[d] = deadline[d]
      /\ invoice'[c] = i /\ deadline'[c] = IntentExpiry(i)
  BY <1>1 DEF Running, Inv, TypeOK
<1>3. IntentExpiry(i) \in Nat /\ IntentExpiry(i) <= i.expiresAt
  <2>1. now + IntentTtl \in Nat
    BY BridgeAssumption DEF Inv, TypeOK
  <2> QED
    BY <2>1, InvoiceType, LeastType DEF IntentExpiry
<1>4. i.nonce \notin inFlightNonces
  BY DEF Conflict, InFlight
<1>5. TypeOK'
  BY <1>3, PruneKeeps, InvoiceType DEF Inv, TypeOK
<1>6. MemoryInv'
  BY PruneKeeps DEF Inv
<1>7. CallInv' /\ NonceStaysSpent'
  BY <1>1, <1>2, <1>3, ReservedIsFresh DEF Inv, CallInv, NonceStaysSpent
<1>8. ReservationsAreHeld'
  <2>1. inFlightInvoices' = {invoice'[d] : d \in Running'}
    BY <1>1, <1>2 DEF Inv, ReservationsAreHeld
  <2>2. inFlightNonces' = {invoice'[d].nonce : d \in Running'}
    BY <1>1, <1>2 DEF Inv, ReservationsAreHeld
  <2>3. \A d \in Running : invoice[d].nonce # i.nonce
    BY <1>4 DEF Inv, ReservationsAreHeld
  <2>4. \A d, e \in Running' : d # e => invoice'[d].nonce # invoice'[e].nonce
    BY <2>3, <1>1, <1>2 DEF Inv, ReservationsAreHeld
  <2> QED
    BY <2>1, <2>2, <2>4 DEF ReservationsAreHeld
<1>9. ApprovedOnce' /\ ApprovedInTime'
  BY DEF Inv, ApprovedOnce, ApprovedInTime
<1> QED
  BY <1>5, <1>6, <1>7, <1>8, <1>9 DEF Inv

(* A call that ends gives back its own reservation.                        *)
LEMMA ReleaseKeeps ==
  ASSUME Inv, NEW c \in Running, NEW o \in Outcome,
         Release(invoice[c]), End(c, o), UNCHANGED <<now, invoice>>
  PROVE  /\ Running' = Running \ {c}
         /\ \A d \in Running' : deadline'[d] = deadline[d]
         /\ ReservationsAreHeld'
         /\ inFlightInvoices' \subseteq Invoice /\ inFlightNonces' \subseteq Nonce
         /\ pc' \in [Call -> {"idle", "policy", "wallet", "done"}]
         /\ deadline' \in [Call -> Nat] /\ outcome' \in [Call -> Outcome]
<1>1. /\ pc' = [pc EXCEPT ![c] = "done"] /\ outcome' = [outcome EXCEPT ![c] = o]
      /\ deadline' = [deadline EXCEPT ![c] = 0]
      /\ inFlightInvoices' = inFlightInvoices \ {invoice[c]}
      /\ inFlightNonces' = inFlightNonces \ {invoice[c].nonce}
  BY DEF End, Release
<1>2. Running' = Running \ {c} /\ c \in Call
  BY <1>1 DEF Running, Inv, TypeOK
<1>3. \A d \in Running' : deadline'[d] = deadline[d]
  BY <1>1, <1>2 DEF Inv, TypeOK, Running
<1>4. \A d, e \in Running : d # e => invoice[d].nonce # invoice[e].nonce
  BY DEF Inv, ReservationsAreHeld
<1>5. inFlightInvoices' = {invoice'[d] : d \in Running'}
  BY <1>1, <1>2, <1>4 DEF Inv, ReservationsAreHeld
<1>6. inFlightNonces' = {invoice'[d].nonce : d \in Running'}
  BY <1>1, <1>2, <1>4 DEF Inv, ReservationsAreHeld
<1>7. ReservationsAreHeld'
  BY <1>2, <1>4, <1>5, <1>6 DEF ReservationsAreHeld
<1> QED
  BY <1>1, <1>2, <1>3, <1>7 DEF Inv, TypeOK

LEMMA RollbackKeeps ==
  ASSUME Inv, NEW c \in Running, NEW o \in Outcome, Rollback(c, o),
         UNCHANGED <<now, invoice>>
  PROVE  Inv'
<1>1. /\ Release(invoice[c]) /\ End(c, o)
      /\ UNCHANGED <<committedInvoices, committedNonces, approvals>>
  BY DEF Rollback
<1>2. /\ Running' = Running \ {c}
      /\ \A d \in Running' : deadline'[d] = deadline[d]
      /\ ReservationsAreHeld'
      /\ inFlightInvoices' \subseteq Invoice /\ inFlightNonces' \subseteq Nonce
      /\ pc' \in [Call -> {"idle", "policy", "wallet", "done"}]
      /\ deadline' \in [Call -> Nat] /\ outcome' \in [Call -> Outcome]
  BY <1>1, ReleaseKeeps
<1>3. TypeOK'
  BY <1>1, <1>2 DEF Inv, TypeOK, Maps
<1>4. CallInv' /\ NonceStaysSpent'
  BY <1>1, <1>2 DEF Inv, CallInv, NonceStaysSpent
<1>5. MemoryInv' /\ ApprovedOnce' /\ ApprovedInTime'
  BY <1>1 DEF Inv, MemoryInv, Recalled, ApprovedOnce, ApprovedInTime
<1> QED
  BY <1>2, <1>3, <1>4, <1>5 DEF Inv

(* An approval joins the others: none of them is for its invoice, and those*)
(* with its nonce have expired.                                            *)
LEMMA CommitKeeps ==
  ASSUME Inv, NEW c \in Running, NEW recordedAt \in Nat, InTime(c, recordedAt),
         Commit(c, recordedAt), UNCHANGED <<now, invoice>>
  PROVE  Inv'
<1> DEFINE a == invoice[c]
           new == [invoice |-> a, recordedAt |-> recordedAt]
<1>1. /\ Release(a) /\ End(c, "approved") /\ Remember(a)
      /\ approvals' = Append(approvals, new)
  BY DEF Commit
<1>2. /\ a \in Invoice /\ deadline[c] <= a.expiresAt /\ c \in Call
      /\ \A i \in DOMAIN approvals : approvals[i].invoice # a
  BY DEF Inv, CallInv, Running
<1>3. a.nonce \in Nonce /\ a.expiresAt \in Nat
  BY <1>2, InvoiceType
<1>4. /\ Running' = Running \ {c}
      /\ \A d \in Running' : deadline'[d] = deadline[d]
      /\ ReservationsAreHeld'
      /\ inFlightInvoices' \subseteq Invoice /\ inFlightNonces' \subseteq Nonce
      /\ pc' \in [Call -> {"idle", "policy", "wallet", "done"}]
      /\ deadline' \in [Call -> Nat] /\ outcome' \in [Call -> Outcome]
  BY <1>1, ReleaseKeeps DEF Outcome
<1>5. /\ committedInvoices' = Set(committedInvoices, a, a.expiresAt)
      /\ committedNonces' = Set(committedNonces, a.nonce, a.expiresAt)
  BY <1>1 DEF Remember
<1>6. /\ approvals' \in Seq([invoice : Invoice, recordedAt : Nat])
      /\ Len(approvals) \in Nat
      /\ DOMAIN approvals = 1 .. Len(approvals)
      /\ DOMAIN approvals' = 1 .. Len(approvals) + 1
      /\ \A i \in DOMAIN approvals : approvals'[i] = approvals[i]
      /\ approvals'[Len(approvals) + 1] = new
  <2> DEFINE Approval == [invoice : Invoice, recordedAt : Nat]
  <2>1. new \in Approval
    BY <1>2
  <2>2. approvals \in Seq(Approval)
    BY DEF Inv, TypeOK
  <2> HIDE DEF Approval, new
  <2>3. approvals' \in Seq(Approval)
    BY <2>1, <2>2, <1>1
  <2>4. /\ Len(approvals) \in Nat
        /\ DOMAIN approvals = 1 .. Len(approvals)
        /\ DOMAIN approvals' = 1 .. Len(approvals) + 1
        /\ \A i \in DOMAIN approvals : approvals'[i] = approvals[i]
        /\ approvals'[Len(approvals) + 1] = new
    BY <2>1, <2>2, <1>1
  <2> QED
    BY <2>3, <2>4 DEF Approval
<1>7. \A i \in DOMAIN approvals' :
        \/ i \in DOMAIN approvals /\ approvals'[i] = approvals[i]
        \/ i = Len(approvals) + 1 /\ approvals'[i] = new
  BY <1>6
<1>8. new.invoice = a /\ new.recordedAt = recordedAt
  OBVIOUS
<1> HIDE DEF a, new
<1>9. TypeOK'
  <2>1. Maps(committedInvoices, Invoice, Nat)' /\ Maps(committedNonces, Nonce, Nat)'
    BY <1>2, <1>3, <1>5 DEF Inv, TypeOK, Maps, Set
  <2> QED
    BY <2>1, <1>4, <1>6 DEF Inv, TypeOK
<1>10. \A d \in Running' : invoice[d].nonce # a.nonce /\ invoice[d] # a
  BY <1>4 DEF Inv, ReservationsAreHeld, a
<1>11. CallInv'
  <2> SUFFICES ASSUME NEW d \in Running'
               PROVE  /\ invoice'[d] \in Invoice
                      /\ deadline'[d] <= invoice'[d].expiresAt
                      /\ \A i \in DOMAIN approvals' :
                           approvals'[i].invoice # invoice'[d]
    BY DEF CallInv
  <2> QED
    BY <1>4, <1>7, <1>8, <1>10 DEF Inv, CallInv
<1>12. NonceStaysSpent'
  <2> SUFFICES ASSUME NEW i \in DOMAIN approvals',
                      now < approvals'[i].invoice.expiresAt, NEW d \in Running'
               PROVE  invoice[d].nonce # approvals'[i].invoice.nonce
    BY DEF NonceStaysSpent
  <2> QED
    BY <1>4, <1>7, <1>8, <1>10 DEF Inv, NonceStaysSpent
<1>13. MemoryInv'
  <2> SUFFICES ASSUME NEW i \in DOMAIN approvals', NEW b,
                      b = approvals'[i].invoice, ~(b.expiresAt <= now)
               PROVE  Recalled(b)'
    BY DEF MemoryInv, Recalled
  <2>1. CASE i \in DOMAIN approvals /\ approvals'[i] = approvals[i]
    <3>1. Recalled(b)
      BY <2>1 DEF Inv, MemoryInv
    <3>2. now < b.expiresAt
      BY <2>1, ApprovalType DEF Inv, TypeOK
    <3>3. b.nonce # a.nonce /\ b # a
      BY <2>1, <3>2, <1>2 DEF Inv, NonceStaysSpent, a
    <3> QED
      BY <3>1, <3>3, <1>5 DEF Recalled, Set
  <2>2. CASE approvals'[i] = new
    BY <2>2, <1>5, <1>8 DEF Recalled, Set
  <2> QED
    BY <2>1, <2>2, <1>7
<1>14. ApprovedOnce'
  BY <1>2, <1>7, <1>8 DEF Inv, ApprovedOnce
<1>15. ApprovedInTime'
  <2>1. recordedAt < a.expiresAt
    BY <1>2, <1>3 DEF InTime, Inv, TypeOK
  <2> QED
    BY <2>1, <1>7, <1>8 DEF Inv, ApprovedInTime
<1> QED
  BY <1>4, <1>9, <1>11, <1>12, <1>13, <1>14, <1>15 DEF Inv
-----------------------------------------------------------------------------
(* The steps.                                                              *)

LEMMA AuthorizeStep ==
  ASSUME Inv, NEW c \in Call, NEW i \in Invoice, Authorize(c, i)
  PROVE  Inv'
<1>1. /\ pc[c] = "idle" /\ invoice' = [invoice EXCEPT ![c] = i]
      /\ UNCHANGED <<now, approvals>>
  BY DEF Authorize
<1>2. ASSUME NEW o \in Outcome, End(c, o), PruneOrKeep,
             UNCHANGED <<inFlightInvoices, inFlightNonces>>
      PROVE  Inv'
  BY <1>1, <1>2, RefusalKeeps
<1>3. CASE now < i.issuedAt /\ End(c, "INVOICE_NOT_YET_VALID") /\ UNCHANGED cacheVars
  BY <1>2, <1>3 DEF Outcome, PruneOrKeep, cacheVars
<1>4. CASE now >= i.expiresAt /\ End(c, "INVOICE_EXPIRED") /\ UNCHANGED cacheVars
  BY <1>2, <1>4 DEF Outcome, PruneOrKeep, cacheVars
<1>5. ASSUME now < i.expiresAt,
             committedInvoices' = Pruned(committedInvoices),
             committedNonces' = Pruned(committedNonces),
             \/ /\ Conflict(i) # "NONE"
                /\ OutsideTry(i)
                /\ End(c, Conflict(i))
             \/ /\ Conflict(i) = "NONE"
                /\ UNCHANGED <<inFlightInvoices, inFlightNonces>>
                /\ \/ End(c, "INVOICE_EXPIRED")
                   \/ End(c, "INSUFFICIENT_FUNDS_LIMIT")
      PROVE  Inv'
  <2>1. PruneOrKeep
    BY <1>5 DEF PruneOrKeep
  <2>2. UNCHANGED <<inFlightInvoices, inFlightNonces>>
    BY <1>5 DEF OutsideTry
  <2>3. Conflict(i) \in Outcome
    BY DEF Conflict, Outcome
  <2>4. PICK o \in Outcome : End(c, o)
    BY <1>5, <2>3 DEF Outcome
  <2> QED
    BY <2>1, <2>2, <2>4, <1>2
<1>6. ASSUME now < i.expiresAt, Conflict(i) = "NONE",
             committedInvoices' = Pruned(committedInvoices),
             committedNonces' = Pruned(committedNonces),
             inFlightInvoices' = inFlightInvoices \cup {i},
             inFlightNonces' = inFlightNonces \cup {i.nonce},
             pc' = [pc EXCEPT ![c] = "policy"],
             deadline' = [deadline EXCEPT ![c] = IntentExpiry(i)],
             UNCHANGED outcome
      PROVE  Inv'
  <2>1. PruneOrKeep
    BY <1>6 DEF PruneOrKeep
  <2> QED
    BY <2>1, <1>1, <1>6, ReserveKeeps
<1> QED
  BY <1>3, <1>4, <1>5, <1>6 DEF Authorize

LEMMA PolicyStep ==
  ASSUME Inv, NEW c \in Call, PolicyAnswers(c)
  PROVE  Inv'
<1>1. c \in Running /\ pc[c] = "policy" /\ UNCHANGED <<now, invoice>>
  BY DEF PolicyAnswers, Running
<1>2. ASSUME NEW o \in Outcome, Rollback(c, o) PROVE Inv'
  BY <1>1, <1>2, RollbackKeeps
<1>3. ASSUME NEW until \in Policy,
             pc' = [pc EXCEPT ![c] = "wallet"],
             deadline' = [deadline EXCEPT ![c] = Least(deadline[c], until)],
             UNCHANGED <<cacheVars, outcome, approvals>>
      PROVE  Inv'
  <2>1. /\ Least(deadline[c], until) \in Nat
        /\ Least(deadline[c], until) <= deadline[c] /\ deadline[c] \in Nat
    BY LeastType, BridgeAssumption DEF Inv, TypeOK
  <2>2. Running' = Running
    BY <1>1, <1>3 DEF Running, Inv, TypeOK
  <2>3. TypeOK'
    BY <1>1, <1>3, <2>1 DEF Inv, TypeOK, cacheVars, Maps
  <2>4. CallInv'
    <3> SUFFICES ASSUME NEW d \in Running
                 PROVE  deadline'[d] <= invoice[d].expiresAt
      BY <1>1, <1>3, <2>2 DEF CallInv, Inv
    <3>1. /\ deadline[d] \in Nat /\ deadline[d] <= invoice[d].expiresAt
          /\ invoice[d].expiresAt \in Nat /\ d \in Call
      BY InvoiceType DEF Inv, CallInv, TypeOK, Running
    <3> QED
      BY <3>1, <2>1, <1>3 DEF Inv, TypeOK
  <2>5. NonceStaysSpent' /\ ReservationsAreHeld'
    BY <1>1, <1>3, <2>2 DEF Inv, NonceStaysSpent, ReservationsAreHeld, cacheVars
  <2>6. MemoryInv' /\ ApprovedOnce' /\ ApprovedInTime'
    BY <1>1, <1>3
       DEF Inv, MemoryInv, Recalled, ApprovedOnce, ApprovedInTime, cacheVars
  <2> QED
    BY <2>3, <2>4, <2>5, <2>6 DEF Inv
<1> QED
  BY <1>2, <1>3 DEF PolicyAnswers, Outcome

LEMMA WalletStep ==
  ASSUME Inv, NEW c \in Call, WalletAnswers(c)
  PROVE  Inv'
<1>1. c \in Running /\ UNCHANGED <<now, invoice>>
  BY DEF WalletAnswers, Running
<1>2. ASSUME NEW o \in Outcome, Rollback(c, o) PROVE Inv'
  BY <1>1, <1>2, RollbackKeeps
<1>3. ASSUME NEW t \in 0 .. now, InTime(c, t), Commit(c, t) PROVE Inv'
  <2>1. t \in Nat
    BY DEF Inv, TypeOK
  <2> QED
    BY <2>1, <1>1, <1>3, CommitKeeps
<1> QED
  BY <1>2, <1>3 DEF WalletAnswers, Outcome

LEMMA ReturnStep ==
  ASSUME Inv, NEW c \in Call, Return(c)
  PROVE  Inv'
<1>1. /\ pc[c] = "done" /\ pc' = [pc EXCEPT ![c] = "idle"]
      /\ invoice' = [invoice EXCEPT ![c] = NoInvoice]
      /\ outcome' = [outcome EXCEPT ![c] = "NONE"]
      /\ UNCHANGED <<now, cacheVars, deadline, approvals>>
  BY DEF Return
<1>2. Running' = Running /\ \A d \in Running : invoice'[d] = invoice[d]
  BY <1>1 DEF Running, Inv, TypeOK
<1>3. TypeOK'
  BY <1>1 DEF Inv, TypeOK, cacheVars, Maps, Outcome
<1>4. CallInv' /\ NonceStaysSpent' /\ ReservationsAreHeld'
  BY <1>1, <1>2
     DEF Inv, CallInv, NonceStaysSpent, ReservationsAreHeld, cacheVars
<1>5. MemoryInv' /\ ApprovedOnce' /\ ApprovedInTime'
  BY <1>1 DEF Inv, MemoryInv, Recalled, ApprovedOnce, ApprovedInTime, cacheVars
<1> QED
  BY <1>3, <1>4, <1>5 DEF Inv

LEMMA TickStep ==
  ASSUME Inv, now' \in Nat, now' >= now,
         UNCHANGED <<cacheVars, callVars, approvals>>
  PROVE  Inv'
<1>1. Running' = Running
  BY DEF Running, callVars
<1>2. TypeOK'
  BY DEF Inv, TypeOK, cacheVars, callVars, Maps
<1>3. CallInv' /\ ReservationsAreHeld'
  BY <1>1 DEF Inv, CallInv, ReservationsAreHeld, cacheVars, callVars
<1>4. \A i \in DOMAIN approvals : approvals[i].invoice.expiresAt \in Nat
  BY ApprovalType DEF Inv
<1>5. MemoryInv' /\ NonceStaysSpent'
  BY <1>1, <1>4
     DEF Inv, TypeOK, MemoryInv, Recalled, NonceStaysSpent, cacheVars, callVars
<1>6. ApprovedOnce' /\ ApprovedInTime'
  BY DEF Inv, ApprovedOnce, ApprovedInTime
<1> QED
  BY <1>2, <1>3, <1>5, <1>6 DEF Inv
-----------------------------------------------------------------------------
LEMMA InitInv ==
  ASSUME Init
  PROVE  Inv
<1>1. TypeOK
  BY DEF Init, TypeOK, Maps, Empty, Outcome
<1>2. Running = {}
  BY DEF Init, Running
<1> QED
  BY <1>1, <1>2
     DEF Init, Inv, CallInv, MemoryInv, ApprovedOnce, ReservationsAreHeld,
         ApprovedInTime, NonceStaysSpent

LEMMA NextInv ==
  ASSUME Inv, [Next]_vars
  PROVE  Inv'
<1>1. CASE Tick
  BY <1>1, TickStep DEF Tick, Inv, TypeOK
<1>2. ASSUME NEW c \in Call,
             \/ \E i \in Invoice : Authorize(c, i)
             \/ PolicyAnswers(c) \/ WalletAnswers(c) \/ Return(c)
      PROVE  Inv'
  BY <1>2, AuthorizeStep, PolicyStep, WalletStep, ReturnStep
<1>3. CASE UNCHANGED vars
  BY <1>3, TickStep DEF vars, Inv, TypeOK
<1> QED
  BY <1>1, <1>2, <1>3 DEF Next

LEMMA InvHolds == Spec => []Inv
<1>1. Init => Inv
  BY InitInv
<1>2. Inv /\ [Next]_vars => Inv'
  BY NextInv
<1> QED
  BY <1>1, <1>2, PTL DEF Spec
-----------------------------------------------------------------------------
(* The replay cache and the calls of the bridge keep their types.          *)
THEOREM TypeCorrect == Spec => []TypeOK
<1>1. Inv => TypeOK
  BY DEF Inv
<1> QED
  BY <1>1, InvHolds, PTL

(* An invoice is approved once, although the cache forgets it at expiry.   *)
THEOREM ApprovedOnlyOnce == Spec => []ApprovedOnce
<1>1. Inv => ApprovedOnce
  BY DEF Inv
<1> QED
  BY <1>1, InvHolds, PTL

(* The reservations are those of the calls under way, whatever fails.      *)
THEOREM ReservationsHeld == Spec => []ReservationsAreHeld
<1>1. Inv => ReservationsAreHeld
  BY DEF Inv
<1> QED
  BY <1>1, InvHolds, PTL

(* What a human decides counts only if it was decided before the invoice   *)
(* expired, however late it arrives.                                       *)
THEOREM ApprovalsInTime == Spec => []ApprovedInTime
<1>1. Inv => ApprovedInTime
  BY DEF Inv
<1> QED
  BY <1>1, InvHolds, PTL

(* The nonce of an approved invoice is not free while the invoice is valid.*)
THEOREM NoncesStaySpent == Spec => []NonceStaysSpent
<1>1. Inv => NonceStaysSpent
  BY DEF Inv
<1> QED
  BY <1>1, InvHolds, PTL
=============================================================================
