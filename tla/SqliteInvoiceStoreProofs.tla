---------------------- MODULE SqliteInvoiceStoreProofs ----------------------
(***************************************************************************)
(* Proofs about SqliteInvoiceStore for any number of processes, calls,     *)
(* invoices and transactions.  The inductive invariant Inv says, beside    *)
(* types, that the write lock and the program counters agree, that what an *)
(* open transaction is about to commit was checked against the rows that   *)
(* are still there, and that the indexes given out are an initial segment. *)
(***************************************************************************)
EXTENDS SqliteInvoiceStore, TLAPS

InTransaction == {"open", "written"}

RequestInv ==
  \A c \in Call :
    /\ pc[c] # "idle" => req[c] \in Request
    /\ pc[c] = "counting" => req[c].op = "issue"
    /\ pc[c] \in {"ready", "open"} /\ req[c].op = "issue" => index[c] \in Nat

LockInv == \A c \in Call : pc[c] \in InTransaction <=> writer = c

(* A draft to insert clashes with no row; a draft to update is an unpaid   *)
(* row with a txid that no row has.                                        *)
DraftInv ==
  \A c \in Call : pc[c] = "written" =>
    /\ draft[c] \in Row
    /\ code[c] \in {"ISSUED", "PAID"}
    /\ code[c] = "ISSUED" => Free(draft[c]) /\ ~Paid(draft[c])
    /\ code[c] = "PAID" =>
         /\ draft[c].txid \in Txid
         /\ \A r \in rows : r.txid # draft[c].txid
         /\ \E r \in rows : ~Paid(r) /\ draft[c] = [r EXCEPT !.txid = draft[c].txid]

UpTo(n) ==
  /\ \A r \in rows : r.index < n
  /\ \A i \in 0 .. n - 1 : \E r \in rows : r.index = i
  /\ \A c \in Call : index[c] # NoIndex => index[c] <= n
  /\ \A c \in Call : pc[c] = "written" /\ code[c] = "ISSUED" => draft[c].index <= n

IndexInv == \E n \in Nat : UpTo(n)

Inv == TypeOK /\ RequestInv /\ LockInv /\ DraftInv /\ IndexInv /\ UniqueRows
-----------------------------------------------------------------------------
(* MAX + 1 over an initial segment of the naturals is its length.          *)
LEMMA NextIndexIsLength ==
  ASSUME TypeOK, NEW n \in Nat,
         \A r \in rows : r.index < n,
         \A i \in 0 .. n - 1 : \E r \in rows : r.index = i
  PROVE  NextIndex(rows) = n
<1> DEFINE I == {r.index : r \in rows}
           IsMax(m) == \A r \in rows : r.index <= m
<1>1. \A r \in rows : r.index \in Nat
  BY DEF TypeOK, Row
<1>2. CASE rows = {}
  <2>1. n = 0
    BY <1>2
  <2> QED
    BY <1>2, <2>1 DEF NextIndex
<1>3. CASE rows # {}
  <2>1. n > 0 /\ n - 1 \in 0 .. n - 1
    BY <1>3, <1>1
  <2>2. n - 1 \in I /\ IsMax(n - 1)
    BY <2>1, <1>1
  <2>3. \A m \in I : IsMax(m) => m = n - 1
    BY <2>2, <1>1, <2>1
  <2> DEFINE M == CHOOSE m \in I : IsMax(m)
  <2>4. M = n - 1
    BY <2>2, <2>3
  <2>5. NextIndex(rows) = 1 + M
    BY <1>3, Zenon DEF NextIndex
  <2> HIDE DEF M
  <2> QED
    BY <2>4, <2>5, <2>1
<1> QED
  BY <1>2, <1>3

(* A call that is in a transaction is the only one.                        *)
LEMMA OneWriter ==
  ASSUME LockInv, NEW c \in Call, NEW d \in Call,
         pc[c] \in InTransaction, pc[d] \in InTransaction
  PROVE  c = d
BY DEF LockInv

(* The row an INSERT writes is well typed, unpaid, and carries the index   *)
(* it was given.                                                           *)
LEMMA NewRowType ==
  ASSUME NEW n \in Nonce, NEW a \in Address, NEW i \in Nat
  PROVE  /\ NewRow(n, a, i) \in Row
         /\ ~Paid(NewRow(n, a, i))
         /\ NewRow(n, a, i).index = i
BY DEF NewRow, Row, Hash, InvoiceHash, Paid

(* An empty database with no call in flight satisfies the invariant.       *)
LEMMA InitInv == Init => Inv
<1> SUFFICES ASSUME Init PROVE Inv
  OBVIOUS
<1>1. TypeOK /\ RequestInv /\ DraftInv /\ UniqueRows
  BY DEF Init, TypeOK, RequestInv, DraftInv, UniqueRows
<1>2. LockInv
  BY StoreAssumption DEF Init, LockInv, InTransaction
<1>3. UpTo(0)
  BY DEF Init, UpTo
<1> QED
  BY <1>1, <1>2, <1>3 DEF Inv, IndexInv

(* Steps that leave the table and every draft in place preserve the        *)
(* invariant when they preserve types and the lock.                        *)
LEMMA InvokeInv ==
  ASSUME Inv, NEW c \in Call, NEW q \in Request, Invoke(c, q)
  PROVE  Inv'
<1> USE DEF Inv
<1>1. TypeOK'
  BY DEF Invoke, TypeOK
<1>2. RequestInv'
  BY DEF Invoke, TypeOK, RequestInv, Request, IssueRequest, AllocRequest, CommitRequest
<1>3. LockInv'
  BY DEF Invoke, TypeOK, LockInv, InTransaction
<1>4. DraftInv'
  BY DEF Invoke, TypeOK, DraftInv, Free, Clash, Paid
<1>5. IndexInv'
  <2> PICK n \in Nat : UpTo(n)
    BY DEF IndexInv
  <2>1. UpTo(n)'
    BY DEF Invoke, TypeOK, UpTo
  <2> QED
    BY <2>1 DEF IndexInv
<1>6. UniqueRows'
  BY DEF Invoke, UniqueRows, Clash, Paid
<1> QED
  BY <1>1, <1>2, <1>3, <1>4, <1>5, <1>6

(* issue reads MAX + 1 outside its transaction: the index it takes away is *)
(* at most the length of the segment in use, then and later.               *)
LEMMA ReadIndexInv ==
  ASSUME Inv, NEW c \in Call, ReadIndex(c)
  PROVE  Inv'
<1> USE DEF Inv
<1> PICK n \in Nat : UpTo(n)
  BY DEF IndexInv
<1>0. NextIndex(rows) = n
  BY NextIndexIsLength DEF UpTo
<1>1. TypeOK'
  BY <1>0 DEF ReadIndex, TypeOK
<1>2. RequestInv'
  BY <1>0 DEF ReadIndex, TypeOK, RequestInv
<1>3. LockInv'
  BY DEF ReadIndex, TypeOK, LockInv, InTransaction
<1>4. DraftInv'
  BY DEF ReadIndex, TypeOK, DraftInv, Free, Clash, Paid
<1>5. UpTo(n)'
  BY <1>0 DEF ReadIndex, TypeOK, UpTo
<1>6. UniqueRows'
  BY DEF ReadIndex, UniqueRows, Clash, Paid
<1> QED
  BY <1>1, <1>2, <1>3, <1>4, <1>5, <1>6 DEF IndexInv

(* BEGIN IMMEDIATE is granted to one call only.                            *)
LEMMA BeginInv ==
  ASSUME Inv, NEW c \in Call, Begin(c)
  PROVE  Inv'
<1> USE DEF Inv, callVars
<1>1. TypeOK'
  BY DEF Begin, TypeOK
<1>2. RequestInv'
  BY DEF Begin, TypeOK, RequestInv
<1>3. LockInv'
  BY StoreAssumption DEF Begin, TypeOK, LockInv, InTransaction
<1>4. DraftInv'
  BY DEF Begin, TypeOK, DraftInv, Free, Clash, Paid
<1>5. IndexInv'
  <2> PICK n \in Nat : UpTo(n)
    BY DEF IndexInv
  <2>1. UpTo(n)'
    BY DEF Begin, TypeOK, UpTo
  <2> QED
    BY <2>1 DEF IndexInv
<1>6. UniqueRows'
  BY DEF Begin, UniqueRows, Clash, Paid
<1> QED
  BY <1>1, <1>2, <1>3, <1>4, <1>5, <1>6

(* A BEGIN that times out leaves the holder of the lock undisturbed.       *)
LEMMA BusyInv ==
  ASSUME Inv, NEW c \in Call, Busy(c)
  PROVE  Inv'
<1> USE DEF Inv
<1>1. TypeOK'
  BY DEF Busy, TypeOK, Refused
<1>2. RequestInv'
  BY DEF Busy, TypeOK, RequestInv
<1>3. LockInv'
  BY DEF Busy, TypeOK, LockInv, InTransaction
<1>4. DraftInv'
  BY DEF Busy, TypeOK, DraftInv, Free, Clash, Paid
<1>5. IndexInv'
  <2> PICK n \in Nat : UpTo(n)
    BY DEF IndexInv
  <2>1. UpTo(n)'
    BY DEF Busy, TypeOK, UpTo
  <2> QED
    BY <2>1 DEF IndexInv
<1>6. UniqueRows'
  BY DEF Busy, UniqueRows, Clash, Paid
<1> QED
  BY <1>1, <1>2, <1>3, <1>4, <1>5, <1>6

(* Rolling back forgets the draft and nothing else.                        *)
LEMMA RollbackInv ==
  ASSUME Inv, NEW c \in Call, pc[c] \in InTransaction,
         NEW o \in Settled \cup Refused, NEW r \in Row \cup {NoRow},
         Rollback(c, o, r), UNCHANGED req,
         \/ UNCHANGED index
         \/ index' = [index EXCEPT ![c] = NextIndex(rows)]
  PROVE  Inv'
<1> USE DEF Inv
<1> PICK n \in Nat : UpTo(n)
  BY DEF IndexInv
<1>0. NextIndex(rows) = n
  BY NextIndexIsLength DEF UpTo
<1>1. TypeOK'
  BY <1>0 DEF Rollback, TypeOK
<1>2. RequestInv'
  BY <1>0 DEF Rollback, TypeOK, RequestInv, InTransaction
<1>3. LockInv'
  BY StoreAssumption DEF Rollback, TypeOK, LockInv, InTransaction
<1>4. DraftInv'
  BY DEF Rollback, TypeOK, DraftInv, Free, Clash, Paid
<1>5. UpTo(n)'
  BY <1>0 DEF Rollback, TypeOK, UpTo
<1>6. UniqueRows'
  BY DEF Rollback, UniqueRows, Clash, Paid
<1> QED
  BY <1>1, <1>2, <1>3, <1>4, <1>5, <1>6 DEF IndexInv

(* A checked insertion: either the draft is free, or the call rolls back.  *)
LEMMA InsertInv ==
  ASSUME Inv, NEW c \in Call, pc[c] = "open", NEW r \in Row, ~Paid(r),
         Insert(c, r), UNCHANGED req, r.index <= NextIndex(rows),
         \/ UNCHANGED index
         \/ index' = [index EXCEPT ![c] = NextIndex(rows)]
  PROVE  Inv'
<1> USE DEF Inv
<1> PICK n \in Nat : UpTo(n)
  BY DEF IndexInv
<1>0. NextIndex(rows) = n
  BY NextIndexIsLength DEF UpTo
<1>1. CASE ~Free(r)
  <2>1. Rollback(c, "UNIQUE", NoRow)
    BY <1>1 DEF Insert
  <2> QED
    BY <2>1, RollbackInv DEF InTransaction, Refused
<1>2. CASE Free(r)
  <2>1. Write(c, "ISSUED", r)
    BY <1>2 DEF Insert
  <2>2. TypeOK'
    BY <1>0, <2>1 DEF Write, TypeOK, Issued
  <2>3. RequestInv'
    BY <1>0, <2>1 DEF Write, TypeOK, RequestInv
  <2>4. LockInv'
    BY <2>1 DEF Write, TypeOK, LockInv, InTransaction
  <2>5. DraftInv'
    BY <1>2, <2>1 DEF Write, TypeOK, DraftInv, Free, Clash, Paid
  <2>6. UpTo(n)'
    BY <1>0, <2>1 DEF Write, TypeOK, UpTo
  <2>7. UniqueRows'
    BY <2>1 DEF Write, UniqueRows, Clash, Paid
  <2> QED
    BY <2>2, <2>3, <2>4, <2>5, <2>6, <2>7 DEF IndexInv
<1> QED
  BY <1>1, <1>2

(* issue inserts with an index that may be stale but never too large.      *)
LEMMA IssueInv ==
  ASSUME Inv, NEW c \in Call, Issue(c)
  PROVE  Inv'
<1> DEFINE r == NewRow(req[c].nonce, req[c].payTo, index[c])
<1> PICK n \in Nat : UpTo(n)
  BY DEF Inv, IndexInv
<1>1. NextIndex(rows) = n
  BY NextIndexIsLength DEF UpTo, Inv
<1>2. req[c] \in IssueRequest
  BY DEF Inv, RequestInv, Issue, Request, IssueRequest, AllocRequest, CommitRequest
<1>3. index[c] \in Nat /\ index[c] <= n
  BY StoreAssumption DEF Inv, RequestInv, Issue, UpTo
<1>4. r \in Row /\ ~Paid(r) /\ r.index <= NextIndex(rows)
  BY <1>1, <1>2, <1>3, NewRowType, StoreAssumption DEF IssueRequest
<1> HIDE DEF r
<1> QED
  BY <1>4, InsertInv DEF Issue, r

(* issueWithAllocation computes its index inside the transaction.          *)
LEMMA IssueWithAllocationInv ==
  ASSUME Inv, NEW c \in Call, IssueWithAllocation(c)
  PROVE  Inv'
<1> DEFINE i == NextIndex(rows)
           r == NewRow(req[c].nonce, Derive[i], i)
<1> PICK n \in Nat : UpTo(n)
  BY DEF Inv, IndexInv
<1>1. i = n
  BY NextIndexIsLength DEF UpTo, Inv
<1> HIDE DEF i
<1>2. req[c] \in AllocRequest
  BY DEF Inv, RequestInv, IssueWithAllocation, Request, IssueRequest,
         AllocRequest, CommitRequest
<1>3. CASE i < IndexLimit /\ Insert(c, r)
  <2>1. Derive[i] \in Address
    BY <1>1, <1>3, StoreAssumption
  <2>2. r \in Row /\ ~Paid(r) /\ r.index <= NextIndex(rows)
    BY <1>1, <1>2, <2>1, NewRowType DEF AllocRequest, i
  <2> HIDE DEF r
  <2> QED
    BY <1>3, <2>2, InsertInv DEF IssueWithAllocation, i
<1>4. CASE Rollback(c, "RANGE", NoRow)
  BY <1>4, RollbackInv DEF IssueWithAllocation, InTransaction, Refused
<1> QED
  BY <1>3, <1>4 DEF IssueWithAllocation, i

(* An unpaid row with a txid no row has becomes the draft.                 *)
LEMMA CommitPaidInv ==
  ASSUME Inv, NEW c \in Call, CommitPaid(c)
  PROVE  Inv'
<1> DEFINE h == req[c].hash
           t == req[c].txid
<1>0. req[c] \in CommitRequest
  BY DEF Inv, RequestInv, CommitPaid, Request, IssueRequest, AllocRequest, CommitRequest
<1>1. ASSUME NEW o \in Settled \cup Refused, NEW r \in Row \cup {NoRow}, Rollback(c, o, r)
      PROVE  Inv'
  BY <1>1, RollbackInv DEF CommitPaid, InTransaction
<1>2. ASSUME NEW r \in rows, ~SettledElsewhere(h, t), r.hash = h, ~Paid(r),
             Write(c, "PAID", [r EXCEPT !.txid = t])
      PROVE  Inv'
  <2> DEFINE u == [r EXCEPT !.txid = t]
  <2>1. r \in Row /\ t \in Txid /\ u \in Row /\ u.txid = t /\ u = [r EXCEPT !.txid = u.txid]
    BY <1>0 DEF Inv, TypeOK, Row, CommitRequest
  <2>2. \A s \in rows : s.txid # t
    BY <1>2, <2>1, StoreAssumption DEF SettledElsewhere, Inv, UniqueRows, Clash, Paid
  <2> HIDE DEF u
  <2>3. Write(c, "PAID", u) /\ UNCHANGED <<req, index>> /\ pc[c] = "open"
    BY <1>2 DEF CommitPaid, u
  <2> HIDE DEF h, t
  <2> USE DEF Inv
  <2>4. TypeOK'
    BY <2>1, <2>3 DEF Write, TypeOK, Settled
  <2>5. RequestInv'
    BY <2>3 DEF Write, TypeOK, RequestInv
  <2>6. LockInv'
    BY <2>3 DEF Write, TypeOK, LockInv, InTransaction
  <2>7. DraftInv'
    <3> SUFFICES ASSUME NEW d \in Call, pc'[d] = "written"
                 PROVE  /\ draft'[d] \in Row
                        /\ code'[d] \in {"ISSUED", "PAID"}
                        /\ code'[d] = "ISSUED" => Free(draft[d])' /\ ~Paid(draft'[d])
                        /\ code'[d] = "PAID" =>
                             /\ draft'[d].txid \in Txid
                             /\ \A s \in rows' : s.txid # draft'[d].txid
                             /\ \E s \in rows' :
                                  /\ ~Paid(s)
                                  /\ draft'[d] = [s EXCEPT !.txid = draft'[d].txid]
      BY Zenon DEF DraftInv
    <3>1. d = c
      BY <2>3, OneWriter DEF Write, TypeOK, InTransaction
    <3> QED
      BY <3>1, <2>1, <2>2, <2>3, <1>2 DEF Write, TypeOK, Paid
  <2>8. IndexInv'
    <3> PICK n \in Nat : UpTo(n)
      BY DEF IndexInv
    <3>1. UpTo(n)'
      BY <2>3 DEF Write, TypeOK, UpTo
    <3> QED
      BY <3>1 DEF IndexInv
  <2>9. UniqueRows'
    BY <2>3 DEF Write, UniqueRows, Clash, Paid
  <2> QED
    BY <2>4, <2>5, <2>6, <2>7, <2>8, <2>9
<1> QED
  BY <1>1, <1>2 DEF CommitPaid, Settled, Refused, Inv, TypeOK

(* What COMMIT does to the table: it adds a row that clashes with none, or *)
(* marks one unpaid row as paid and leaves the others alone.               *)
LEMMA CommitEffect ==
  ASSUME Inv, NEW c \in Call, Commit(c)
  PROVE  \/ /\ code[c] = "ISSUED"
            /\ Free(draft[c])
            /\ rows' = rows \cup {draft[c]}
         \/ /\ code[c] = "PAID"
            /\ draft[c].txid \in Txid
            /\ \A s \in rows : s.txid # draft[c].txid
            /\ \E r \in rows : /\ ~Paid(r)
                               /\ draft[c] = [r EXCEPT !.txid = draft[c].txid]
                               /\ rows' = (rows \ {r}) \cup {draft[c]}
<1> USE DEF Inv
<1>1. CASE code[c] = "ISSUED"
  BY <1>1 DEF Commit, DraftInv, Free, Clash
<1>2. CASE code[c] = "PAID"
  <2> PICK r \in rows : ~Paid(r) /\ draft[c] = [r EXCEPT !.txid = draft[c].txid]
    BY <1>2 DEF Commit, DraftInv
  <2>1. draft[c].hash = r.hash
    BY DEF TypeOK, Row
  <2>2. {s \in rows : s.hash # draft[c].hash} = rows \ {r}
    BY <2>1 DEF UniqueRows, Clash
  <2> QED
    BY <1>2, <2>2 DEF Commit, DraftInv
<1> QED
  BY <1>1, <1>2 DEF Commit, DraftInv

(* COMMIT preserves every part of the invariant, for the committing call   *)
(* and for the calls that hold an older index.                             *)
LEMMA CommitInv ==
  ASSUME Inv, NEW c \in Call, Commit(c)
  PROVE  Inv'
<1> USE DEF Inv, callVars
<1>0. draft[c] \in Row
  BY DEF Commit, DraftInv
<1>1. TypeOK'
  BY <1>0 DEF Commit, TypeOK
<1>2. RequestInv'
  BY DEF Commit, TypeOK, RequestInv
<1>3. LockInv'
  BY StoreAssumption DEF Commit, TypeOK, LockInv, InTransaction
<1>4. DraftInv'
  <2> SUFFICES ASSUME NEW d \in Call, pc'[d] = "written" PROVE FALSE
    BY Zenon DEF DraftInv
  <2>1. d # c /\ pc[d] = "written"
    BY DEF Commit, TypeOK
  <2> QED
    BY <2>1, OneWriter DEF Commit, InTransaction
<1>5. CASE /\ code[c] = "ISSUED"
           /\ Free(draft[c])
           /\ rows' = rows \cup {draft[c]}
  <2>1. UniqueRows'
    <3>1. \A r, s : Clash(r, s)' <=> Clash(r, s)
      BY DEF Clash, Paid
    <3>2. \A s \in rows : ~Clash(draft[c], s) /\ ~Clash(s, draft[c])
      BY <1>5 DEF Free, Clash, Paid
    <3> QED
      BY <1>5, <3>1, <3>2 DEF UniqueRows
  <2>2. IndexInv'
    <3> PICK n \in Nat : UpTo(n)
      BY DEF IndexInv
    <3>1. draft[c].index = n
      <4>1. draft[c].index \in Nat /\ draft[c].index <= n
        BY <1>0, <1>5 DEF UpTo, Row, Commit
      <4>2. draft[c].index \notin 0 .. n - 1
        BY <1>5 DEF Free, Clash, UpTo
      <4> QED
        BY <4>1, <4>2
    <3>2. UpTo(n + 1)'
      <4>1. \A r \in rows' : r.index < n + 1
        BY <1>5, <3>1 DEF UpTo, TypeOK, Row
      <4>2. \A i \in 0 .. (n + 1) - 1 : \E r \in rows' : r.index = i
        BY <1>5, <3>1 DEF UpTo
      <4>3. \A d \in Call : index'[d] # NoIndex => index'[d] <= n + 1
        BY StoreAssumption DEF UpTo, Commit, TypeOK
      <4>4. \A d \in Call : pc'[d] # "written"
        BY OneWriter DEF Commit, TypeOK, InTransaction
      <4> QED
        BY <4>1, <4>2, <4>3, <4>4 DEF UpTo
    <3> QED
      BY <3>2 DEF IndexInv
  <2> QED
    BY <1>1, <1>2, <1>3, <1>4, <2>1, <2>2
<1>6. ASSUME draft[c].txid \in Txid,
             \A s \in rows : s.txid # draft[c].txid,
             NEW r \in rows, ~Paid(r), draft[c] = [r EXCEPT !.txid = draft[c].txid],
             rows' = (rows \ {r}) \cup {draft[c]}
      PROVE  Inv'
  <2>1. /\ draft[c].hash = r.hash /\ draft[c].nonce = r.nonce
        /\ draft[c].payTo = r.payTo /\ draft[c].index = r.index
    BY <1>6 DEF TypeOK, Row
  <2>2. UniqueRows'
    <3>1. \A s \in rows \ {r} : ~Clash(s, r) /\ ~Clash(r, s)
      BY DEF UniqueRows
    <3>2. \A s \in rows \ {r} : ~Clash(s, draft[c]) /\ ~Clash(draft[c], s)
      BY <1>6, <2>1, <3>1 DEF Clash, Paid
    <3> QED
      BY <1>6, <3>2 DEF UniqueRows, Clash, Paid
  <2>3. IndexInv'
    <3> PICK n \in Nat : UpTo(n)
      BY DEF IndexInv
    <3>1. \A d \in Call : pc'[d] # "written"
      BY OneWriter DEF Commit, TypeOK, InTransaction
    <3>2. UpTo(n)'
      BY <1>6, <2>1, <3>1 DEF UpTo, Commit
    <3> QED
      BY <3>2 DEF IndexInv
  <2> QED
    BY <1>1, <1>2, <1>3, <1>4, <2>2, <2>3
<1> QED
  BY <1>5, <1>6, CommitEffect

(* Handing the outcome to the caller changes nothing in the table.         *)
LEMMA ReturnInv ==
  ASSUME Inv, NEW c \in Call, Return(c)
  PROVE  Inv'
<1> USE DEF Inv
<1>1. TypeOK'
  BY DEF Return, TypeOK
<1>2. RequestInv'
  BY DEF Return, TypeOK, RequestInv
<1>3. LockInv'
  BY DEF Return, TypeOK, LockInv, InTransaction
<1>4. DraftInv'
  BY DEF Return, TypeOK, DraftInv, Free, Clash, Paid
<1>5. IndexInv'
  <2> PICK n \in Nat : UpTo(n)
    BY DEF IndexInv
  <2>1. UpTo(n)'
    BY DEF Return, TypeOK, UpTo
  <2> QED
    BY <2>1 DEF IndexInv
<1>6. UniqueRows'
  BY DEF Return, UniqueRows, Clash, Paid
<1> QED
  BY <1>1, <1>2, <1>3, <1>4, <1>5, <1>6

(* A crash releases the lock its process held and keeps committed rows.    *)
LEMMA CrashInv ==
  ASSUME Inv, NEW p \in Process, Crash(p)
  PROVE  Inv'
<1> USE DEF Inv
<1>1. TypeOK'
  BY DEF Crash, TypeOK
<1>2. RequestInv'
  BY DEF Crash, TypeOK, RequestInv
<1>3. LockInv'
  BY StoreAssumption DEF Crash, TypeOK, LockInv, InTransaction
<1>4. DraftInv'
  BY DEF Crash, TypeOK, DraftInv, Free, Clash, Paid
<1>5. IndexInv'
  <2> PICK n \in Nat : UpTo(n)
    BY DEF IndexInv
  <2>1. UpTo(n)'
    BY DEF Crash, TypeOK, UpTo
  <2> QED
    BY <2>1 DEF IndexInv
<1>6. UniqueRows'
  BY DEF Crash, UniqueRows, Clash, Paid
<1> QED
  BY <1>1, <1>2, <1>3, <1>4, <1>5, <1>6

(* The invariant is inductive: one case per action of Next.                *)
LEMMA StepInv == Inv /\ [Next]_vars => Inv'
<1> SUFFICES ASSUME Inv, [Next]_vars PROVE Inv'
  OBVIOUS
<1>1. ASSUME NEW c \in Call, NEW q \in Request, Invoke(c, q) PROVE Inv'
  BY <1>1, InvokeInv
<1>2. ASSUME NEW c \in Call, ReadIndex(c) PROVE Inv'
  BY <1>2, ReadIndexInv
<1>3. ASSUME NEW c \in Call, Begin(c) PROVE Inv'
  BY <1>3, BeginInv
<1>4. ASSUME NEW c \in Call, Busy(c) PROVE Inv'
  BY <1>4, BusyInv
<1>5. ASSUME NEW c \in Call, Statement(c) PROVE Inv'
  BY <1>5, IssueInv, IssueWithAllocationInv, CommitPaidInv, CommitInv DEF Statement
<1>6. ASSUME NEW c \in Call, Fail(c) PROVE Inv'
  BY <1>6, RollbackInv DEF Fail, InTransaction, Refused
<1>7. ASSUME NEW c \in Call, Return(c) PROVE Inv'
  BY <1>7, ReturnInv
<1>8. ASSUME NEW p \in Process, Crash(p) PROVE Inv'
  BY <1>8, CrashInv
<1>9. CASE UNCHANGED vars
  <2> USE <1>9 DEF vars, Inv
  <2>1. TypeOK' /\ RequestInv' /\ LockInv' /\ UniqueRows'
    BY DEF TypeOK, RequestInv, LockInv, UniqueRows, Clash, Paid
  <2>2. DraftInv'
    BY DEF DraftInv, Free, Clash, Paid
  <2>3. IndexInv'
    BY DEF IndexInv, UpTo
  <2> QED
    BY <2>1, <2>2, <2>3
<1> QED
  BY <1>1, <1>2, <1>3, <1>4, <1>5, <1>6, <1>7, <1>8, <1>9 DEF Next

(* Types, lock discipline, checked drafts, gap-free indexes and unique     *)
(* columns hold in every reachable state of the store.                     *)
THEOREM Invariance == Spec => []Inv
BY InitInv, StepInv, PTL DEF Spec
-----------------------------------------------------------------------------
(* Every call of the store stays within its types, whatever interleaves,   *)
(* fails or crashes.                                                       *)
THEOREM TypeCorrect == Spec => []TypeOK
<1>1. Inv => TypeOK
  BY DEF Inv
<1> QED
  BY <1>1, Invariance, PTL

(* BEGIN IMMEDIATE with checks inside the transaction keeps every UNIQUE   *)
(* column unique, settled_txid included.                                   *)
THEOREM RowsStayUnique == Spec => []UniqueRows
<1>1. Inv => UniqueRows
  BY DEF Inv
<1> QED
  BY <1>1, Invariance, PTL

(* issue reads its index before its transaction begins, and still no       *)
(* index is skipped.                                                       *)
THEOREM IndexesStayContiguous == Spec => []ContiguousIndexes
<1>1. Inv => ContiguousIndexes
  <2> SUFFICES ASSUME Inv, NEW r \in rows, NEW i \in 0 .. r.index - 1
               PROVE  \E s \in rows : s.index = i
    BY DEF ContiguousIndexes
  <2> PICK n \in Nat : UpTo(n)
    BY DEF Inv, IndexInv
  <2>1. r.index \in Nat /\ r.index < n
    BY DEF Inv, TypeOK, Row, UpTo
  <2>2. i \in 0 .. n - 1
    BY <2>1
  <2> QED
    BY <2>2 DEF UpTo
<1> QED
  BY <1>1, Invariance, PTL
-----------------------------------------------------------------------------
(* Only COMMIT changes the table.                                          *)
LEMMA OnlyCommitWrites ==
  ASSUME [Next]_vars
  PROVE  UNCHANGED rows \/ \E c \in Call : Commit(c)
BY DEF Next, vars, Invoke, ReadIndex, Begin, Busy, Statement, Issue, IssueWithAllocation,
       Insert, CommitPaid, Rollback, Write, Fail, Return, Crash

(* What any step leaves of a committed row.                                *)
Kept(r) ==
  \/ r \in rows'
  \/ ~Paid(r) /\ \E s \in rows' : Paid(s) /\ s = [r EXCEPT !.txid = s.txid]

LEMMA EveryRowKept ==
  ASSUME Inv, [Next]_vars
  PROVE  \A r \in rows : Kept(r)
<1> SUFFICES ASSUME NEW c \in Call, Commit(c) PROVE \A r \in rows : Kept(r)
  BY OnlyCommitWrites DEF Kept
<1>1. CASE rows' = rows \cup {draft[c]}
  BY <1>1 DEF Kept
<1>2. ASSUME draft[c].txid \in Txid, NEW u \in rows, ~Paid(u),
             draft[c] = [u EXCEPT !.txid = draft[c].txid],
             rows' = (rows \ {u}) \cup {draft[c]}
      PROVE  \A r \in rows : Kept(r)
  <2>1. Paid(draft[c]) /\ draft[c] \in rows'
    BY <1>2, StoreAssumption DEF Paid
  <2> QED
    BY <1>2, <2>1 DEF Kept
<1> QED
  BY <1>1, <1>2, CommitEffect

(* No step, crash included, loses or rewrites a committed invoice.         *)
THEOREM RowsStay == Spec => RowsAreDurable
<1>1. Inv /\ [Next]_vars =>
        [\A r \in rows :
           \/ r \in rows'
           \/ ~Paid(r) /\ \E s \in rows' : Paid(s) /\ s = [r EXCEPT !.txid = s.txid]]_rows
  BY EveryRowKept DEF Kept
<1> QED
  BY <1>1, Invariance, PTL DEF RowsAreDurable, Spec

(* What the outcome of a call claims, and what a draft promises to claim.  *)
Answered(c) ==
  /\ code[c] = "ISSUED" => \E r \in rows : r.hash = draft[c].hash
  /\ code[c] \in Settled =>
       /\ draft[c] \in rows
       /\ draft[c].hash = req[c].hash /\ draft[c].txid = req[c].txid
  /\ code[c] = "CONFLICT" =>
       \E r \in rows : r.hash = req[c].hash /\ Paid(r) /\ r.txid # req[c].txid
  /\ code[c] = "TXID_REUSED" => SettledElsewhere(req[c].hash, req[c].txid)

AnswerInv ==
  \A c \in Call :
    /\ pc[c] = "done" => Answered(c)
    /\ pc[c] = "done" /\ code[c] \in Settled => Paid(draft[c])
    /\ pc[c] = "done" /\ code[c] = "TXID_REUSED" => req[c].txid \in Txid
    /\ pc[c] = "written" /\ code[c] = "PAID" =>
         draft[c].hash = req[c].hash /\ draft[c].txid = req[c].txid

(* An outcome survives every step that leaves its call alone.              *)
LEMMA AnswerSurvives ==
  ASSUME Inv, AnswerInv, [Next]_vars, NEW c \in Call, pc[c] = "done",
         req'[c] = req[c], draft'[c] = draft[c], code'[c] = code[c]
  PROVE  Answered(c)'
<1>1. \A r \in rows : Kept(r)
  BY EveryRowKept
<1>2. \A r \in rows : \E s \in rows' : s.hash = r.hash
  BY <1>1 DEF Kept, Inv, TypeOK, Row
<1>3. \A r \in rows : Paid(r) => r \in rows'
  BY <1>1 DEF Kept
<1> QED
  BY <1>2, <1>3, StoreAssumption DEF AnswerInv, Answered, SettledElsewhere, Paid

LEMMA CommitAnswers ==
  ASSUME Inv, AnswerInv, NEW c \in Call, Commit(c)
  PROVE  Answered(c)' /\ (code'[c] \in Settled => Paid(draft'[c]))
<1>1. code[c] \in {"ISSUED", "PAID"} /\ draft[c] \in rows'
  BY DEF Commit, Inv, DraftInv
<1>2. code[c] = "PAID" => Paid(draft[c])
  BY StoreAssumption DEF Commit, Inv, DraftInv, Paid
<1> QED
  BY <1>1, <1>2 DEF Commit, callVars, AnswerInv, Answered, Settled, Paid

LEMMA CommitPaidAnswers ==
  ASSUME Inv, NEW c \in Call, CommitPaid(c)
  PROVE  \/ /\ pc'[c] = "done"
            /\ Answered(c)'
            /\ code'[c] \in Settled => Paid(draft'[c])
            /\ req'[c].txid \in Txid
         \/ /\ pc'[c] = "written"
            /\ draft'[c].hash = req'[c].hash /\ draft'[c].txid = req'[c].txid
<1> DEFINE h == req[c].hash
           t == req[c].txid
<1>0. h \in Hash /\ t \in Txid /\ t # NoTxid
  BY StoreAssumption DEF Inv, RequestInv, CommitPaid, Request, IssueRequest, AllocRequest,
                         CommitRequest
<1> USE DEF Inv, TypeOK
<1>1. CASE SettledElsewhere(h, t) /\ Rollback(c, "TXID_REUSED", NoRow)
  BY <1>0, <1>1 DEF CommitPaid, Rollback, Answered, SettledElsewhere, Settled
<1>2. CASE Rollback(c, "INVOICE_NOT_FOUND", NoRow)
  BY <1>0, <1>2 DEF CommitPaid, Rollback, Answered, Settled
<1>3. ASSUME NEW r \in rows, r.hash = h, r.txid = t, Rollback(c, "ALREADY_PAID", r)
      PROVE  pc'[c] = "done" /\ Answered(c)' /\ Paid(draft'[c]) /\ req'[c].txid \in Txid
  BY <1>0, <1>3 DEF CommitPaid, Rollback, Answered, Settled, Paid
<1>4. ASSUME NEW r \in rows, r.hash = h, r.txid \notin {t, NoTxid},
             Rollback(c, "CONFLICT", NoRow)
      PROVE  /\ pc'[c] = "done" /\ Answered(c)' /\ code'[c] \notin Settled
             /\ req'[c].txid \in Txid
  BY <1>0, <1>4 DEF CommitPaid, Rollback, Answered, Settled, Paid
<1>5. ASSUME NEW r \in rows, r.hash = h, Write(c, "PAID", [r EXCEPT !.txid = t])
      PROVE  /\ pc'[c] = "written"
             /\ draft'[c].hash = req'[c].hash /\ draft'[c].txid = req'[c].txid
  BY <1>0, <1>5 DEF CommitPaid, Write, Row
<1> QED
  BY <1>1, <1>2, <1>3, <1>4, <1>5 DEF CommitPaid

(* Refusals that claim nothing about the table.                            *)
LEMMA OtherAnswers ==
  ASSUME Inv, NEW c \in Call,
         Busy(c) \/ Fail(c) \/ Issue(c) \/ IssueWithAllocation(c)
  PROVE  \/ pc'[c] = "done" /\ code'[c] \in {"BUSY", "ERROR", "UNIQUE", "RANGE"}
         \/ pc'[c] = "written" /\ code'[c] = "ISSUED"
BY DEF Inv, TypeOK, Busy, Fail, Issue, IssueWithAllocation, Insert, Rollback, Write

(* A step of one call leaves the others alone.                             *)
LEMMA OthersUntouched ==
  ASSUME Inv, NEW c \in Call, NEW d \in Call \ {c},
         \/ \E q \in Request : Invoke(c, q)
         \/ ReadIndex(c) \/ Begin(c) \/ Busy(c) \/ Statement(c) \/ Fail(c) \/ Return(c)
  PROVE  /\ pc'[d] = pc[d] /\ req'[d] = req[d]
         /\ draft'[d] = draft[d] /\ code'[d] = code[d]
BY DEF Inv, TypeOK, Invoke, ReadIndex, Begin, Busy, Statement, Issue, IssueWithAllocation,
       Insert, CommitPaid, Rollback, Write, Commit, Fail, Return, callVars

LEMMA AnswerStep ==
  ASSUME Inv, AnswerInv, [Next]_vars
  PROVE  AnswerInv'
<1> DEFINE Good(c) ==
      /\ pc[c] = "done" => Answered(c)
      /\ pc[c] = "done" /\ code[c] \in Settled => Paid(draft[c])
      /\ pc[c] = "done" /\ code[c] = "TXID_REUSED" => req[c].txid \in Txid
      /\ pc[c] = "written" /\ code[c] = "PAID" =>
           draft[c].hash = req[c].hash /\ draft[c].txid = req[c].txid
<1>1. ASSUME NEW d \in Call, pc'[d] = pc[d], req'[d] = req[d], draft'[d] = draft[d],
             code'[d] = code[d]
      PROVE  Good(d)'
  BY <1>1, AnswerSurvives DEF AnswerInv, Paid
<1>2. ASSUME NEW c \in Call,
             \/ \E q \in Request : Invoke(c, q)
             \/ ReadIndex(c) \/ Begin(c) \/ Busy(c) \/ Statement(c) \/ Fail(c) \/ Return(c)
      PROVE  AnswerInv'
  <2>1. Good(c)'
    <3>1. CASE \E q \in Request : Invoke(c, q)
      BY <3>1 DEF Invoke, Inv, TypeOK
    <3>2. CASE ReadIndex(c) \/ Begin(c) \/ Return(c)
      BY <3>2 DEF ReadIndex, Begin, Return, Inv, TypeOK
    <3>3. CASE Busy(c) \/ Fail(c) \/ Issue(c) \/ IssueWithAllocation(c)
      <4>1. CASE pc'[c] = "done" /\ code'[c] \in {"BUSY", "ERROR", "UNIQUE", "RANGE"}
        BY <4>1 DEF Answered, Settled
      <4>2. CASE pc'[c] = "written" /\ code'[c] = "ISSUED"
        BY <4>2
      <4> QED
        BY <3>3, <4>1, <4>2, OtherAnswers
    <3>4. CASE CommitPaid(c)
      BY <3>4, CommitPaidAnswers
    <3>5. CASE Commit(c)
      <4>1. pc'[c] = "done" /\ code'[c] \in {"ISSUED", "PAID"}
        BY <3>5 DEF Commit, callVars, Inv, TypeOK, DraftInv
      <4> QED
        BY <3>5, <4>1, CommitAnswers
    <3> QED
      BY <1>2, <3>1, <3>2, <3>3, <3>4, <3>5 DEF Statement
  <2>2. \A d \in Call \ {c} : Good(d)'
    BY <1>1, <1>2, OthersUntouched
  <2> QED
    BY <2>1, <2>2 DEF AnswerInv
<1>3. ASSUME NEW p \in Process, Crash(p)
      PROVE  AnswerInv'
  <2>1. ASSUME NEW d \in Call PROVE Good(d)'
    <3>1. CASE Home[d] = p
      BY <1>3, <3>1 DEF Crash
    <3>2. CASE Home[d] # p
      BY <1>1, <1>3, <3>2 DEF Crash
    <3> QED
      BY <3>1, <3>2
  <2> QED
    BY <2>1 DEF AnswerInv
<1>4. CASE UNCHANGED vars
  BY <1>1, <1>4 DEF vars, AnswerInv
<1> QED
  BY <1>2, <1>3, <1>4 DEF Next

(* A caller is never told something the committed table contradicts, then  *)
(* or later, even if the process that wrote the row has crashed since.     *)
THEOREM AnswersStayTrue == Spec => []AnswersHold
<1>1. Init => AnswerInv
  BY DEF Init, AnswerInv
<1>2. Inv /\ AnswerInv /\ [Next]_vars => AnswerInv'
  BY AnswerStep
<1>3. AnswerInv => AnswersHold
  BY DEF AnswerInv, Answered, AnswersHold
<1> QED
  BY <1>1, <1>2, <1>3, Invariance, PTL DEF Spec

(* The store implements the settlement authority: issuing and settling are *)
(* its COMMITs, everything else is a stutter.                              *)
THEOREM RefinesAuthority == Spec => ImplementsAuthority
<1> DEFINE issued == {r.hash : r \in rows}
           settlement == {<<r.hash, r.txid>> : r \in {s \in rows : Paid(s)}}
<1>1. Init => Authority!Init
  BY DEF Init, Authority!Init
<1>2. ASSUME Inv, [Next]_vars
      PROVE  [Authority!Next]_Authority!vars
  <2>1. CASE UNCHANGED rows
    BY <2>1 DEF Authority!vars, Paid
  <2>2. ASSUME NEW d \in Row, Free(d), ~Paid(d), rows' = rows \cup {d}
        PROVE  Authority!Next
    <3>1. d.hash \in Hash /\ d.hash \notin issued
      BY <2>2 DEF Free, Clash, Row
    <3>2. issued' = issued \cup {d.hash}
      BY <2>2
    <3>3. settlement' = settlement
      BY <2>2 DEF Paid
    <3>4. Authority!Issue(d.hash)
      BY <3>1, <3>2, <3>3 DEF Authority!Issue
    <3> QED
      BY <3>1, <3>4 DEF Authority!Next
  <2>3. ASSUME NEW t \in Txid, \A s \in rows : s.txid # t,
               NEW u \in rows, ~Paid(u), NEW d, d = [u EXCEPT !.txid = t],
               rows' = (rows \ {u}) \cup {d}
        PROVE  Authority!Next
    <3>1. u.hash \in Hash /\ d.hash = u.hash /\ d.txid = t /\ Paid(d)
      BY <1>2, <2>3, StoreAssumption DEF Inv, TypeOK, Row, Paid
    <3>2. issued' = issued
      BY <2>3, <3>1
    <3>3. settlement' = settlement \cup {<<u.hash, t>>}
      BY <2>3, <3>1 DEF Paid
    <3>4. \A p \in settlement : p[1] # u.hash /\ p[2] # t
      BY <1>2, <2>3 DEF Inv, UniqueRows, Clash
    <3>5. Authority!Settle(u.hash, t)
      BY <3>2, <3>3, <3>4 DEF Authority!Settle
    <3> QED
      BY <3>1, <3>5 DEF Authority!Next
  <2>4. ASSUME NEW c \in Call, Commit(c) PROVE [Authority!Next]_Authority!vars
    <3>1. CASE code[c] = "ISSUED" /\ Free(draft[c]) /\ rows' = rows \cup {draft[c]}
      <4>1. draft[c] \in Row /\ ~Paid(draft[c])
        BY <1>2, <2>4, <3>1 DEF Inv, DraftInv, Commit
      <4> QED
        BY <2>2, <3>1, <4>1
    <3>2. CASE code[c] = "PAID"
      <4> PICK u \in rows :
            /\ ~Paid(u)
            /\ draft[c] = [u EXCEPT !.txid = draft[c].txid]
            /\ rows' = (rows \ {u}) \cup {draft[c]}
        BY <1>2, <2>4, <3>2, CommitEffect
      <4> QED
        BY <1>2, <2>3, <2>4, <3>2, CommitEffect
    <3> QED
      BY <1>2, <2>4, <3>1, <3>2, CommitEffect
  <2> QED
    BY <1>2, <2>1, <2>4, OnlyCommitWrites
<1> QED
  BY <1>1, <1>2, Invariance, PTL DEF Spec, ImplementsAuthority, Authority!Spec
-----------------------------------------------------------------------------
(* Where the address of a row comes from: a server's fixed payTo, or the   *)
(* child of the xpub at the row's own index.                               *)
Sourced(r) ==
  \/ r.payTo \in StaticAddress
  \/ r.index < IndexLimit /\ r.payTo = Derive[r.index]

SourceInv ==
  /\ \A r \in rows : Sourced(r)
  /\ \A c \in Call : pc[c] = "written" => Sourced(draft[c])

(* Only the transaction of c changes what is written, and it writes a      *)
(* sourced row.                                                            *)
LEMMA WriteSourced ==
  ASSUME Inv, SourceInv, NEW c \in Call, NEW o, NEW r, Write(c, o, r), Sourced(r)
  PROVE  SourceInv'
BY DEF Inv, TypeOK, Write, SourceInv, Sourced

LEMMA RollbackSourced ==
  ASSUME Inv, SourceInv, NEW c \in Call, NEW o, NEW r, Rollback(c, o, r)
  PROVE  SourceInv'
BY DEF Inv, TypeOK, Rollback, SourceInv, Sourced

LEMMA InsertSourced ==
  ASSUME Inv, SourceInv, NEW c \in Call, NEW r, Insert(c, r), Sourced(r)
  PROVE  SourceInv'
BY WriteSourced, RollbackSourced DEF Insert

LEMMA IssueSourced ==
  ASSUME Inv, SourceInv, NEW c \in Call, Issue(c)
  PROVE  SourceInv'
<1>1. req[c] \in IssueRequest
  BY DEF Inv, RequestInv, Issue, Request, IssueRequest, AllocRequest, CommitRequest
<1>2. Sourced(NewRow(req[c].nonce, req[c].payTo, index[c]))
  BY <1>1 DEF Sourced, NewRow, IssueRequest
<1> QED
  BY <1>2, InsertSourced DEF Issue

LEMMA AllocationSourced ==
  ASSUME Inv, SourceInv, NEW c \in Call, IssueWithAllocation(c)
  PROVE  SourceInv'
<1> DEFINE i == NextIndex(rows)
<1>1. i < IndexLimit => Sourced(NewRow(req[c].nonce, Derive[i], i))
  BY DEF Sourced, NewRow
<1> HIDE DEF i
<1> QED
  BY <1>1, InsertSourced, RollbackSourced DEF IssueWithAllocation, i

(* A settlement keeps the address and the index of the row it marks.       *)
LEMMA CommitPaidSourced ==
  ASSUME Inv, SourceInv, NEW c \in Call, CommitPaid(c)
  PROVE  SourceInv'
<1>1. ASSUME NEW r \in rows PROVE Sourced([r EXCEPT !.txid = req[c].txid])
  BY DEF Inv, TypeOK, Row, SourceInv, Sourced
<1> QED
  BY <1>1, WriteSourced, RollbackSourced DEF CommitPaid

LEMMA SourceStep == Inv /\ SourceInv /\ [Next]_vars => SourceInv'
<1> SUFFICES ASSUME Inv, SourceInv, [Next]_vars PROVE SourceInv'
  OBVIOUS
<1>1. ASSUME NEW c \in Call, NEW q \in Request, Invoke(c, q) PROVE SourceInv'
  BY <1>1 DEF Invoke, Inv, TypeOK, SourceInv, Sourced
<1>2. ASSUME NEW c \in Call, ReadIndex(c) \/ Begin(c) \/ Busy(c) PROVE SourceInv'
  BY <1>2 DEF ReadIndex, Begin, Busy, callVars, Inv, TypeOK, SourceInv, Sourced
<1>3. ASSUME NEW c \in Call, Commit(c) PROVE SourceInv'
  BY <1>3 DEF Commit, callVars, Inv, TypeOK, SourceInv, Sourced
<1>4. ASSUME NEW c \in Call, Statement(c) PROVE SourceInv'
  BY <1>3, <1>4, IssueSourced, AllocationSourced, CommitPaidSourced DEF Statement
<1>5. ASSUME NEW c \in Call, Fail(c) PROVE SourceInv'
  BY <1>5, RollbackSourced DEF Fail
<1>6. ASSUME NEW c \in Call, Return(c) PROVE SourceInv'
  BY <1>6 DEF Return, Inv, TypeOK, SourceInv, Sourced
<1>7. ASSUME NEW p \in Process, Crash(p) PROVE SourceInv'
  BY <1>7 DEF Crash, Inv, TypeOK, SourceInv, Sourced
<1>8. CASE UNCHANGED vars
  BY <1>8 DEF vars, SourceInv, Sourced
<1> QED
  BY <1>1, <1>2, <1>4, <1>5, <1>6, <1>7, <1>8 DEF Next

(* issueWithAllocation never meets an address that is in the table, at     *)
(* whatever index issue stored its fixed payTo: MAX + 1 is past every row, *)
(* and children of different indexes differ.                               *)
THEOREM NextAddressStaysFree == Spec => []NextAddressIsFree
<1>1. Init => SourceInv
  BY DEF Init, SourceInv
<1>2. Inv /\ SourceInv => NextAddressIsFree
  <2> DEFINE i == NextIndex(rows)
  <2> SUFFICES ASSUME Inv, SourceInv, i < IndexLimit,
                      \A j \in 0 .. IndexLimit - 1 : Derive[j] \notin StaticAddress,
                      NEW r \in rows
               PROVE  r.payTo # Derive[i]
    BY DEF NextAddressIsFree
  <2> PICK n \in Nat : UpTo(n)
    BY DEF Inv, IndexInv
  <2>1. i = n
    BY NextIndexIsLength DEF Inv, UpTo
  <2> HIDE DEF i
  <2>2. r.index \in Nat /\ r.index < n
    BY DEF Inv, TypeOK, Row, UpTo
  <2>3. r.index \in 0 .. IndexLimit - 1 /\ i \in 0 .. IndexLimit - 1 /\ r.index # i
    BY <2>1, <2>2, StoreAssumption
  <2>4. Derive[r.index] # Derive[i] /\ Derive[i] \notin StaticAddress
    BY <2>3, StoreAssumption
  <2> QED
    BY <2>4 DEF SourceInv, Sourced
<1> QED
  BY <1>1, <1>2, Invariance, SourceStep, PTL DEF Spec
=============================================================================
