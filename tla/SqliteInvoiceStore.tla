------------------------- MODULE SqliteInvoiceStore -------------------------
(***************************************************************************)
(* BaseSqliteInvoiceStore (x402-xec-core/src/sqlite-invoice-store.ts):     *)
(* several server processes open one SQLite file.  A call runs its         *)
(* transaction synchronously (DatabaseSync), so within a process a         *)
(* transaction is never interleaved with another call, but calls           *)
(* interleave at their awaits, processes interleave everywhere the write   *)
(* lock allows, and a process may crash between any two statements.        *)
(***************************************************************************)
EXTENDS Integers, FiniteSets

CONSTANTS
  Process,        \* server processes that share the database file
  Call,           \* call slots: a slot holds one store call at a time
  Home,           \* Home[c] is the process that makes the calls of slot c
  Nonce,          \* invoice nonces
  Address,        \* eCash addresses
  StaticAddress,  \* the addresses a server may configure as a fixed payTo
  Derive,         \* Derive[i] is the xpub child address of index i
  IndexLimit,     \* XpubPayToAllocator's limit (2^31), scaled down
  Txid,           \* transaction identifiers
  NoTxid, NoRow, NoCall, NoRequest, NoIndex

ASSUME StoreAssumption ==
  /\ Home \in [Call -> Process]
  /\ StaticAddress \subseteq Address
  /\ IndexLimit \in Nat
  /\ Derive \in [0 .. IndexLimit - 1 -> Address]
  /\ \A i, j \in 0 .. IndexLimit - 1 : Derive[i] = Derive[j] => i = j
  /\ NoTxid \notin Txid
  /\ NoCall \notin Call
  /\ NoIndex \notin Nat

VARIABLES
  rows,    \* the committed contents of table invoices
  writer,  \* the call whose transaction holds SQLite's write lock
  pc,      \* pc[c]: where call c stands
  req,     \* req[c]: the arguments of call c
  index,   \* index[c]: the derivation index call c works with
  draft,   \* draft[c]: the row call c writes, then the row it returns
  code     \* code[c]: the outcome of call c

vars == <<rows, writer, pc, req, index, draft, code>>
callVars == <<req, index, draft, code>>
-----------------------------------------------------------------------------
(* An invoice hash is SHA-256 over the canonical invoice: collision free,  *)
(* and determined by its contents, of which nonce and payTo tell invoices  *)
(* apart.                                                                  *)
Hash == Nonce \X Address
InvoiceHash(nonce, payTo) == <<nonce, payTo>>

(* state is "PAID" exactly when settled_txid is set: INSERT writes neither *)
(* and the only UPDATE writes both.                                        *)
Row == [hash : Hash, nonce : Nonce, payTo : Address, index : Nat,
        txid : Txid \cup {NoTxid}]
Paid(r) == r.txid # NoTxid

IssueRequest  == [op : {"issue"}, nonce : Nonce, payTo : StaticAddress]
AllocRequest  == [op : {"issueWithAllocation"}, nonce : Nonce]
CommitRequest == [op : {"commitPaid"}, hash : Hash, txid : Txid]
Request == IssueRequest \cup AllocRequest \cup CommitRequest

Issued == {"ISSUED"}
Settled == {"PAID", "ALREADY_PAID"}
Refused == {"UNIQUE", "RANGE", "CONFLICT", "TXID_REUSED",
            "INVOICE_NOT_FOUND", "BUSY", "ERROR"}

TypeOK ==
  /\ rows \subseteq Row
  /\ writer \in Call \cup {NoCall}
  /\ pc \in [Call -> {"idle", "counting", "ready", "open", "written", "done"}]
  /\ req \in [Call -> Request \cup {NoRequest}]
  /\ index \in [Call -> Nat \cup {NoIndex}]
  /\ draft \in [Call -> Row \cup {NoRow}]
  /\ code \in [Call -> {"NONE"} \cup Issued \cup Settled \cup Refused]

NextIndexWithoutCoalesce(T) ==  \* variant: an empty table yields 1
  IF T = {} THEN 1
  ELSE 1 + CHOOSE m \in {r.index : r \in T} : \A r \in T : r.index <= m

LastIndex(T) ==                 \* variant: MAX without + 1
  IF T = {} THEN 0
  ELSE CHOOSE m \in {r.index : r \in T} : \A r \in T : r.index <= m

(* SELECT COALESCE(MAX(derivation_index), -1) + 1                          *)
NextIndex(T) ==
  IF T = {} THEN 0
  ELSE 1 + CHOOSE m \in {r.index : r \in T} : \A r \in T : r.index <= m

(* The UNIQUE columns of the table and its partial index on settled_txid.  *)
Clash(r, s) ==
  \/ r.hash = s.hash
  \/ r.nonce = s.nonce
  \/ r.payTo = s.payTo
  \/ r.index = s.index
  \/ Paid(r) /\ r.txid = s.txid

Free(r) == \A s \in rows : ~Clash(r, s)

NewRow(nonce, payTo, i) ==
  [hash |-> InvoiceHash(nonce, payTo), nonce |-> nonce, payTo |-> payTo,
   index |-> i, txid |-> NoTxid]

(* The event loop of c's process is inside no other call's transaction.    *)
Scheduled(c) ==
  \A d \in Call \ {c} : Home[d] = Home[c] => pc[d] \notin {"open", "written"}
-----------------------------------------------------------------------------
Init ==
  /\ rows = {}
  /\ writer = NoCall
  /\ pc = [c \in Call |-> "idle"]
  /\ req = [c \in Call |-> NoRequest]
  /\ index = [c \in Call |-> NoIndex]
  /\ draft = [c \in Call |-> NoRow]
  /\ code = [c \in Call |-> "NONE"]

(* A caller invokes the store.  issue first awaits the next index (no      *)
(* caller in src/ passes one); the other two go straight to BEGIN.         *)
Invoke(c, q) ==
  /\ pc[c] = "idle"
  /\ Scheduled(c)
  /\ pc' = [pc EXCEPT ![c] = IF q.op = "issue" THEN "counting" ELSE "ready"]
  /\ req' = [req EXCEPT ![c] = q]
  /\ UNCHANGED <<rows, writer, index, draft, code>>

(* issue: record.derivationIndex ?? await getNextDerivationIndex(), read   *)
(* before its transaction begins.                                          *)
ReadIndex(c) ==
  /\ pc[c] = "counting"
  /\ Scheduled(c)
  /\ index' = [index EXCEPT ![c] = NextIndex(rows)]
  /\ pc' = [pc EXCEPT ![c] = "ready"]
  /\ UNCHANGED <<rows, writer, req, draft, code>>

BeginDeferred(c) ==  \* variant: BEGIN without the write lock
  /\ pc[c] = "ready"
  /\ Scheduled(c)
  /\ writer' = c
  /\ pc' = [pc EXCEPT ![c] = "open"]
  /\ UNCHANGED <<rows, callVars>>

(* BEGIN IMMEDIATE takes the write lock.                                   *)
Begin(c) ==
  /\ pc[c] = "ready"
  /\ Scheduled(c)
  /\ writer = NoCall
  /\ writer' = c
  /\ pc' = [pc EXCEPT ![c] = "open"]
  /\ UNCHANGED <<rows, callVars>>

(* BEGIN IMMEDIATE gives up after busy_timeout while another process holds *)
(* the lock; it stands outside the try, so nothing is rolled back.         *)
Busy(c) ==
  /\ pc[c] = "ready"
  /\ Scheduled(c)
  /\ writer # NoCall
  /\ code' = [code EXCEPT ![c] = "BUSY"]
  /\ pc' = [pc EXCEPT ![c] = "done"]
  /\ UNCHANGED <<rows, writer, req, index, draft>>

ReturnInTransaction(c, o, r) ==  \* variant: an early return without ROLLBACK
  /\ pc' = [pc EXCEPT ![c] = "done"]
  /\ code' = [code EXCEPT ![c] = o]
  /\ draft' = [draft EXCEPT ![c] = r]
  /\ UNCHANGED <<rows, writer>>

(* ROLLBACK (or an early return that rolls back) with outcome o, returning *)
(* row r.                                                                  *)
Rollback(c, o, r) ==
  /\ writer' = NoCall
  /\ pc' = [pc EXCEPT ![c] = "done"]
  /\ code' = [code EXCEPT ![c] = o]
  /\ draft' = [draft EXCEPT ![c] = r]
  /\ UNCHANGED rows

(* INSERT or UPDATE inside the transaction: visible to others at COMMIT.   *)
Write(c, o, r) ==
  /\ pc' = [pc EXCEPT ![c] = "written"]
  /\ code' = [code EXCEPT ![c] = o]
  /\ draft' = [draft EXCEPT ![c] = r]
  /\ UNCHANGED <<rows, writer>>

InsertOrReplace(c, r) == Write(c, "ISSUED", r)  \* variant: no constraint error

Insert(c, r) ==
  \/ Free(r)  /\ Write(c, "ISSUED", r)
  \/ ~Free(r) /\ Rollback(c, "UNIQUE", NoRow)

Issue(c) ==
  /\ pc[c] = "open"
  /\ req[c].op = "issue"
  /\ Insert(c, NewRow(req[c].nonce, req[c].payTo, index[c]))
  /\ UNCHANGED <<req, index>>

(* MAX + 1, derivation and INSERT of issueWithAllocation.                  *)
IssueWithAllocation(c) ==
  LET i == NextIndex(rows) IN
  /\ pc[c] = "open"
  /\ req[c].op = "issueWithAllocation"
  /\ index' = [index EXCEPT ![c] = i]
  /\ \/ /\ i < IndexLimit
        /\ Insert(c, NewRow(req[c].nonce, Derive[i], i))
     \/ /\ i >= IndexLimit
        /\ Rollback(c, "RANGE", NoRow)
  /\ UNCHANGED req

ReuseUnchecked(h, t) == FALSE  \* variant: the replay check is missing

SettledElsewhere(h, t) == \E r \in rows : r.txid = t /\ r.hash # h

CommitPaid(c) ==
  LET h == req[c].hash
      t == req[c].txid IN
  /\ pc[c] = "open"
  /\ req[c].op = "commitPaid"
  /\ \/ /\ SettledElsewhere(h, t)
        /\ Rollback(c, "TXID_REUSED", NoRow)
     \/ /\ ~SettledElsewhere(h, t)
        /\ \A r \in rows : r.hash # h
        /\ Rollback(c, "INVOICE_NOT_FOUND", NoRow)
     \/ /\ ~SettledElsewhere(h, t)
        /\ \E r \in rows :
             /\ r.hash = h
             /\ \/ r.txid = t /\ Rollback(c, "ALREADY_PAID", r)
                \/ r.txid \notin {t, NoTxid} /\ Rollback(c, "CONFLICT", NoRow)
                \/ ~Paid(r) /\ Write(c, "PAID", [r EXCEPT !.txid = t])
  /\ UNCHANGED <<req, index>>

(* COMMIT makes the row durable and releases the lock; only then does the  *)
(* call return.                                                            *)
Commit(c) ==
  /\ pc[c] = "written"
  /\ rows' = {r \in rows : r.hash # draft[c].hash} \cup {draft[c]}
  /\ writer' = NoCall
  /\ pc' = [pc EXCEPT ![c] = "done"]
  /\ UNCHANGED callVars

FailSilently(c) ==  \* variant: the catch swallows the error
  /\ pc[c] \in {"open", "written"}
  /\ Rollback(c, code[c], draft[c])
  /\ UNCHANGED <<req, index>>

(* A statement of the transaction throws (disk full, I/O): catch, ROLLBACK,*)
(* rethrow.                                                                *)
Fail(c) ==
  /\ pc[c] \in {"open", "written"}
  /\ Rollback(c, "ERROR", NoRow)
  /\ UNCHANGED <<req, index>>

(* The caller receives the outcome; the slot may hold a new call.          *)
Return(c) ==
  /\ pc[c] = "done"
  /\ Scheduled(c)
  /\ pc' = [pc EXCEPT ![c] = "idle"]
  /\ req' = [req EXCEPT ![c] = NoRequest]
  /\ index' = [index EXCEPT ![c] = NoIndex]
  /\ draft' = [draft EXCEPT ![c] = NoRow]
  /\ code' = [code EXCEPT ![c] = "NONE"]
  /\ UNCHANGED <<rows, writer>>

(* A process dies and is started again: its calls vanish unanswered, an    *)
(* open transaction is rolled back by SQLite, committed rows stay.         *)
Crash(p) ==
  LET dead(c) == Home[c] = p IN
  /\ \E c \in Call : dead(c) /\ pc[c] # "idle"
  /\ pc' = [c \in Call |-> IF dead(c) THEN "idle" ELSE pc[c]]
  /\ req' = [c \in Call |-> IF dead(c) THEN NoRequest ELSE req[c]]
  /\ index' = [c \in Call |-> IF dead(c) THEN NoIndex ELSE index[c]]
  /\ draft' = [c \in Call |-> IF dead(c) THEN NoRow ELSE draft[c]]
  /\ code' = [c \in Call |-> IF dead(c) THEN "NONE" ELSE code[c]]
  /\ writer' = IF \E c \in Call : c = writer /\ dead(c) THEN NoCall ELSE writer
  /\ UNCHANGED rows

(* The statements of one transaction.                                      *)
Statement(c) ==
  Issue(c) \/ IssueWithAllocation(c) \/ CommitPaid(c) \/ Commit(c)

Next ==
  \/ \E c \in Call :
       \/ \E q \in Request : Invoke(c, q)
       \/ ReadIndex(c) \/ Begin(c) \/ Busy(c)
       \/ Statement(c) \/ Fail(c) \/ Return(c)
  \/ \E p \in Process : Crash(p)

Spec == Init /\ [][Next]_vars

(* The event loop runs a call it has started; nothing obliges a statement  *)
(* to fail, a process to crash or a caller to call.                        *)
FairSpec ==
  Spec /\ \A c \in Call :
            WF_vars(ReadIndex(c) \/ Begin(c) \/ Busy(c) \/ Statement(c) \/ Return(c))
-----------------------------------------------------------------------------
(* No two invoices share a nonce, an address or an index, and no           *)
(* transaction settles two of them: the guarantees of the UNIQUE columns,  *)
(* for transactions that check before they commit.                         *)
UniqueRows ==
  \A r, s \in rows : r # s => ~Clash(r, s)

(* A failed, crashed or racing issuance leaves no hole in the indexes that *)
(* were given out: a wallet that scans the xpub from 0 finds every payment.*)
ContiguousIndexes ==
  \A r \in rows : \A i \in 0 .. r.index - 1 : \E s \in rows : s.index = i

(* issueWithAllocation never runs into an address already in the table,    *)
(* whatever issue stored in between, as long as no server is configured    *)
(* with a fixed payTo that is itself a child of the xpub: MAX + 1 would    *)
(* then yield the same taken address at every later call.                  *)
NextAddressIsFree ==
  LET i == NextIndex(rows) IN
  /\ i < IndexLimit
  /\ \A j \in 0 .. IndexLimit - 1 : Derive[j] \notin StaticAddress
  => \A r \in rows : r.payTo # Derive[i]

(* What a caller was told stays true of the committed table, whoever wrote *)
(* or crashed since: an acknowledged invoice exists, an acknowledged       *)
(* payment is the one recorded, and a conflict really is one.              *)
AnswersHold ==
  \A c \in Call : pc[c] = "done" =>
    /\ code[c] = "ISSUED" => \E r \in rows : r.hash = draft[c].hash
    /\ code[c] \in Settled =>
         /\ draft[c] \in rows
         /\ draft[c].hash = req[c].hash /\ draft[c].txid = req[c].txid
    /\ code[c] = "CONFLICT" =>
         \E r \in rows : /\ r.hash = req[c].hash /\ Paid(r)
                         /\ r.txid # req[c].txid
    /\ code[c] = "TXID_REUSED" => SettledElsewhere(req[c].hash, req[c].txid)

(* A committed invoice is never lost or rewritten, and a settled one never *)
(* changes again: the only change is from unpaid to paid.                  *)
RowsAreDurable ==
  [][\A r \in rows :
       \/ r \in rows'
       \/ ~Paid(r) /\ \E s \in rows' : Paid(s) /\ s = [r EXCEPT !.txid = s.txid]]_rows

(* Every path through a transaction, early returns included, gives the     *)
(* write lock back.                                                        *)
LockReleased == (writer # NoCall) ~> (writer = NoCall)

(* The store implements the settlement authority.                          *)
Authority == INSTANCE SettlementAuthority WITH
  Invoice <- Hash,
  issued <- {r.hash : r \in rows},
  settlement <- {<<r.hash, r.txid>> : r \in {s \in rows : Paid(s)}}
ImplementsAuthority == Authority!Spec
=============================================================================
