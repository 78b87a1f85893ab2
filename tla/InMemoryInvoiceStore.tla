------------------------ MODULE InMemoryInvoiceStore ------------------------
(***************************************************************************)
(* InMemoryAuthoritativeInvoiceStore (x402-xec-core/src/invoice-store.ts): *)
(* five maps and a counter.  withLock runs the operations one after        *)
(* another, so each is one step; but an operation that throws keeps what   *)
(* it did before, and nothing is undone.                                   *)
(***************************************************************************)
EXTENDS Integers, JsMap

CONSTANTS
  Nonce,       \* invoice nonces
  Address,     \* eCash addresses
  Derive,      \* Derive[i]: the xpub child address of index i
  IndexLimit,  \* XpubPayToAllocator's limit (2^31), scaled down
  Txid,        \* transaction identifiers
  NoTxid, NoIndex

ASSUME InMemoryAssumption ==
  /\ IndexLimit \in Nat
  /\ Derive \in [0 .. IndexLimit - 1 -> Address]
  /\ \A i, j \in 0 .. IndexLimit - 1 : Derive[i] = Derive[j] => i = j
  /\ NoTxid \notin Txid
  /\ NoIndex \notin Nat

VARIABLES
  records,              \* invoice hash -> record
  nonceToInvoice,       \* nonce -> invoice hash
  txidToInvoice,        \* settling txid -> invoice hash
  payToToInvoice,       \* address -> invoice hash
  indexToInvoice,       \* derivation index -> invoice hash
  nextDerivationIndex

vars == <<records, nonceToInvoice, txidToInvoice, payToToInvoice,
          indexToInvoice, nextDerivationIndex>>
-----------------------------------------------------------------------------
(* A hash is determined by its invoice, a nonce and an address among it.   *)
Hash == Nonce \X Address
Record == [nonce : Nonce, payTo : Address, index : Nat \cup {NoIndex},
           txid : Txid \cup {NoTxid}]

TypeOK ==
  /\ Maps(records, Hash, Record)
  /\ Maps(nonceToInvoice, Nonce, DOMAIN records)
  /\ Maps(txidToInvoice, Txid, DOMAIN records)
  /\ Maps(payToToInvoice, Address, DOMAIN records)
  /\ Maps(indexToInvoice, Nat, DOMAIN records)
  /\ nextDerivationIndex \in 0 .. IndexLimit + 1

Init ==
  /\ records = Empty
  /\ nonceToInvoice = Empty
  /\ txidToInvoice = Empty
  /\ payToToInvoice = Empty
  /\ indexToInvoice = Empty
  /\ nextDerivationIndex = 0

Store(n, a, i) ==
  /\ records' = Set(records, <<n, a>>,
                    [nonce |-> n, payTo |-> a, index |-> i, txid |-> NoTxid])
  /\ nonceToInvoice' = Set(nonceToInvoice, n, <<n, a>>)
  /\ payToToInvoice' = Set(payToToInvoice, a, <<n, a>>)

(* issue of a record without derivationIndex, as the middleware calls it.  *)
IssueStatic(n, a) ==
  /\ <<n, a>> \notin DOMAIN records
  /\ n \notin DOMAIN nonceToInvoice
  /\ Store(n, a, NoIndex)
  /\ UNCHANGED <<txidToInvoice, indexToInvoice, nextDerivationIndex>>

CountIssued(i) == nextDerivationIndex' = nextDerivationIndex + 1  \* variant

(* nextDerivationIndex = Math.max(nextDerivationIndex, derivationIndex + 1)*)
SkipPast(i) ==
  nextDerivationIndex' =
    IF nextDerivationIndex > i THEN nextDerivationIndex ELSE i + 1

(* issue of a record that brings its own index.                            *)
IssueIndexed(n, a, i) ==
  /\ <<n, a>> \notin DOMAIN records
  /\ n \notin DOMAIN nonceToInvoice
  /\ a \notin DOMAIN payToToInvoice
  /\ i \notin DOMAIN indexToInvoice
  /\ Store(n, a, i)
  /\ indexToInvoice' = Set(indexToInvoice, i, <<n, a>>)
  /\ SkipPast(i)
  /\ UNCHANGED txidToInvoice

IgnorePayTo(a) == TRUE  \* variant: allocation overwrites like issue does

UnusedPayTo(a) == a \notin DOMAIN payToToInvoice

(* The index is spent before anything is checked: deriveAddress may throw, *)
(* the address may be taken, the invoice may not parse.  The counter of    *)
(* the model stops one past IndexLimit, where deriveAddress always throws. *)
IssueWithAllocation(n) ==
  LET i == nextDerivationIndex
      a == Derive[i] IN
  /\ n \notin DOMAIN nonceToInvoice
  /\ i <= IndexLimit
  /\ nextDerivationIndex' = i + 1
  /\ \/ /\ i < IndexLimit
        /\ UnusedPayTo(a)
        /\ <<n, a>> \notin DOMAIN records
        /\ Store(n, a, i)
        /\ indexToInvoice' = Set(indexToInvoice, i, <<n, a>>)
     \/ UNCHANGED <<records, nonceToInvoice, payToToInvoice, indexToInvoice>>
  /\ UNCHANGED txidToInvoice

UnboundHere(h, t) == TRUE  \* variant: the txid map is not consulted

Unbound(h, t) == t \in DOMAIN txidToInvoice => txidToInvoice[t] = h

(* The one outcome of commitPaid that changes the store; the others (not   *)
(* found, TXID_REUSED, idempotent retry, CONFLICT) only return.            *)
CommitPaid(h, t) ==
  /\ h \in DOMAIN records
  /\ Unbound(h, t)
  /\ records[h].txid = NoTxid
  /\ records' = [records EXCEPT ![h].txid = t]
  /\ txidToInvoice' = Set(txidToInvoice, t, h)
  /\ UNCHANGED <<nonceToInvoice, payToToInvoice, indexToInvoice, nextDerivationIndex>>

Next ==
  \/ \E n \in Nonce :
       \/ \E a \in Address :
            \/ IssueStatic(n, a)
            \/ \E i \in 0 .. IndexLimit - 1 : IssueIndexed(n, a, i)
       \/ IssueWithAllocation(n)
  \/ \E h \in Hash, t \in Txid : CommitPaid(h, t)

Spec == Init /\ [][Next]_vars
-----------------------------------------------------------------------------
(* The maps agree with the records whatever sequence of issuances, burned  *)
(* indexes and payments led here: every record is found by its nonce, its  *)
(* txid and its index, and every entry leads to a record it belongs to.    *)
MapsAgree ==
  /\ \A h \in DOMAIN records : LET r == records[h] IN
       /\ h = <<r.nonce, r.payTo>>
       /\ r.nonce \in DOMAIN nonceToInvoice /\ nonceToInvoice[r.nonce] = h
       /\ r.payTo \in DOMAIN payToToInvoice
       /\ r.txid # NoTxid =>
            r.txid \in DOMAIN txidToInvoice /\ txidToInvoice[r.txid] = h
       /\ r.index # NoIndex =>
            r.index \in DOMAIN indexToInvoice /\ indexToInvoice[r.index] = h
  /\ \A t \in DOMAIN txidToInvoice : records[txidToInvoice[t]].txid = t
  /\ \A a \in DOMAIN payToToInvoice : records[payToToInvoice[a]].payTo = a
  /\ \A i \in DOMAIN indexToInvoice : records[indexToInvoice[i]].index = i

(* The counter is past every index in use, so that an allocation never     *)
(* collides on its index, although issue may bring any index.              *)
NextIndexIsFresh == \A i \in DOMAIN indexToInvoice : i < nextDerivationIndex

(* Two invoices that were given an index never share an address, also when *)
(* issue stored the address first.                                         *)
AllocatedAddressesDiffer ==
  \A g, h \in DOMAIN records :
    /\ g # h
    /\ records[g].index # NoIndex /\ records[h].index # NoIndex
    => records[g].payTo # records[h].payTo

(* A payment is found again by its address only if no address is shared:   *)
(* what the contract of issue says ("Throws if ... payTo/derivationIndex   *)
(* conflicts", invoice-store.ts:71-72).                                    *)
PayToConflictThrows ==
  \A g, h \in DOMAIN records : records[g].payTo = records[h].payTo => g = h

(* The store implements the settlement authority.                          *)
Authority == INSTANCE SettlementAuthority WITH
  Invoice <- Hash,
  issued <- DOMAIN records,
  settlement <- {<<h, records[h].txid>> :
                   h \in {g \in DOMAIN records : records[g].txid # NoTxid}}
ImplementsAuthority == Authority!Spec
=============================================================================
