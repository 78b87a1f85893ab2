--------------------- MODULE InMemoryInvoiceStoreProofs ----------------------
(***************************************************************************)
(* Proofs about InMemoryInvoiceStore for any number of nonces, addresses,  *)
(* indexes and transactions.  The safety properties are inductive taken    *)
(* together: an operation looks into one map and relies on its agreement   *)
(* with the records.                                                       *)
(***************************************************************************)
EXTENDS InMemoryInvoiceStore, TLAPS

Inv == TypeOK /\ MapsAgree /\ NextIndexIsFresh /\ AllocatedAddressesDiffer
-----------------------------------------------------------------------------
(* Map.prototype.set keeps a map a map.                                    *)
LEMMA SetType ==
  ASSUME NEW f, NEW K, NEW V, NEW W, Maps(f, K, V), V \subseteq W,
         NEW k \in K, NEW v \in W
  PROVE  Maps(Set(f, k, v), K, W)
BY DEF Maps, Set

LEMMA RecordType ==
  ASSUME TypeOK, NEW h \in DOMAIN records
  PROVE  /\ records[h].nonce \in Nonce /\ records[h].payTo \in Address
         /\ records[h].index \in Nat \cup {NoIndex}
         /\ records[h].txid \in Txid \cup {NoTxid}
<1>1. records[h] \in Record
  BY DEF TypeOK, Maps
<1> QED
  BY <1>1 DEF Record

(* An invoice is stored, with an index that nobody has or with none.       *)
NewIndex(n, a, i) ==
  \/ i = NoIndex /\ UNCHANGED indexToInvoice
  \/ /\ i \in Nat /\ i \notin DOMAIN indexToInvoice
     /\ a \notin DOMAIN payToToInvoice
     /\ indexToInvoice' = Set(indexToInvoice, i, <<n, a>>)

LEMMA StoreKeeps ==
  ASSUME Inv, NEW n \in Nonce, NEW a \in Address, NEW i \in Nat \cup {NoIndex},
         <<n, a>> \notin DOMAIN records, n \notin DOMAIN nonceToInvoice,
         Store(n, a, i), NewIndex(n, a, i), UNCHANGED txidToInvoice
  PROVE  /\ Maps(records, Hash, Record)'
         /\ Maps(nonceToInvoice, Nonce, DOMAIN records)'
         /\ Maps(txidToInvoice, Txid, DOMAIN records)'
         /\ Maps(payToToInvoice, Address, DOMAIN records)'
         /\ Maps(indexToInvoice, Nat, DOMAIN records)'
         /\ MapsAgree' /\ AllocatedAddressesDiffer'
<1> DEFINE h == <<n, a>>
           new == [nonce |-> n, payTo |-> a, index |-> i, txid |-> NoTxid]
<1>1. /\ records' = Set(records, h, new)
      /\ nonceToInvoice' = Set(nonceToInvoice, n, h)
      /\ payToToInvoice' = Set(payToToInvoice, a, h)
  BY DEF Store
<1>2. h \in Hash /\ new \in Record
  BY DEF Hash, Record
<1>3. new.nonce = n /\ new.payTo = a /\ new.index = i /\ new.txid = NoTxid
  OBVIOUS
<1>4. h \notin DOMAIN records
  OBVIOUS
<1>5. \/ i = NoIndex /\ indexToInvoice' = indexToInvoice
      \/ /\ i \in Nat /\ i \notin DOMAIN indexToInvoice
         /\ a \notin DOMAIN payToToInvoice
         /\ indexToInvoice' = Set(indexToInvoice, i, h)
  BY DEF NewIndex
<1>6. h = <<new.nonce, new.payTo>>
  OBVIOUS
<1> HIDE DEF h, new
<1>7. /\ DOMAIN records' = DOMAIN records \cup {h} /\ records'[h] = new
      /\ \A g \in DOMAIN records : records'[g] = records[g]
  BY <1>1, <1>4 DEF Set
<1>8. /\ Maps(records, Hash, Record)'
      /\ Maps(nonceToInvoice, Nonce, DOMAIN records)'
      /\ Maps(payToToInvoice, Address, DOMAIN records)'
  BY <1>1, <1>2, <1>7, SetType DEF Inv, TypeOK
<1>9. Maps(txidToInvoice, Txid, DOMAIN records)'
  BY <1>7 DEF Inv, TypeOK, Maps
<1>10. Maps(indexToInvoice, Nat, DOMAIN records)'
  <2>1. CASE indexToInvoice' = indexToInvoice
    BY <2>1, <1>7 DEF Inv, TypeOK, Maps
  <2>2. CASE i \in Nat /\ indexToInvoice' = Set(indexToInvoice, i, h)
    BY <2>2, <1>7, SetType DEF Inv, TypeOK
  <2> QED
    BY <2>1, <2>2, <1>5
<1>11. /\ DOMAIN nonceToInvoice' = DOMAIN nonceToInvoice \cup {n}
       /\ nonceToInvoice'[n] = h
       /\ \A m \in DOMAIN nonceToInvoice : nonceToInvoice'[m] = nonceToInvoice[m]
  BY <1>1 DEF Set
<1>12. /\ DOMAIN payToToInvoice' = DOMAIN payToToInvoice \cup {a}
       /\ payToToInvoice'[a] = h
       /\ \A b \in DOMAIN payToToInvoice :
            b # a => payToToInvoice'[b] = payToToInvoice[b]
  BY <1>1 DEF Set
<1>13. /\ \A j \in DOMAIN indexToInvoice : /\ j \in DOMAIN indexToInvoice'
                                           /\ indexToInvoice'[j] = indexToInvoice[j]
       /\ \A j \in DOMAIN indexToInvoice' :
            j \in DOMAIN indexToInvoice \/ (j = i /\ indexToInvoice'[j] = h)
       /\ i # NoIndex => i \in DOMAIN indexToInvoice' /\ indexToInvoice'[i] = h
  BY <1>5 DEF Set
<1>14. MapsAgree'
  <2>1. ASSUME NEW g \in DOMAIN records'
        PROVE  LET r == records'[g] IN
               /\ g = <<r.nonce, r.payTo>>
               /\ r.nonce \in DOMAIN nonceToInvoice' /\ nonceToInvoice'[r.nonce] = g
               /\ r.payTo \in DOMAIN payToToInvoice'
               /\ r.txid # NoTxid => /\ r.txid \in DOMAIN txidToInvoice'
                                     /\ txidToInvoice'[r.txid] = g
               /\ r.index # NoIndex => /\ r.index \in DOMAIN indexToInvoice'
                                       /\ indexToInvoice'[r.index] = g
    <3>1. CASE g = h
      BY <3>1, <1>3, <1>6, <1>7, <1>11, <1>12, <1>13
    <3>2. CASE g # h
      <4>1. g \in DOMAIN records /\ records'[g] = records[g]
        BY <3>2, <1>7
      <4> QED
        BY <4>1, <1>11, <1>12, <1>13 DEF Inv, MapsAgree
    <3> QED
      BY <3>1, <3>2
  <2>2. \A t \in DOMAIN txidToInvoice' : records'[txidToInvoice'[t]].txid = t
    BY <1>7 DEF Inv, TypeOK, Maps, MapsAgree
  <2>3. \A b \in DOMAIN payToToInvoice' : records'[payToToInvoice'[b]].payTo = b
    BY <1>3, <1>7, <1>12 DEF Inv, TypeOK, Maps, MapsAgree
  <2>4. \A j \in DOMAIN indexToInvoice' : records'[indexToInvoice'[j]].index = j
    BY <1>3, <1>7, <1>13 DEF Inv, TypeOK, Maps, MapsAgree
  <2> QED
    BY <2>1, <2>2, <2>3, <2>4 DEF MapsAgree
<1>15. AllocatedAddressesDiffer'
  <2>1. i # NoIndex => \A g \in DOMAIN records : records[g].payTo # a
    BY <1>5 DEF Inv, MapsAgree
  <2> QED
    BY <2>1, <1>3, <1>7 DEF Inv, AllocatedAddressesDiffer
<1> QED
  BY <1>8, <1>9, <1>10, <1>14, <1>15
-----------------------------------------------------------------------------
(* The operations.                                                         *)

LEMMA IssueStaticStep ==
  ASSUME Inv, NEW n \in Nonce, NEW a \in Address, IssueStatic(n, a)
  PROVE  Inv'
<1>1. /\ <<n, a>> \notin DOMAIN records /\ n \notin DOMAIN nonceToInvoice
      /\ Store(n, a, NoIndex) /\ NewIndex(n, a, NoIndex)
      /\ UNCHANGED <<txidToInvoice, indexToInvoice, nextDerivationIndex>>
  BY DEF IssueStatic, NewIndex
<1> QED
  BY <1>1, StoreKeeps DEF Inv, TypeOK, NextIndexIsFresh

LEMMA IssueIndexedStep ==
  ASSUME Inv, NEW n \in Nonce, NEW a \in Address, NEW i \in 0 .. IndexLimit - 1,
         IssueIndexed(n, a, i)
  PROVE  Inv'
<1>1. /\ <<n, a>> \notin DOMAIN records /\ n \notin DOMAIN nonceToInvoice
      /\ Store(n, a, i) /\ NewIndex(n, a, i) /\ i \in Nat
      /\ indexToInvoice' = Set(indexToInvoice, i, <<n, a>>)
      /\ UNCHANGED txidToInvoice
  BY InMemoryAssumption DEF IssueIndexed, NewIndex
<1>2. nextDerivationIndex' =
        IF nextDerivationIndex > i THEN nextDerivationIndex ELSE i + 1
  BY DEF IssueIndexed, SkipPast
<1>3. nextDerivationIndex' \in 0 .. IndexLimit + 1
  BY <1>2, InMemoryAssumption DEF Inv, TypeOK
<1>4. \A j \in DOMAIN indexToInvoice : j \in Nat
  BY DEF Inv, TypeOK, Maps
<1>5. NextIndexIsFresh'
  BY <1>1, <1>2, <1>4, InMemoryAssumption
     DEF Inv, TypeOK, NextIndexIsFresh, Set
<1> QED
  BY <1>1, <1>3, <1>5, StoreKeeps DEF Inv, TypeOK

(* The next index is nobody's, whether it is used or burned.               *)
LEMMA IssueWithAllocationStep ==
  ASSUME Inv, NEW n \in Nonce, IssueWithAllocation(n)
  PROVE  Inv'
<1> DEFINE i == nextDerivationIndex
           a == Derive[i]
<1>1. /\ n \notin DOMAIN nonceToInvoice /\ i <= IndexLimit
      /\ nextDerivationIndex' = i + 1 /\ UNCHANGED txidToInvoice
  BY DEF IssueWithAllocation
<1>2. i \in Nat /\ nextDerivationIndex' \in 0 .. IndexLimit + 1
  BY <1>1, InMemoryAssumption DEF Inv, TypeOK
<1>3. \A j \in DOMAIN indexToInvoice : j \in Nat /\ j < i
  BY DEF Inv, TypeOK, Maps, NextIndexIsFresh
<1>4. CASE UNCHANGED <<records, nonceToInvoice, payToToInvoice, indexToInvoice>>
  <2>1. TypeOK' /\ MapsAgree' /\ AllocatedAddressesDiffer'
    BY <1>1, <1>2, <1>4 DEF Inv, TypeOK, Maps, MapsAgree, AllocatedAddressesDiffer
  <2>2. NextIndexIsFresh'
    BY <1>1, <1>2, <1>3, <1>4 DEF NextIndexIsFresh
  <2> QED
    BY <2>1, <2>2 DEF Inv
<1>5. CASE /\ i < IndexLimit
           /\ UnusedPayTo(a)
           /\ <<n, a>> \notin DOMAIN records
           /\ Store(n, a, i)
           /\ indexToInvoice' = Set(indexToInvoice, i, <<n, a>>)
  <2>1. a \in Address
    BY <1>2, <1>5, InMemoryAssumption
  <2>2. NewIndex(n, a, i)
    BY <1>2, <1>3, <1>5 DEF NewIndex, UnusedPayTo
  <2>3. NextIndexIsFresh'
    BY <1>1, <1>2, <1>3, <1>5 DEF NextIndexIsFresh, Set
  <2> HIDE DEF i, a
  <2> QED
    BY <1>1, <1>2, <1>5, <2>1, <2>2, <2>3, StoreKeeps DEF Inv, TypeOK
<1> QED
  BY <1>4, <1>5 DEF IssueWithAllocation

LEMMA CommitPaidStep ==
  ASSUME Inv, NEW h \in Hash, NEW t \in Txid, CommitPaid(h, t)
  PROVE  Inv'
<1>1. /\ h \in DOMAIN records /\ records[h].txid = NoTxid
      /\ t \in DOMAIN txidToInvoice => txidToInvoice[t] = h
      /\ records' = [records EXCEPT ![h].txid = t]
      /\ txidToInvoice' = Set(txidToInvoice, t, h)
      /\ UNCHANGED <<nonceToInvoice, payToToInvoice, indexToInvoice, nextDerivationIndex>>
  BY DEF CommitPaid, Unbound
<1>2. t \notin DOMAIN txidToInvoice
  BY <1>1, InMemoryAssumption DEF Inv, MapsAgree
<1>3. records[h] \in Record
  BY <1>1 DEF Inv, TypeOK, Maps
<1>4. /\ DOMAIN records' = DOMAIN records
      /\ \A g \in DOMAIN records : g # h => records'[g] = records[g]
      /\ records'[h] = [records[h] EXCEPT !.txid = t]
  BY <1>1
<1>5. /\ records'[h] \in Record
      /\ records'[h].nonce = records[h].nonce /\ records'[h].payTo = records[h].payTo
      /\ records'[h].index = records[h].index /\ records'[h].txid = t
  BY <1>3, <1>4 DEF Record
<1>6. TypeOK'
  <2>1. Maps(records, Hash, Record)'
    BY <1>4, <1>5 DEF Inv, TypeOK, Maps
  <2>2. Maps(txidToInvoice, Txid, DOMAIN records)'
    BY <1>1, <1>4, SetType DEF Inv, TypeOK
  <2> QED
    BY <2>1, <2>2, <1>1, <1>4 DEF Inv, TypeOK, Maps
<1>7. \A g \in DOMAIN records :
        /\ records'[g].nonce = records[g].nonce /\ records'[g].payTo = records[g].payTo
        /\ records'[g].index = records[g].index
  BY <1>4, <1>5
<1>8. /\ DOMAIN txidToInvoice' = DOMAIN txidToInvoice \cup {t}
      /\ txidToInvoice'[t] = h
      /\ \A u \in DOMAIN txidToInvoice : txidToInvoice'[u] = txidToInvoice[u]
  BY <1>1, <1>2 DEF Set
<1>9. MapsAgree'
  <2>1. \A g \in DOMAIN records' : LET r == records'[g] IN
          /\ g = <<r.nonce, r.payTo>>
          /\ r.nonce \in DOMAIN nonceToInvoice' /\ nonceToInvoice'[r.nonce] = g
          /\ r.payTo \in DOMAIN payToToInvoice'
          /\ r.index # NoIndex => /\ r.index \in DOMAIN indexToInvoice'
                                  /\ indexToInvoice'[r.index] = g
    BY <1>1, <1>4, <1>7 DEF Inv, MapsAgree
  <2>2. \A g \in DOMAIN records' : records'[g].txid # NoTxid =>
          /\ records'[g].txid \in DOMAIN txidToInvoice'
          /\ txidToInvoice'[records'[g].txid] = g
    <3> SUFFICES ASSUME NEW g \in DOMAIN records', records'[g].txid # NoTxid
                 PROVE  /\ records'[g].txid \in DOMAIN txidToInvoice'
                        /\ txidToInvoice'[records'[g].txid] = g
      OBVIOUS
    <3>1. CASE g = h
      BY <3>1, <1>5, <1>8
    <3>2. CASE g # h
      <4>1. records'[g] = records[g] /\ g \in DOMAIN records
        BY <3>2, <1>4
      <4>2. /\ records[g].txid \in DOMAIN txidToInvoice
            /\ txidToInvoice[records[g].txid] = g
        BY <4>1 DEF Inv, MapsAgree
      <4> QED
        BY <4>1, <4>2, <1>8
    <3> QED
      BY <3>1, <3>2
  <2>3. \A u \in DOMAIN txidToInvoice' : records'[txidToInvoice'[u]].txid = u
    <3>1. \A u \in DOMAIN txidToInvoice : txidToInvoice[u] # h
      BY <1>1, InMemoryAssumption DEF Inv, TypeOK, Maps, MapsAgree
    <3>2. ASSUME NEW u \in DOMAIN txidToInvoice
          PROVE  records'[txidToInvoice'[u]].txid = u
      <4>1. /\ txidToInvoice[u] \in DOMAIN records
            /\ records[txidToInvoice[u]].txid = u
        BY DEF Inv, TypeOK, Maps, MapsAgree
      <4> QED
        BY <4>1, <3>1, <1>4, <1>8
    <3> QED
      BY <3>2, <1>5, <1>8
  <2>4. /\ \A b \in DOMAIN payToToInvoice' : records'[payToToInvoice'[b]].payTo = b
        /\ \A j \in DOMAIN indexToInvoice' : records'[indexToInvoice'[j]].index = j
    BY <1>1, <1>7 DEF Inv, TypeOK, Maps, MapsAgree
  <2> QED
    BY <2>1, <2>2, <2>3, <2>4 DEF MapsAgree
<1>10. AllocatedAddressesDiffer' /\ NextIndexIsFresh'
  BY <1>1, <1>4, <1>7 DEF Inv, AllocatedAddressesDiffer, NextIndexIsFresh
<1> QED
  BY <1>6, <1>9, <1>10 DEF Inv

LEMMA InitInv ==
  ASSUME Init
  PROVE  Inv
BY InMemoryAssumption
   DEF Init, Empty, Inv, TypeOK, Maps, MapsAgree, NextIndexIsFresh,
       AllocatedAddressesDiffer

LEMMA NextInv ==
  ASSUME Inv, [Next]_vars
  PROVE  Inv'
<1>1. CASE UNCHANGED vars
  BY <1>1 DEF vars, Inv, TypeOK, Maps, MapsAgree, NextIndexIsFresh,
              AllocatedAddressesDiffer
<1> QED
  BY <1>1, IssueStaticStep, IssueIndexedStep, IssueWithAllocationStep, CommitPaidStep
     DEF Next

LEMMA InvHolds == Spec => []Inv
<1>1. Init => Inv
  BY InitInv
<1>2. Inv /\ [Next]_vars => Inv'
  BY NextInv
<1> QED
  BY <1>1, <1>2, PTL DEF Spec
-----------------------------------------------------------------------------
(* The maps lead to records that exist and the counter stays in its range. *)
THEOREM TypeCorrect == Spec => []TypeOK
<1>1. Inv => TypeOK
  BY DEF Inv
<1> QED
  BY <1>1, InvHolds, PTL

(* The five maps agree, also after operations that threw half-way.         *)
THEOREM MapsStayInAgreement == Spec => []MapsAgree
<1>1. Inv => MapsAgree
  BY DEF Inv
<1> QED
  BY <1>1, InvHolds, PTL

(* The counter is past every index in use.                                 *)
THEOREM NextIndexStaysFresh == Spec => []NextIndexIsFresh
<1>1. Inv => NextIndexIsFresh
  BY DEF Inv
<1> QED
  BY <1>1, InvHolds, PTL

(* Invoices that were given an index never share an address.               *)
THEOREM AllocatedAddressesStayDifferent == Spec => []AllocatedAddressesDiffer
<1>1. Inv => AllocatedAddressesDiffer
  BY DEF Inv
<1> QED
  BY <1>1, InvHolds, PTL
-----------------------------------------------------------------------------
(* Refinement.                                                             *)

Settlement == {<<h, records[h].txid>> :
                 h \in {g \in DOMAIN records : records[g].txid # NoTxid}}

(* Storing an invoice issues it.                                           *)
LEMMA StoreIssues ==
  ASSUME NEW n \in Nonce, NEW a \in Address, NEW i,
         <<n, a>> \notin DOMAIN records, Store(n, a, i)
  PROVE  Authority!Next
<1> DEFINE h == <<n, a>>
           new == [nonce |-> n, payTo |-> a, index |-> i, txid |-> NoTxid]
<1>1. records' = Set(records, h, new) /\ h \in Hash /\ h \notin DOMAIN records
  BY DEF Store, Hash
<1>2. new.txid = NoTxid
  OBVIOUS
<1> HIDE DEF h, new
<1>3. /\ DOMAIN records' = DOMAIN records \cup {h} /\ records'[h] = new
      /\ \A g \in DOMAIN records : records'[g] = records[g]
  BY <1>1 DEF Set
<1>4. {g \in DOMAIN records' : records'[g].txid # NoTxid} =
        {g \in DOMAIN records : records[g].txid # NoTxid}
  BY <1>2, <1>3
<1>5. Settlement' = Settlement
  BY <1>3, <1>4 DEF Settlement
<1>6. Authority!Issue(h)
  BY <1>1, <1>3, <1>5 DEF Authority!Issue, Settlement
<1> QED
  BY <1>1, <1>6 DEF Authority!Next

LEMMA CommitPaidSettles ==
  ASSUME Inv, NEW h \in Hash, NEW t \in Txid, CommitPaid(h, t)
  PROVE  Authority!Next
<1>1. /\ h \in DOMAIN records /\ records[h].txid = NoTxid
      /\ t \in DOMAIN txidToInvoice => txidToInvoice[t] = h
      /\ records' = [records EXCEPT ![h].txid = t]
  BY DEF CommitPaid, Unbound
<1>2. records[h] \in Record
  BY <1>1 DEF Inv, TypeOK, Maps
<1>3. /\ DOMAIN records' = DOMAIN records
      /\ \A g \in DOMAIN records : g # h => records'[g] = records[g]
      /\ records'[h].txid = t
  BY <1>1, <1>2 DEF Record
<1>4. {g \in DOMAIN records' : records'[g].txid # NoTxid} =
        {g \in DOMAIN records : records[g].txid # NoTxid} \cup {h}
  BY <1>1, <1>3, InMemoryAssumption
<1>5. Settlement' = Settlement \cup {<<h, t>>}
  BY <1>1, <1>3, <1>4 DEF Settlement
<1>6. \A g \in DOMAIN records : records[g].txid # NoTxid =>
        g # h /\ records[g].txid # t
  BY <1>1, InMemoryAssumption DEF Inv, MapsAgree
<1>7. \A p \in Settlement : p[1] # h /\ p[2] # t
  BY <1>6 DEF Settlement
<1>8. Authority!Settle(h, t)
  BY <1>1, <1>3, <1>5, <1>7 DEF Authority!Settle, Settlement
<1> QED
  BY <1>8 DEF Authority!Next

(* The store implements the settlement authority: every operation that does*)
(* not throw is one step of it, burned indexes are none.                   *)
THEOREM RefinesAuthority == Spec => ImplementsAuthority
<1>1. Init => Authority!Init
  BY DEF Init, Empty, Authority!Init
<1>2. ASSUME Inv, [Next]_vars PROVE [Authority!Next]_(Authority!vars)
  <2>1. ASSUME NEW n \in Nonce, NEW a \in Address,
               \/ IssueStatic(n, a)
               \/ \E i \in 0 .. IndexLimit - 1 : IssueIndexed(n, a, i)
        PROVE  Authority!Next
    BY <2>1, StoreIssues DEF IssueStatic, IssueIndexed
  <2>2. ASSUME NEW n \in Nonce, IssueWithAllocation(n)
        PROVE  [Authority!Next]_(Authority!vars)
    <3>1. CASE records' = records
      BY <3>1 DEF Authority!vars
    <3>2. CASE /\ nextDerivationIndex < IndexLimit
               /\ <<n, Derive[nextDerivationIndex]>> \notin DOMAIN records
               /\ Store(n, Derive[nextDerivationIndex], nextDerivationIndex)
      <4>1. Derive[nextDerivationIndex] \in Address
        BY <3>2, <1>2, InMemoryAssumption DEF Inv, TypeOK
      <4> QED
        BY <3>2, <4>1, StoreIssues
    <3> QED
      BY <2>2, <3>1, <3>2 DEF IssueWithAllocation
  <2>3. ASSUME NEW h \in Hash, NEW t \in Txid, CommitPaid(h, t)
        PROVE  Authority!Next
    BY <1>2, <2>3, CommitPaidSettles
  <2>4. CASE UNCHANGED vars
    BY <2>4 DEF vars, Authority!vars
  <2> QED
    BY <1>2, <2>1, <2>2, <2>3, <2>4 DEF Next
<1> QED
  BY <1>1, <1>2, InvHolds, PTL DEF Spec, ImplementsAuthority, Authority!Spec
=============================================================================
