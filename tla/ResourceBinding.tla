-------------------------- MODULE ResourceBinding --------------------------
(***************************************************************************)
(* canonicalQuery (x402-xec-core/src/resource.ts): what of the query of a  *)
(* request enters its resourceHash, and with it the invoice.  The hash of  *)
(* the canonical form is collision free, so two requests may use the same  *)
(* invoice exactly if their canonical forms are equal.  Keys and values    *)
(* are numbers, ordered as the strings they stand for.                     *)
(***************************************************************************)
EXTENDS Integers, SequencesExt

CONSTANTS
  Key,     \* query keys
  Value,   \* query values
  MaxLen   \* bound on the number of query pairs

ASSUME BindingAssumption ==
  Key \subseteq Int /\ Value \subseteq Int /\ MaxLen \in Nat

VARIABLE query   \* the query pairs of a request, as the client wrote them

Pair == [key : Key, value : Value]

LastFirst(q, i, j) ==  \* variant: index of b minus index of a
  \/ q[i].key < q[j].key
  \/ q[i].key = q[j].key /\ i > j

ByValue(q, i, j) ==  \* variant: repeated keys lose their order
  \/ q[i].key < q[j].key
  \/ q[i].key = q[j].key /\ q[i].value < q[j].value
  \/ q[i] = q[j] /\ i < j

(* The comparator of canonicalQuery, on positions of the query.            *)
Before(q, i, j) ==
  \/ q[i].key < q[j].key
  \/ q[i].key = q[j].key /\ i < j

(* The pair at position i moves to one past the number of those before it. *)
Rank(q, i) == 1 + Cardinality({j \in DOMAIN q : Before(q, j, i)})

CanonicalQuery(q) ==
  [k \in DOMAIN q |-> q[CHOOSE i \in DOMAIN q : Rank(q, i) = k]]

Init == query = <<>>

(* A client, or a proxy on the way, adds a pair, ...                       *)
Add(p) ==
  /\ Len(query) < MaxLen
  /\ query' = Append(query, p)

(* ... drops one or writes one elsewhere.                                  *)
Drop(i) == query' = RemoveAt(query, i)

Move(i, j) == query' = InsertAt(RemoveAt(query, i), j, query[i])

Next ==
  \/ \E p \in Pair : Add(p)
  \/ \E i \in DOMAIN query : Drop(i)
  \/ \E i, j \in DOMAIN query : Move(i, j)

Spec == Init /\ [][Next]_query
-----------------------------------------------------------------------------
(* The values a key has in a query, in order: what a handler reads.        *)
Values(q, k) == FoldLeft(LAMBDA vs, p : IF p.key = k THEN Append(vs, p) ELSE vs, <<>>, q)

(* What a handler may tell apart is told apart by the hash, and only that: *)
(* a rewritten query is the same resource exactly if every key has the     *)
(* same values in the same order.                                          *)
BindsWhatIsRead ==
  [][CanonicalQuery(query') = CanonicalQuery(query)
     <=> \A k \in Key : Values(query', k) = Values(query, k)]_query

(* Canonicalising twice changes nothing, and nothing is lost or invented.  *)
CanonicalOnce ==
  LET c == CanonicalQuery(query) IN
  /\ CanonicalQuery(c) = c
  /\ \A p \in Pair :
       Cardinality({i \in DOMAIN c : c[i] = p}) =
         Cardinality({i \in DOMAIN query : query[i] = p})

(* "Query pairs are sorted by key and value while retaining duplicates"    *)
(* (docs/core-security-model.md:21-22).                                    *)
SortedByKeyAndValue ==
  LET c == CanonicalQuery(query) IN
  \A i, j \in DOMAIN c : i < j =>
    \/ c[i].key < c[j].key
    \/ c[i].key = c[j].key /\ c[i].value <= c[j].value
=============================================================================
