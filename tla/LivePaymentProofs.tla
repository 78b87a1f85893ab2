------------------------- MODULE LivePaymentProofs --------------------------
(***************************************************************************)
(* Proofs about LivePayment for any number of executions, coins and        *)
(* invoices, whatever buildFundingTx selects.  The inductive invariant Inv *)
(* follows a payment from the execution that made it over the wire into    *)
(* the network: while its execution runs it is the one broadcast of this   *)
(* execution, and afterwards it is among the results.                      *)
(***************************************************************************)
EXTENDS LivePayment, FiniteSetTheorems, SequenceTheorems, TLAPS

InPolicy(i, time) == PolicyAllows(i, time) /\ i.issuedAt <= time

Pays(tx, i) == tx.payTo = i.payTo /\ tx.amountSats = i.amountSats

Allowed(p) == InPolicy(p.invoice, p.clock) /\ Pays(p.tx, p.invoice) /\ FeeAllowed(p.tx)

(* What an execution has established so far.                               *)
ExecOK(x) ==
  /\ pc[x] # "idle" => req[x] \in Invoice /\ InPolicy(req[x], clock[x])
  /\ pc[x] \in {"signing", "approval", "broadcasting"} => Pays(built[x], req[x])
  /\ pc[x] \in {"approval", "broadcasting"} => FeeAllowed(built[x])
  /\ pc[x] # "broadcasting" => reply[x] = "none"
  /\ reply[x] = "ok" => built[x] \in Network

Reported(p) == \E r \in results : r.payment = p

(* A broadcast on its way is the only one of its execution, which has no   *)
(* answer yet, or its execution has ended with a network error.            *)
WireOK(b) ==
  /\ b = [from |-> b.from, payment |-> b.payment]
  /\ Allowed(b.payment) /\ b.payment.invoice \in Invoice
  /\ b.from \in Exec => /\ pc[b.from] = "broadcasting" /\ reply[b.from] = "none"
                        /\ b.payment = PaymentOf(b.from)
  /\ b.from \notin Exec => b.from = Nobody /\ Reported(b.payment)

Accounted(p) ==
  \/ \E x \in Exec : pc[x] = "broadcasting" /\ reply[x] = "ok" /\ PaymentOf(x) = p
  \/ Reported(p)

PaymentsInv ==
  /\ \A x \in Exec : ExecOK(x)
  /\ \A b \in wire : WireOK(b)
  /\ \A p \in paid : Allowed(p) /\ Accounted(p)
  /\ \A r \in results : r.outcome = "BROADCAST" => r.payment.tx \in Network

Inv == TypeOK /\ PaymentsInv
-----------------------------------------------------------------------------
(* Numbers.  A set of naturals has a least one: what induction over the    *)
(* naturals is done with below, by the least counterexample.               *)
LEMMA LeastNumber ==
  ASSUME NEW S, S \subseteq Nat, S # {}
  PROVE  \E m \in S : \A k \in S : m <= k
<1> DEFINE Less == OpToRel(<, Nat)
<1>1. \A p \in Nat \X Nat : p[1] < p[2] => p \in Less
  BY DEF OpToRel
<1>2. \E m \in S : \A k \in S : ~(<<k, m>> \in Less)
  BY WFMin, NatLessThanWellFounded, Zenon
<1> HIDE DEF Less
<1> PICK m \in S : \A k \in S : ~(<<k, m>> \in Less)
  BY <1>2
<1>3. \A k \in S : k \in Nat /\ m \in Nat /\ ~(k < m)
  BY <1>1
<1> QED
  BY <1>3

(* Max of the community modules, over a part of an initial segment.        *)
LEMMA GreatestIndex ==
  ASSUME NEW k \in Nat, NEW s, s \subseteq 1..k, s # {}
  PROVE  Max(s) \in s /\ \A i \in s : i <= Max(s)
<1> DEFINE Bounds == {m \in Nat : \A i \in s : i <= m}
<1>0. \A i \in s : i \in 1..k
  OBVIOUS
<1>1. k \in Bounds /\ Bounds \subseteq Nat
  OBVIOUS
<1> PICK m \in Bounds : \A b \in Bounds : m <= b
  BY <1>1, LeastNumber
<1>2. m \in s
  <2> SUFFICES ASSUME m \notin s PROVE FALSE
    OBVIOUS
  <2>1. \A i \in s : 1 <= i /\ i <= m /\ i # m
    BY <1>0
  <2> PICK i \in s : TRUE
    OBVIOUS
  <2>2. m - 1 \in Nat
    BY <1>0, <2>1
  <2>3. \A j \in s : j <= m - 1
    BY <1>0, <2>1
  <2>4. m - 1 \in Bounds
    BY <2>2, <2>3
  <2> QED
    BY <2>2, <2>4
<1>3. \A i \in s : m >= i
  BY <1>0
<1>4. \E x \in s : \A y \in s : x >= y
  BY <1>2, <1>3
<1>5. Max(s) \in s /\ \A y \in s : Max(s) >= y
  BY <1>4, Zenon DEF Max
<1> QED
  BY <1>0, <1>5

(* The sum over the inputs is a number: the fold of InputSats, over the    *)
(* subsets of the indexes, is well defined, the subsets of 1..k one k      *)
(* after the other.                                                        *)
LEMMA InputSatsType ==
  ASSUME NEW q, NEW n \in Nat, DOMAIN q = 1..n, \A i \in 1..n : q[i].sats \in Int
  PROVE  InputSats(q) \in Int
<1> DEFINE Rest(s) == s \ {Max(s)}
           Last1(s) == q[Max(s)].sats
           Sum1(F, s) == IF s = {} THEN 0 ELSE F[Rest(s)] + Last1(s)
           Step(F, k) == [s \in SUBSET (1..k) |-> Sum1(F, s)]
           Sums(F) == F = Step(F, n)
           Total == CHOOSE F : Sums(F)
<1>1. InputSats(q) = Total[1..n]
  BY DEF InputSats, FoldLeft, MapThenFoldSet
<1>2. ASSUME NEW k \in 0..n, NEW s \in SUBSET (1..k), s # {}
      PROVE  k - 1 \in 0..n /\ Rest(s) \in SUBSET (1..(k - 1)) /\ Last1(s) \in Int
  <2>0. k \in Nat /\ k <= n /\ s \subseteq 1..k
    OBVIOUS
  <2>1. Max(s) \in s /\ \A i \in s : i <= Max(s)
    BY <1>2, <2>0, GreatestIndex
  <2>2. \A i \in s : i \in 1..k
    OBVIOUS
  <2>3. Max(s) \in 1..n /\ k - 1 \in 0..n
    <3>1. Max(s) \in 1..k
      BY <2>1, <2>2
    <3> QED
      BY <2>0, <3>1
  <2>4. \A i \in Rest(s) : i \in 1..(k - 1)
    <3> TAKE i \in Rest(s)
    <3>1. i \in 1..k /\ i <= Max(s) /\ i # Max(s) /\ Max(s) \in 1..k
      BY <2>1, <2>2
    <3> QED
      BY <3>1
  <2> QED
    BY <2>3, <2>4
<1> HIDE DEF Rest, Last1
<1>3. \A k \in 0..n : \E F : F = Step(F, k)
  <2> DEFINE Bad == {k \in 0..n : ~\E F : F = Step(F, k)}
  <2> SUFFICES ASSUME Bad # {} PROVE FALSE
    OBVIOUS
  <2>0. Bad \subseteq Nat
    OBVIOUS
  <2> PICK k \in Bad : \A j \in Bad : k <= j
    BY <2>0, LeastNumber
  <2>1. CASE k = 0
    <3> DEFINE F == [s \in SUBSET (1..k) |-> 0]
    <3>1. \A s \in SUBSET (1..k) : s = {}
      BY <2>1
    <3>2. F = Step(F, k)
      BY <3>1
    <3> QED
      BY <3>2
  <2>2. CASE k # 0
    <3>1. k - 1 \in 0..n /\ ~(k <= k - 1)
      BY <2>2
    <3>2. k - 1 \notin Bad
      BY <3>1
    <3> PICK F : F = Step(F, k - 1)
      BY <3>1, <3>2
    <3> DEFINE G == Step(F, k)
    <3>3. ASSUME NEW s \in SUBSET (1..k), s # {}
          PROVE  G[Rest(s)] = F[Rest(s)]
      <4>1. Rest(s) \in SUBSET (1..(k - 1)) /\ Rest(s) \in SUBSET (1..k)
        BY <1>2, <3>3
      <4>2. F[Rest(s)] = Sum1(F, Rest(s))
        BY <4>1
      <4>3. G[Rest(s)] = Sum1(F, Rest(s))
        BY <4>1
      <4> QED
        BY <4>2, <4>3
    <3>4. G = Step(G, k)
      BY <3>3
    <3> QED
      BY <3>4
  <2> QED
    BY <2>1, <2>2
<1>4. Sums(Total)
  <2>1. n \in 0..n
    OBVIOUS
  <2>2. \E F : Sums(F)
    BY <1>3, <2>1
  <2> HIDE DEF Sums
  <2> QED
    BY <2>2, Zenon
<1> HIDE DEF Total
<1>5. \A k \in 0..n : \A s \in SUBSET (1..k) : Total[s] \in Int
  <2> DEFINE Bad == {k \in 0..n : \E s \in SUBSET (1..k) : Total[s] \notin Int}
  <2> SUFFICES ASSUME Bad # {} PROVE FALSE
    OBVIOUS
  <2>0. Bad \subseteq Nat
    OBVIOUS
  <2> PICK k \in Bad : \A j \in Bad : k <= j
    BY <2>0, LeastNumber
  <2> PICK s \in SUBSET (1..k) : Total[s] \notin Int
    OBVIOUS
  <2>1. s \in SUBSET (1..n)
    OBVIOUS
  <2>2. Total[s] = Sum1(Total, s)
    BY <1>4, <2>1
  <2>3. s # {}
    BY <2>2
  <2>4. k - 1 \in 0..n /\ Rest(s) \in SUBSET (1..(k - 1)) /\ Last1(s) \in Int
    BY <1>2, <2>3
  <2>5. k - 1 \notin Bad
    <3>1. ~(k <= k - 1)
      OBVIOUS
    <3> QED
      BY <3>1
  <2>6. Total[Rest(s)] \in Int
    BY <2>4, <2>5
  <2> QED
    BY <2>2, <2>3, <2>4, <2>6
<1>6. n \in 0..n /\ 1..n \in SUBSET (1..n)
  OBVIOUS
<1> QED
  BY <1>1, <1>5, <1>6
-----------------------------------------------------------------------------
(* The transaction pays what it is built for, whatever coins are selected. *)
LEMMA BuiltPays ==
  ASSUME NEW utxos, NEW i
  PROVE  Pays(BuildFundingTx(utxos, i.payTo, i.amountSats), i)
BY DEF Pays, BuildFundingTx

LEMMA PaymentFields ==
  ASSUME NEW x \in Exec
  PROVE  /\ PaymentOf(x).invoice = req[x] /\ PaymentOf(x).tx = built[x]
         /\ PaymentOf(x).clock = clock[x]
BY DEF PaymentOf

(* A step of one execution leaves the others alone.                        *)
OthersKept(x) ==
  \A y \in Exec : y # x =>
    /\ pc'[y] = pc[y] /\ req'[y] = req[y] /\ clock'[y] = clock[y]
    /\ built'[y] = built[y] /\ reply'[y] = reply[y]

(* An execution proceeds: nothing of it is on the wire before or after.    *)
LEMMA ProceedKeeps ==
  ASSUME Inv, NEW x \in Exec, OthersKept(x), pc[x] # "broadcasting",
         pc'[x] \in {"utxos", "signing", "approval"},
         TypeOK', req'[x] \in Invoice, InPolicy(req'[x], clock'[x]),
         reply'[x] = "none",
         pc'[x] \in {"signing", "approval"} => Pays(built'[x], req'[x]),
         pc'[x] = "approval" => FeeAllowed(built'[x]),
         UNCHANGED <<now, unspent, wire, paid, results>>
  PROVE  Inv'
<1>2. ASSUME NEW y \in Exec, y # x
      PROVE  /\ pc'[y] = pc[y] /\ req'[y] = req[y] /\ clock'[y] = clock[y]
             /\ built'[y] = built[y] /\ reply'[y] = reply[y]
  BY <1>2 DEF OthersKept
<1>3. ASSUME NEW y \in Exec PROVE ExecOK(y)'
  <2>1. CASE y = x
    BY <2>1 DEF ExecOK
  <2>2. CASE y # x
    BY <2>2, <1>2 DEF Inv, PaymentsInv, ExecOK, Network
  <2> QED
    BY <2>1, <2>2
<1>4. \A y \in Exec : pc[y] = "broadcasting" =>
        /\ pc'[y] = pc[y] /\ reply'[y] = reply[y] /\ PaymentOf(y)' = PaymentOf(y)
  BY <1>2 DEF PaymentOf
<1>5. \A b \in wire' : WireOK(b)'
  BY <1>4 DEF Inv, PaymentsInv, WireOK, Reported
<1>6. \A p \in paid' : Allowed(p)' /\ Accounted(p)'
  BY <1>4 DEF Inv, PaymentsInv, Accounted, Reported
<1> QED
  BY <1>3, <1>5, <1>6 DEF Inv, PaymentsInv, Network

(* An execution ends; what it leaves on the wire is nobody's and reported. *)
LEMMA FinishKeeps ==
  ASSUME Inv, NEW x \in Exec, Finish(x), UNCHANGED <<now, unspent, paid>>,
         results \subseteq results',
         \A r \in results' :
           \/ r \in results
           \/ /\ r.payment = PaymentOf(x)
              /\ r.outcome \in {"BROADCAST", "NETWORK_ERROR"}
              /\ r.outcome = "BROADCAST" => reply[x] = "ok",
         reply[x] = "ok" => \E r \in results' : r.payment = PaymentOf(x),
         \A b \in wire' :
           \/ b \in wire /\ b.from # x
           \/ /\ b = [from |-> Nobody, payment |-> PaymentOf(x)]
              /\ pc[x] = "broadcasting"
              /\ \E r \in results' : r.payment = PaymentOf(x)
  PROVE  Inv'
<1>1. /\ pc' = [pc EXCEPT ![x] = "idle"] /\ req' = [req EXCEPT ![x] = NoInvoice]
      /\ clock' = [clock EXCEPT ![x] = 0] /\ built' = [built EXCEPT ![x] = NoTx]
      /\ reply' = [reply EXCEPT ![x] = "none"]
  BY DEF Finish
<1>2. ASSUME NEW y \in Exec, y # x
      PROVE  /\ pc'[y] = pc[y] /\ req'[y] = req[y] /\ clock'[y] = clock[y]
             /\ built'[y] = built[y] /\ reply'[y] = reply[y]
             /\ PaymentOf(y)' = PaymentOf(y)
  BY <1>1, <1>2 DEF PaymentOf, Inv, TypeOK
<1>3. ASSUME NEW y \in Exec PROVE ExecOK(y)'
  <2>1. CASE y = x
    BY <2>1, <1>1 DEF ExecOK, Inv, TypeOK
  <2>2. CASE y # x
    BY <2>2, <1>2 DEF Inv, PaymentsInv, ExecOK, Network
  <2> QED
    BY <2>1, <2>2
<1>4. ASSUME pc[x] = "broadcasting"
      PROVE  Allowed(PaymentOf(x)) /\ PaymentOf(x).invoice \in Invoice
  BY <1>4, PaymentFields DEF Inv, PaymentsInv, ExecOK, Allowed
<1>5. \A p : Reported(p) => Reported(p)'
  BY DEF Reported
<1>6. ASSUME NEW b \in wire' PROVE WireOK(b)'
  <2>1. CASE b \in wire /\ b.from # x
    BY <2>1, <1>2, <1>5 DEF Inv, PaymentsInv, WireOK
  <2>2. CASE /\ b = [from |-> Nobody, payment |-> PaymentOf(x)]
             /\ pc[x] = "broadcasting"
             /\ \E r \in results' : r.payment = PaymentOf(x)
    <3>1. b.from = Nobody /\ b.payment = PaymentOf(x) /\ b.from \notin Exec
      BY <2>2, LivePaymentAssumption
    <3>2. b = [from |-> b.from, payment |-> b.payment]
      BY <2>2, <3>1
    <3>3. Reported(b.payment)'
      BY <2>2, <3>1 DEF Reported
    <3> QED
      BY <2>2, <3>1, <3>2, <3>3, <1>4 DEF WireOK
  <2> QED
    BY <2>1, <2>2
<1>7. ASSUME NEW p \in paid' PROVE Allowed(p)' /\ Accounted(p)'
  <2>1. Allowed(p) /\ Accounted(p)
    BY DEF Inv, PaymentsInv
  <2>2. CASE Reported(p)
    BY <2>1, <2>2, <1>5 DEF Accounted
  <2>3. ASSUME NEW y \in Exec, pc[y] = "broadcasting", reply[y] = "ok",
               PaymentOf(y) = p
        PROVE  Accounted(p)'
    <3>1. CASE y = x
      BY <2>3, <3>1 DEF Accounted, Reported
    <3>2. CASE y # x
      BY <2>3, <3>2, <1>2 DEF Accounted
    <3> QED
      BY <3>1, <3>2
  <2> QED
    BY <2>1, <2>2, <2>3 DEF Accounted
<1>8. ASSUME NEW r \in results', r.outcome = "BROADCAST"
      PROVE  r.payment.tx \in Network
  BY <1>8, PaymentFields DEF Inv, PaymentsInv, ExecOK
<1>9. TypeOK'
  <2>1. \A b \in wire' : b.from \in Exec \cup {Nobody} /\ b.payment.invoice \in Invoice
    BY <1>6 DEF WireOK
  <2>2. \A r \in results' : r.outcome \in {"BROADCAST", "NETWORK_ERROR"}
    BY DEF Inv, TypeOK
  <2> QED
    BY <2>1, <2>2, <1>1 DEF Inv, TypeOK
<1> QED
  BY <1>3, <1>6, <1>7, <1>8, <1>9 DEF Inv, PaymentsInv, Network

LEMMA ThrowKeeps ==
  ASSUME Inv, NEW x \in Exec, Throw(x), UNCHANGED <<now, unspent, paid, wire>>,
         reply[x] # "ok", \A b \in wire : b.from # x
  PROVE  Inv'
BY FinishKeeps DEF Throw

(* Outside of a broadcast an execution has nothing on the wire.            *)
LEMMA NothingOnWire ==
  ASSUME Inv, NEW x \in Exec, pc[x] # "broadcasting" \/ reply[x] # "none"
  PROVE  \A b \in wire : b.from # x
BY DEF Inv, PaymentsInv, WireOK
-----------------------------------------------------------------------------
(* The steps.                                                              *)

LEMMA ExecuteStep ==
  ASSUME Inv, NEW x \in Exec, NEW i \in Invoice, Execute(x, i)
  PROVE  Inv'
<1>1. pc[x] = "idle" /\ UNCHANGED <<now, unspent, wire, paid>>
  BY DEF Execute
<1>2. CASE UNCHANGED <<slots, results>>
  BY <1>1, <1>2 DEF slots, Inv, TypeOK, PaymentsInv, ExecOK, WireOK, Accounted,
                    Reported, PaymentOf, Network
<1>3. CASE /\ PolicyAllows(i, now) /\ ValidInvoice(i, now)
           /\ Await(x, "utxos")
           /\ req' = [req EXCEPT ![x] = i]
           /\ clock' = [clock EXCEPT ![x] = now]
           /\ UNCHANGED <<built, reply, results>>
  <2>1. /\ pc'[x] = "utxos" /\ req'[x] = i /\ clock'[x] = now
        /\ OthersKept(x) /\ TypeOK'
    BY <1>1, <1>3 DEF Await, OthersKept, Inv, TypeOK
  <2>2. reply'[x] = "none" /\ now \in Nat
    BY <1>1, <1>3 DEF Inv, TypeOK, PaymentsInv, ExecOK
  <2>3. InPolicy(i, now)
    BY <1>3 DEF InPolicy, ValidInvoice
  <2> QED
    BY <1>1, <1>3, <2>1, <2>2, <2>3, ProceedKeeps
<1> QED
  BY <1>2, <1>3 DEF Execute

LEMMA DiscoverStep ==
  ASSUME Inv, NEW x \in Exec, Discover(x)
  PROVE  Inv'
<1>1. pc[x] = "utxos" /\ UNCHANGED <<now, unspent, wire, paid>>
  BY DEF Discover
<1>2. reply[x] = "none"
  BY <1>1 DEF Inv, PaymentsInv, ExecOK
<1>3. CASE Throw(x)
  BY <1>1, <1>2, <1>3, ThrowKeeps, NothingOnWire
<1>4. ASSUME NEW utxos, Await(x, "signing"),
             built' = [built EXCEPT ![x] =
                         BuildFundingTx(utxos, req[x].payTo, req[x].amountSats)],
             UNCHANGED <<req, clock, reply, results>>
      PROVE  Inv'
  <2>1. /\ pc'[x] = "signing" /\ req'[x] = req[x] /\ clock'[x] = clock[x]
        /\ built'[x] = BuildFundingTx(utxos, req[x].payTo, req[x].amountSats)
        /\ OthersKept(x) /\ TypeOK'
    BY <1>1, <1>4 DEF Await, OthersKept, Inv, TypeOK
  <2>2. Pays(built'[x], req'[x])
    BY <2>1, BuiltPays
  <2>3. req[x] \in Invoice /\ InPolicy(req[x], clock[x]) /\ clock[x] \in Nat
    BY <1>1 DEF Inv, TypeOK, PaymentsInv, ExecOK
  <2> QED
    BY <1>1, <1>2, <1>4, <2>1, <2>2, <2>3, ProceedKeeps
<1> QED
  BY <1>3, <1>4 DEF Discover

LEMMA SignStep ==
  ASSUME Inv, NEW x \in Exec, Sign(x)
  PROVE  Inv'
<1>1. pc[x] = "signing" /\ UNCHANGED <<now, unspent, wire, paid>>
  BY DEF Sign
<1>2. /\ reply[x] = "none" /\ Pays(built[x], req[x])
      /\ req[x] \in Invoice /\ InPolicy(req[x], clock[x]) /\ clock[x] \in Nat
  BY <1>1 DEF Inv, TypeOK, PaymentsInv, ExecOK
<1>3. CASE Throw(x)
  BY <1>1, <1>2, <1>3, ThrowKeeps, NothingOnWire
<1>4. CASE /\ FeeAllowed(built[x]) /\ Await(x, "approval")
           /\ UNCHANGED <<req, clock, built, reply, results>>
  <2>1. pc'[x] = "approval" /\ OthersKept(x) /\ TypeOK'
    BY <1>1, <1>4 DEF Await, OthersKept, Inv, TypeOK
  <2> QED
    BY <1>1, <1>2, <1>4, <2>1, ProceedKeeps
<1> QED
  BY <1>3, <1>4 DEF Sign, Return

LEMMA ApproveStep ==
  ASSUME Inv, NEW x \in Exec, Approve(x)
  PROVE  Inv'
<1>1. pc[x] = "approval" /\ UNCHANGED <<now, unspent, paid>>
  BY DEF Approve
<1>2. /\ reply[x] = "none" /\ Pays(built[x], req[x]) /\ FeeAllowed(built[x])
      /\ req[x] \in Invoice /\ InPolicy(req[x], clock[x])
  BY <1>1 DEF Inv, PaymentsInv, ExecOK
<1>3. CASE Throw(x) /\ UNCHANGED wire
  BY <1>1, <1>2, <1>3, ThrowKeeps, NothingOnWire
<1>4. CASE /\ wire' = wire \cup {[from |-> x, payment |-> PaymentOf(x)]}
           /\ Await(x, "broadcasting")
           /\ UNCHANGED <<req, clock, built, reply, results>>
  <2>1. /\ \A y \in Exec : y # x => pc'[y] = pc[y]
        /\ \A y \in Exec : PaymentOf(y)' = PaymentOf(y)
        /\ pc'[x] = "broadcasting"
        /\ pc' \in [Exec -> {"idle", "utxos", "signing", "approval", "broadcasting"}]
    BY <1>4 DEF Await, PaymentOf, Inv, TypeOK
  <2>2. ASSUME NEW y \in Exec PROVE ExecOK(y)'
    <3>1. CASE y = x
      BY <3>1, <2>1, <1>2, <1>4 DEF ExecOK
    <3>2. CASE y # x
      BY <3>2, <2>1, <1>1, <1>4 DEF Inv, PaymentsInv, ExecOK, Network
    <3> QED
      BY <3>1, <3>2
  <2>3. Allowed(PaymentOf(x)) /\ PaymentOf(x).invoice \in Invoice
    BY <1>2, PaymentFields DEF Allowed
  <2>4. ASSUME NEW b \in wire' PROVE WireOK(b)'
    <3>1. CASE b \in wire
      <4>1. b.from # x
        BY <3>1, <1>1, NothingOnWire
      <4> QED
        BY <3>1, <4>1, <2>1, <1>4 DEF Inv, PaymentsInv, WireOK, Reported
    <3>2. CASE b = [from |-> x, payment |-> PaymentOf(x)]
      <4>1. b.from = x /\ b.payment = PaymentOf(x)
        BY <3>2
      <4>2. b = [from |-> b.from, payment |-> b.payment]
        BY <3>2, <4>1
      <4> QED
        BY <4>1, <4>2, <2>1, <2>3, <1>2, <1>4 DEF WireOK
    <3> QED
      BY <3>1, <3>2, <1>4
  <2>5. \A p \in paid' : Allowed(p)' /\ Accounted(p)'
    BY <2>1, <1>1, <1>4 DEF Inv, PaymentsInv, Accounted, Reported
  <2>6. TypeOK'
    <3>1. \A b \in wire' : b.from \in Exec \cup {Nobody} /\ b.payment.invoice \in Invoice
      BY <2>4 DEF WireOK
    <3> QED
      BY <3>1, <2>1, <1>1, <1>4 DEF Inv, TypeOK
  <2> QED
    BY <2>2, <2>4, <2>5, <2>6, <1>1, <1>4 DEF Inv, PaymentsInv, Network
<1> QED
  BY <1>3, <1>4 DEF Approve

(* Two broadcasts of one execution are one.                                *)
LEMMA OneBroadcast ==
  ASSUME Inv, NEW b \in wire, NEW d \in wire, b.from = d.from, b.from \in Exec
  PROVE  b = d
<1>1. WireOK(b) /\ WireOK(d)
  BY DEF Inv, PaymentsInv
<1>2. b.payment = d.payment
  BY <1>1 DEF WireOK
<1> QED
  BY <1>1, <1>2 DEF WireOK

LEMMA DeliverStep ==
  ASSUME Inv, NEW b \in wire, Deliver(b)
  PROVE  Inv'
<1>1. /\ wire' = wire \ {b}
      /\ UNCHANGED <<now, pc, req, clock, built, results>>
  BY DEF Deliver
<1>2. PICK verdict \in {"ok", "rejected"} :
        /\ \/ /\ verdict = "ok"
              /\ paid' = paid \cup {b.payment}
           \/ /\ verdict = "rejected" \/ b.payment.tx \in Network
              /\ paid' = paid
        /\ reply' = [x \in Exec |-> IF x = b.from THEN verdict ELSE reply[x]]
  BY DEF Deliver
<1>3. WireOK(b)
  BY DEF Inv, PaymentsInv
<1>4. \A x \in Exec : PaymentOf(x)' = PaymentOf(x)
  BY <1>1 DEF PaymentOf
<1>5. Network \subseteq Network' /\ (verdict = "ok" => b.payment.tx \in Network')
  BY <1>2 DEF Network
<1>6. ASSUME NEW x \in Exec PROVE ExecOK(x)'
  <2>1. ExecOK(x)
    BY DEF Inv, PaymentsInv
  <2>2. CASE x = b.from
    <3>1. /\ pc[x] = "broadcasting" /\ b.payment = PaymentOf(x)
          /\ reply'[x] = verdict /\ b.payment.tx = built[x]
      BY <2>2, <1>2, <1>3, PaymentFields DEF WireOK
    <3> QED
      BY <3>1, <2>1, <1>1, <1>5 DEF ExecOK
  <2>3. CASE x # b.from
    BY <2>3, <2>1, <1>1, <1>2, <1>5 DEF ExecOK
  <2> QED
    BY <2>2, <2>3
<1>7. ASSUME NEW d \in wire' PROVE WireOK(d)'
  <2>1. d \in wire /\ d # b /\ WireOK(d)
    BY <1>1 DEF Inv, PaymentsInv
  <2>2. d.from \in Exec => d.from # b.from
    BY <2>1, OneBroadcast
  <2> QED
    BY <2>1, <2>2, <1>1, <1>2, <1>4 DEF WireOK, Reported
<1>8. ASSUME NEW p \in paid' PROVE Allowed(p)' /\ Accounted(p)'
  <2>1. CASE p \in paid
    <3>1. Allowed(p) /\ Accounted(p)
      BY <2>1 DEF Inv, PaymentsInv
    <3>2. ASSUME NEW x \in Exec, pc[x] = "broadcasting", reply[x] = "ok",
                 PaymentOf(x) = p
          PROVE  Accounted(p)'
      <4>1. x # b.from
        BY <3>2, <1>3 DEF WireOK
      <4> QED
        BY <3>2, <4>1, <1>1, <1>2, <1>4 DEF Accounted
    <3> QED
      BY <3>1, <3>2, <1>1 DEF Accounted, Reported
  <2>2. CASE p = b.payment /\ verdict = "ok"
    <3>1. CASE b.from \in Exec
      BY <2>2, <3>1, <1>1, <1>2, <1>3, <1>4 DEF WireOK, Accounted
    <3>2. CASE b.from \notin Exec
      BY <2>2, <3>2, <1>1, <1>3 DEF WireOK, Accounted, Reported
    <3> QED
      BY <3>1, <3>2, <2>2, <1>3 DEF WireOK
  <2> QED
    BY <2>1, <2>2, <1>2
<1>9. TypeOK'
  BY <1>1, <1>2 DEF Inv, TypeOK
<1> QED
  BY <1>1, <1>5, <1>6, <1>7, <1>8, <1>9 DEF Inv, PaymentsInv

LEMMA ResolveStep ==
  ASSUME Inv, NEW x \in Exec, Resolve(x)
  PROVE  Inv'
<1>1. UNCHANGED <<now, unspent, wire, paid>>
  BY DEF Resolve
<1>2. CASE Rejection(x) /\ Throw(x)
  BY <1>1, <1>2, ThrowKeeps, NothingOnWire DEF Rejection
<1>3. CASE Accepted(x) /\ Report(x, "BROADCAST")
  <2> DEFINE new == [outcome |-> "BROADCAST", payment |-> PaymentOf(x)]
  <2>1. Finish(x) /\ results' = results \cup {new} /\ reply[x] = "ok"
    BY <1>3 DEF Report, Accepted
  <2>2. new.outcome = "BROADCAST" /\ new.payment = PaymentOf(x)
    OBVIOUS
  <2>3. \A b \in wire : b.from # x
    BY <2>1, NothingOnWire
  <2> HIDE DEF new
  <2> QED
    BY <1>1, <2>1, <2>2, <2>3, FinishKeeps
<1> QED
  BY <1>2, <1>3 DEF Resolve

LEMMA NetworkErrorStep ==
  ASSUME Inv, NEW x \in Exec, NetworkError(x)
  PROVE  Inv'
<1> DEFINE mine == {b \in wire : b.from = x}
           new == [outcome |-> "NETWORK_ERROR", payment |-> PaymentOf(x)]
<1>1. /\ pc[x] = "broadcasting" /\ UNCHANGED <<now, unspent, paid>>
      /\ Finish(x) /\ results' = results \cup {new}
      /\ \/ wire' = wire \ mine
         \/ wire' = (wire \ mine) \cup {[b EXCEPT !.from = Nobody] : b \in mine}
  BY DEF NetworkError, Report
<1>2. new.outcome = "NETWORK_ERROR" /\ new.payment = PaymentOf(x)
  OBVIOUS
<1>3. ASSUME NEW b \in mine
      PROVE  [b EXCEPT !.from = Nobody] = [from |-> Nobody, payment |-> PaymentOf(x)]
  <2>1. b = [from |-> b.from, payment |-> b.payment] /\ b.payment = PaymentOf(x)
    BY DEF Inv, PaymentsInv, WireOK
  <2> QED
    BY <2>1
<1>4. ASSUME NEW b \in wire'
      PROVE  \/ b \in wire /\ b.from # x
             \/ b = [from |-> Nobody, payment |-> PaymentOf(x)]
  BY <1>1, <1>3
<1> HIDE DEF new, mine
<1> QED
  BY <1>1, <1>2, <1>4, FinishKeeps

(* Time passes, coins arrive, or nothing happens.                          *)
LEMMA EnvironmentStep ==
  ASSUME Inv, now' \in Nat, UNCHANGED <<wire, paid, slots, results>>
  PROVE  Inv'
BY DEF slots, Inv, TypeOK, PaymentsInv, ExecOK, WireOK, Accounted, Reported,
       PaymentOf, Network
-----------------------------------------------------------------------------
LEMMA InitInv ==
  ASSUME Init
  PROVE  Inv
BY DEF Init, Inv, TypeOK, PaymentsInv, ExecOK, Network

LEMMA NextInv ==
  ASSUME Inv, [Next]_vars
  PROVE  Inv'
<1>1. now \in Nat
  BY DEF Inv, TypeOK
<1>2. CASE Tick \/ Arrive
  BY <1>1, <1>2, EnvironmentStep DEF Tick, Arrive
<1>3. CASE UNCHANGED vars
  BY <1>1, <1>3, EnvironmentStep DEF vars
<1>4. ASSUME NEW b \in wire, Deliver(b) PROVE Inv'
  BY <1>4, DeliverStep
<1>5. ASSUME NEW x \in Exec,
             \/ \E i \in Invoice : Execute(x, i)
             \/ Discover(x) \/ Sign(x) \/ Approve(x) \/ Resolve(x) \/ NetworkError(x)
      PROVE  Inv'
  BY <1>5, ExecuteStep, DiscoverStep, SignStep, ApproveStep, ResolveStep,
     NetworkErrorStep
<1> QED
  BY <1>2, <1>3, <1>4, <1>5 DEF Next

LEMMA InvHolds == Spec => []Inv
<1>1. Init => Inv
  BY InitInv
<1>2. Inv /\ [Next]_vars => Inv'
  BY NextInv
<1> QED
  BY <1>1, <1>2, PTL DEF Spec
-----------------------------------------------------------------------------
(* The slots of the executions, the wire and the results keep their types. *)
THEOREM TypeCorrect == Spec => []TypeOK
<1>1. Inv => TypeOK
  BY DEF Inv
<1> QED
  BY <1>1, InvHolds, PTL

(* What enters the network for an invoice pays this invoice, within the    *)
(* policy, and had not expired when its execution read the time.           *)
THEOREM PaymentsWithinPolicy == Spec => []PaidWithinPolicy
<1>1. Inv => PaidWithinPolicy
  BY DEF Inv, PaymentsInv, Allowed, InPolicy, PolicyAllows, Pays, FeeAllowed,
         PaidWithinPolicy
<1> QED
  BY <1>1, InvHolds, PTL

(* What execute reports as broadcast is on the network; and an invoice for *)
(* which nothing runs and nothing was reported has not been paid.          *)
THEOREM ReportsAreTrue == Spec => []ResultsAreTrue
<1>1. Inv => ResultsAreTrue
  BY PaymentFields
     DEF Inv, PaymentsInv, Accounted, Reported, ResultsAreTrue
<1> QED
  BY <1>1, InvHolds, PTL
-----------------------------------------------------------------------------
(* What a built transaction spends and what it leaves to the fee.          *)
Plain(tx) ==
  \A u \in Deposit : u.coin \in Inputs(tx) => ~u.token /\ ~u.coinbase

Rated(tx) ==
  LET n == Len(tx.inputs)
      fee == tx.feeSats IN
  /\ tx.changeSats \in Int
  /\ tx.changeSats = 0 => Fee(n, 1) <= fee /\ fee < Fee(n, 2) + DustSats
  /\ tx.changeSats # 0 => fee = Fee(n, 2) /\ tx.changeSats >= DustSats

(* A UTXO is one that others sent, or is none of theirs: change.           *)
OwnOrDeposit(u) == u \in Deposit \/ \A v \in Deposit : v.coin # u.coin

Funded == {"signing", "approval", "broadcasting"}

CoinsInv ==
  /\ IsFiniteSet(unspent)
  /\ \A u \in unspent : u.sats \in Int /\ OwnOrDeposit(u)
  /\ \A x \in Exec : pc[x] \in Funded => Plain(built[x]) /\ Rated(built[x])
  /\ \A b \in wire : Plain(b.payment.tx) /\ Rated(b.payment.tx)
  /\ \A p \in paid : Plain(p.tx) /\ Rated(p.tx)

(* What buildFundingTx selects is a prefix of the list without token that  *)
(* pays amount and fee: the shortest exists, since some prefix pays.       *)
LEMMA SelectedPrefix ==
  ASSUME NEW S, IsFiniteSet(S), NEW utxos \in SetToSeqs(S), NEW amount,
         Fundable(utxos, amount)
  PROVE  \E count \in Nat :
           /\ DOMAIN Selected(utxos, amount) = 1..count
           /\ \A i \in 1..count : /\ Selected(utxos, amount)[i] \in S
                                  /\ ~Selected(utxos, amount)[i].token
           /\ Suffices(Selected(utxos, amount), amount)
           /\ Len(Selected(utxos, amount)) = count
<1> DEFINE n == Cardinality(S)
           Covers(count) == Suffices(Candidates(utxos, count), amount)
           Enough == {count \in 1..n : Covers(count)}
           Shortest(count) == Covers(count) /\ \A fewer \in 1..(count - 1) : ~Covers(fewer)
           shortest == CHOOSE count \in 1..n : Shortest(count)
<1>1. n \in Nat /\ utxos \in [1..n -> S] /\ DOMAIN utxos = 1..n
  BY FS_CardinalityType DEF SetToSeqs
<1>2. Selected(utxos, amount) = Candidates(utxos, shortest)
  BY <1>1 DEF Selected
<1>3. Enough # {} /\ Enough \subseteq Nat /\ \A i \in 1..n : ~utxos[i].token
  BY <1>1 DEF Fundable, TokenBearing
<1> HIDE DEF n, Covers
<1>4. \E count \in 1..n : Shortest(count)
  <2> PICK m \in Enough : \A k \in Enough : m <= k
    BY <1>3, LeastNumber
  <2>1. m \in 1..n /\ \A fewer \in 1..(m - 1) : fewer \in 1..n /\ ~(m <= fewer)
    BY <1>1
  <2> QED
    BY <2>1
<1> HIDE DEF Shortest
<1>5. shortest \in 1..n /\ Shortest(shortest)
  BY <1>4, Zenon
<1> HIDE DEF shortest
<1>6. shortest \in Nat /\ shortest <= n /\ 1 <= shortest
  BY <1>1, <1>5
<1>7. \A i \in 1..shortest : i \in 1..n /\ utxos[i] \in S
  BY <1>1, <1>6
<1> DEFINE q == SubSeq(utxos, 1, shortest)
<1>8. q \in Seq(S) /\ Len(q) = shortest /\ \A i \in 1..shortest : q[i] = utxos[i]
  <2>1. /\ q \in Seq(S)
        /\ Len(q) = IF 1 <= shortest THEN shortest - 1 + 1 ELSE 0
        /\ \A i \in 1 .. shortest - 1 + 1 : q[i] = utxos[1 + i - 1]
    <3>1. 1 \in Int /\ shortest \in Int /\ \A i \in 1..shortest : utxos[i] \in S
      BY <1>6, <1>7
    <3> QED
      BY <3>1, SubSeqProperties
  <2> HIDE DEF q
  <2> QED
    BY <2>1, <1>6
<1>9. Selected(utxos, amount) = q /\ Suffices(q, amount)
  BY <1>2, <1>5 DEF Candidates, Shortest, Covers
<1> HIDE DEF q
<1>10. DOMAIN q = 1..shortest
  BY <1>8
<1> QED
  BY <1>3, <1>6, <1>7, <1>8, <1>9, <1>10

(* buildFundingTx, from UTXOs none of which is coinbase: neither coinbase  *)
(* nor token is among the inputs, and the fee is that of the size, with    *)
(* less than dust more where there is no change.                           *)
LEMMA BuiltSound ==
  ASSUME CoinsInv, NEW utxos \in SetToSeqs({u \in unspent : Spendable(u)}),
         NEW payTo, NEW amount \in Int, Fundable(utxos, amount)
  PROVE  /\ Plain(BuildFundingTx(utxos, payTo, amount))
         /\ Rated(BuildFundingTx(utxos, payTo, amount))
<1> DEFINE S == {u \in unspent : Spendable(u)}
           q == Selected(utxos, amount)
           tx == BuildFundingTx(utxos, payTo, amount)
           change == ChangeSats(q, amount)
<1>1. IsFiniteSet(S)
  BY FS_Subset DEF CoinsInv
<1> PICK count \in Nat :
      /\ DOMAIN q = 1..count
      /\ \A i \in 1..count : q[i] \in S /\ ~q[i].token
      /\ Suffices(q, amount)
      /\ Len(q) = count
  BY <1>1, SelectedPrefix
<1>2. /\ tx.inputs = [i \in DOMAIN q |-> q[i].coin]
      /\ tx.changeSats = change
      /\ tx.feeSats = InputSats(q) - amount - change
  BY DEF BuildFundingTx
<1>3. Plain(tx)
  <2> SUFFICES ASSUME NEW u \in Deposit, u.coin \in Inputs(tx)
               PROVE  ~u.token /\ ~u.coinbase
    BY DEF Plain
  <2>1. Inputs(tx) = {q[i].coin : i \in 1..count}
    BY <1>2 DEF Inputs, ToSet
  <2> PICK i \in 1..count : u.coin = q[i].coin
    BY <2>1
  <2>2. q[i] \in S /\ ~q[i].token
    OBVIOUS
  <2>3. q[i] \in Deposit
    BY <2>2 DEF CoinsInv, OwnOrDeposit
  <2>4. u = q[i]
    BY <2>3, LivePaymentAssumption
  <2> QED
    BY <2>2, <2>4 DEF Spendable
<1>4. Rated(tx)
  <2> DEFINE total == InputSats(q)
             one == Fee(count, 1)
             two == Fee(count, 2)
  <2>1. total \in Int
    <3>1. \A i \in 1..count : q[i].sats \in Int
      BY DEF CoinsInv
    <3> QED
      BY <3>1, InputSatsType
  <2>2. one \in Int /\ two \in Int
    <3>1. count * InputFee \in Int
      BY FeeAssumption
    <3> HIDE DEF one, two
    <3>2. one = BaseFee + count * InputFee + 1 * OutputFee
      BY Zenon DEF one, Fee
    <3>3. two = BaseFee + count * InputFee + 2 * OutputFee
      BY Zenon DEF two, Fee
    <3> QED
      BY <3>1, <3>2, <3>3, FeeAssumption
  <2>3. /\ change = IF total - amount - two >= DustSats THEN total - amount - two ELSE 0
        /\ change > 0 \/ total >= amount + one
    BY DEF ChangeSats, Leftover, Suffices
  <2>4. DustSats \in Nat \ {0}
    BY FeeAssumption
  <2>5. Len(tx.inputs) = count
    BY <1>2
  <2> HIDE DEF total, one, two, change, tx, q
  <2>6. /\ change \in Int
        /\ change = 0 => one <= total - amount - change /\ total - amount - change < two + DustSats
        /\ change # 0 => total - amount - change = two /\ change >= DustSats
    BY <2>1, <2>2, <2>3, <2>4
  <2> QED
    BY <1>2, <2>5, <2>6 DEF Rated, one, two, total
<1> QED
  BY <1>3, <1>4

(* Steps that build nothing and leave the network alone.                   *)
LEMMA CoinsKept ==
  ASSUME CoinsInv, UNCHANGED <<unspent, paid>>,
         \A x \in Exec : pc'[x] \in Funded => pc[x] \in Funded /\ built'[x] = built[x],
         \A b \in wire' :
           \/ \E d \in wire : b.payment = d.payment
           \/ \E x \in Exec : pc[x] \in Funded /\ b.payment.tx = built[x]
  PROVE  CoinsInv'
<1>1. \A u : OwnOrDeposit(u)' = OwnOrDeposit(u)
  BY DEF OwnOrDeposit
<1>2. \A tx : Plain(tx)' = Plain(tx) /\ Rated(tx)' = Rated(tx)
  BY DEF Plain, Rated, Inputs
<1> QED
  BY <1>1, <1>2 DEF CoinsInv

LEMMA FinishCoins ==
  ASSUME Inv, CoinsInv, NEW x \in Exec, Finish(x), UNCHANGED <<unspent, paid>>,
         \A b \in wire' : \E d \in wire : b.payment = d.payment
  PROVE  CoinsInv'
<1>1. \A y \in Exec : pc'[y] \in Funded => pc[y] \in Funded /\ built'[y] = built[y]
  BY DEF Finish, Funded, Inv, TypeOK
<1> QED
  BY <1>1, CoinsKept

LEMMA DiscoverCoins ==
  ASSUME Inv, CoinsInv, NEW x \in Exec, Discover(x)
  PROVE  CoinsInv'
<1>1. pc[x] = "utxos" /\ UNCHANGED <<unspent, wire, paid>>
  BY DEF Discover
<1>2. CASE Throw(x)
  BY <1>1, <1>2, FinishCoins DEF Throw
<1>3. ASSUME NEW utxos \in SetToSeqs({u \in unspent : Spendable(u)}),
             Fundable(utxos, req[x].amountSats), Await(x, "signing"),
             built' = [built EXCEPT ![x] =
                         BuildFundingTx(utxos, req[x].payTo, req[x].amountSats)]
      PROVE  CoinsInv'
  <2> DEFINE tx == BuildFundingTx(utxos, req[x].payTo, req[x].amountSats)
  <2>1. req[x].amountSats \in Int
    BY <1>1, LivePaymentAssumption DEF Inv, PaymentsInv, ExecOK
  <2>2. Plain(tx) /\ Rated(tx)
    BY <1>3, <2>1, BuiltSound
  <2> HIDE DEF tx
  <2>3. /\ built'[x] = tx
        /\ \A y \in Exec : y # x => pc'[y] = pc[y] /\ built'[y] = built[y]
    BY <1>3 DEF Await, Inv, TypeOK, tx
  <2>4. \A u : OwnOrDeposit(u)' = OwnOrDeposit(u)
    BY DEF OwnOrDeposit
  <2>5. \A t : Plain(t)' = Plain(t) /\ Rated(t)' = Rated(t)
    BY DEF Plain, Rated, Inputs
  <2> QED
    BY <1>1, <2>2, <2>3, <2>4, <2>5 DEF CoinsInv
<1> QED
  BY <1>2, <1>3 DEF Discover

LEMMA ApproveCoins ==
  ASSUME Inv, CoinsInv, NEW x \in Exec, Approve(x)
  PROVE  CoinsInv'
<1>1. pc[x] = "approval" /\ UNCHANGED <<unspent, paid>>
  BY DEF Approve
<1>2. CASE Throw(x) /\ UNCHANGED wire
  BY <1>1, <1>2, FinishCoins DEF Throw
<1>3. CASE /\ wire' = wire \cup {[from |-> x, payment |-> PaymentOf(x)]}
           /\ Await(x, "broadcasting")
           /\ UNCHANGED <<req, clock, built, reply, results>>
  <2>1. \A y \in Exec : pc'[y] \in Funded => pc[y] \in Funded /\ built'[y] = built[y]
    BY <1>1, <1>3 DEF Await, Funded, Inv, TypeOK
  <2>2. \A b \in wire' : b \in wire \/ b.payment.tx = built[x]
    BY <1>3, PaymentFields
  <2> QED
    BY <1>1, <2>1, <2>2, CoinsKept DEF Funded
<1> QED
  BY <1>2, <1>3 DEF Approve

(* The network takes inputs away and gives change back, under an outpoint  *)
(* that none of the deposits has.                                          *)
LEMMA DeliverCoins ==
  ASSUME Inv, CoinsInv, NEW b \in wire, Deliver(b)
  PROVE  CoinsInv'
<1> DEFINE tx == b.payment.tx
<1>1. wire' \subseteq wire /\ UNCHANGED <<pc, built>> /\ Plain(tx) /\ Rated(tx)
  BY DEF Deliver, CoinsInv
<1>2. \A u : OwnOrDeposit(u)' = OwnOrDeposit(u)
  BY DEF OwnOrDeposit
<1>3. \A t : Plain(t)' = Plain(t) /\ Rated(t)' = Rated(t)
  BY DEF Plain, Rated, Inputs
<1>4. CASE UNCHANGED <<paid, unspent>>
  BY <1>1, <1>2, <1>3, <1>4 DEF CoinsInv
<1>5. CASE /\ paid' = paid \cup {b.payment}
           /\ tx.changeSats # 0 => NewCoins # {}
           /\ unspent' = {u \in unspent : u.coin \notin Inputs(tx)} \cup ChangeOf(tx)
  <2> DEFINE kept == {u \in unspent : u.coin \notin Inputs(tx)}
             change == [coin |-> NewCoin, sats |-> tx.changeSats,
                        token |-> FALSE, coinbase |-> FALSE]
  <2>1. IsFiniteSet(kept)
    BY FS_Subset DEF CoinsInv
  <2>2. CASE tx.changeSats = 0
    BY <1>1, <1>2, <1>3, <1>5, <2>1, <2>2 DEF CoinsInv, ChangeOf
  <2>3. CASE tx.changeSats # 0
    <3>1. NewCoin \in NewCoins
      BY <1>5, <2>3, Zenon DEF NewCoin
    <3>2. OwnOrDeposit(change) /\ change.sats \in Int
      BY <1>1, <3>1 DEF NewCoins, OwnOrDeposit, Rated
    <3>3. unspent' = kept \cup {change}
      BY <1>5, <2>3 DEF ChangeOf
    <3> HIDE DEF change
    <3>4. IsFiniteSet(unspent')
      BY <2>1, <3>3, FS_AddElement
    <3> QED
      BY <1>1, <1>2, <1>3, <1>5, <3>2, <3>3, <3>4 DEF CoinsInv
  <2> QED
    BY <2>2, <2>3
<1> QED
  BY <1>4, <1>5 DEF Deliver

LEMMA CoinsStep ==
  ASSUME Inv, CoinsInv, [Next]_vars
  PROVE  CoinsInv'
<1>1. CASE Tick \/ UNCHANGED vars
  BY <1>1, CoinsKept DEF Tick, slots, vars
<1>2. CASE Arrive
  <2> PICK u \in Deposit : unspent' = unspent \cup {u}
    BY <1>2 DEF Arrive
  <2>1. IsFiniteSet(unspent')
    BY FS_AddElement DEF CoinsInv
  <2>2. u.sats \in Int /\ OwnOrDeposit(u)
    BY LivePaymentAssumption DEF Utxo, OwnOrDeposit
  <2>3. \A v : OwnOrDeposit(v)' = OwnOrDeposit(v)
    BY DEF OwnOrDeposit
  <2>4. \A tx : Plain(tx)' = Plain(tx) /\ Rated(tx)' = Rated(tx)
    BY DEF Plain, Rated, Inputs
  <2> QED
    BY <1>2, <2>1, <2>2, <2>3, <2>4 DEF CoinsInv, Arrive, slots
<1>3. ASSUME NEW x \in Exec, NEW i \in Invoice, Execute(x, i) PROVE CoinsInv'
  <2>1. \A y \in Exec : pc'[y] \in Funded => pc[y] \in Funded /\ built'[y] = built[y]
    BY <1>3 DEF Execute, Await, slots, Funded, Inv, TypeOK
  <2> QED
    BY <1>3, <2>1, CoinsKept DEF Execute
<1>4. ASSUME NEW x \in Exec, Sign(x) PROVE CoinsInv'
  <2>1. pc[x] = "signing" /\ UNCHANGED <<unspent, wire, paid>>
    BY <1>4 DEF Sign
  <2>2. CASE Throw(x)
    BY <2>1, <2>2, FinishCoins DEF Throw
  <2>3. CASE Await(x, "approval") /\ UNCHANGED built
    <3>1. \A y \in Exec : pc'[y] \in Funded => pc[y] \in Funded /\ built'[y] = built[y]
      BY <2>1, <2>3 DEF Await, Funded, Inv, TypeOK
    <3> QED
      BY <2>1, <3>1, CoinsKept
  <2> QED
    BY <1>4, <2>2, <2>3 DEF Sign, Return
<1>5. ASSUME NEW x \in Exec, Resolve(x) PROVE CoinsInv'
  BY <1>5, FinishCoins DEF Resolve, Report, Throw
<1>6. ASSUME NEW x \in Exec, NetworkError(x) PROVE CoinsInv'
  <2>1. \A b \in wire : [b EXCEPT !.from = Nobody].payment = b.payment
    <3> SUFFICES ASSUME NEW b \in wire PROVE [b EXCEPT !.from = Nobody].payment = b.payment
      OBVIOUS
    <3>1. b = [from |-> b.from, payment |-> b.payment]
      BY DEF Inv, PaymentsInv, WireOK
    <3> QED
      BY <3>1
  <2>2. \A b \in wire' : \E d \in wire : b.payment = d.payment
    <3> DEFINE mine == {b \in wire : b.from = x}
               late == {[b EXCEPT !.from = Nobody] : b \in mine}
    <3>1. wire' = wire \ mine \/ wire' = (wire \ mine) \cup late
      BY <1>6 DEF NetworkError
    <3>2. \A b \in late : \E d \in wire : b.payment = d.payment
      BY <2>1
    <3> HIDE DEF mine, late
    <3> QED
      BY <3>1, <3>2
  <2> QED
    BY <1>6, <2>2, FinishCoins DEF NetworkError, Report
<1>7. ASSUME NEW b \in wire, Deliver(b) PROVE CoinsInv'
  BY <1>7, DeliverCoins
<1> QED
  BY <1>1, <1>2, <1>3, <1>4, <1>5, <1>6, <1>7, DiscoverCoins, ApproveCoins DEF Next

LEMMA CoinsHold == Spec => []CoinsInv
<1>1. Init => CoinsInv
  BY FS_EmptySet DEF Init, CoinsInv, Funded
<1>2. Inv /\ CoinsInv /\ [Next]_vars => CoinsInv'
  BY CoinsStep
<1> QED
  BY <1>1, <1>2, InvHolds, PTL DEF Spec

(* No token and no coinbase output is ever spent as plain XEC, whatever    *)
(* the UTXOs, their order and the transactions in between.                 *)
THEOREM PlainCoinsOnly == Spec => []OnlyPlainCoinsSpent
<1>1. CoinsInv => OnlyPlainCoinsSpent
  BY DEF CoinsInv, Plain, OnlyPlainCoinsSpent
<1> QED
  BY <1>1, CoinsHold, PTL

(* What is neither payment nor change is the fee of the transaction's size *)
(* and less than dust more, for every number of inputs and every fee rate. *)
THEOREM FeesAreTheRates == Spec => []FeeIsTheRates
<1>1. CoinsInv => FeeIsTheRates
  BY DEF CoinsInv, Rated, FeeIsTheRates
<1> QED
  BY <1>1, CoinsHold, PTL
=============================================================================
