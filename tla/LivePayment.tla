---------------------------- MODULE LivePayment ----------------------------
(***************************************************************************)
(* LivePaymentOrchestrator.execute (x402-xec-payments/src) with the policy,*)
(* OfflinePaymentPreparer, ChronikUtxoProvider and ChronikTxBroadcaster:   *)
(* executions that pay invoices from one wallet, concurrently or one after *)
(* another.  Between two awaits other executions, the network and time     *)
(* move on; a broadcast, its answer, or both may be lost or late.          *)
(***************************************************************************)
EXTENDS FundingTx, FiniteSets, SequencesExt

CONSTANTS
  Exec,            \* slots: a slot runs one execute() at a time
  Coin,            \* outpoints at the payer's address
  Deposit,         \* the UTXOs that others send to the payer
  Invoice,         \* the invoices that callers execute
  AllowedPayTo,    \* policy.allowedPayToAddresses
  maxPaymentSats,  \* policy.maxPaymentSats
  maxFeeSats,      \* policy.maxFeeSats
  Skew,            \* policy.expiresAtSkewSeconds
  MaxTime,         \* bound on the clock
  MaxResults,      \* bound: none starts after so many have ended after a broadcast
  Nobody, NoTx, NoInvoice

Utxo == [coin : Coin, sats : Nat \ {0}, token : BOOLEAN, coinbase : BOOLEAN]

(* An outpoint names one output.  bound: network and scheme are supported, *)
(* and resourceHash is the one of the resource it is executed with.        *)
ASSUME LivePaymentAssumption ==
  /\ Deposit \subseteq Utxo
  /\ \A u, v \in Deposit : u.coin = v.coin => u = v
  /\ \A i \in Invoice : /\ i.amountSats \in Nat \ {0} /\ i.bound \in BOOLEAN
                        /\ i.issuedAt \in Nat /\ i.expiresAt \in Nat
  /\ maxPaymentSats \in Nat /\ maxFeeSats \in Nat
  /\ Skew \in Nat /\ MaxTime \in Nat /\ MaxResults \in Nat
  /\ Nobody \notin Exec

VARIABLES
  now,        \* the clock
  unspent,    \* the UTXOs at the payer's address, mempool included
  wire,       \* broadcasts on their way: [from, payment]
  paid,       \* the payments whose broadcast the network accepted
  pc,         \* pc[x]: the await of execution x
  req,        \* req[x]: its invoice
  clock,      \* clock[x]: the `now` of execution x
  built,      \* built[x]: its transaction
  reply,      \* reply[x]: what Chronik answered to its broadcast
  results     \* executions that ended after a broadcast: [outcome, payment]

slots == <<pc, req, clock, built, reply>>
vars == <<now, unspent, wire, paid, slots, results>>
-----------------------------------------------------------------------------
(* Transactions and payments, [invoice, tx, clock], are what BuildFundingTx *)
(* and PaymentOf make them.                                                *)
TypeOK ==
  /\ now \in Nat
  /\ pc \in [Exec -> {"idle", "utxos", "signing", "approval", "broadcasting"}]
  /\ req \in [Exec -> Invoice \cup {NoInvoice}]
  /\ clock \in [Exec -> Nat]
  /\ DOMAIN built = Exec
  /\ reply \in [Exec -> {"none", "ok", "rejected"}]
  /\ \A b \in wire : b.from \in Exec \cup {Nobody} /\ b.payment.invoice \in Invoice
  /\ \A r \in results : r.outcome \in {"BROADCAST", "NETWORK_ERROR"}

Init ==
  /\ now = 0
  /\ unspent = {}
  /\ wire = {} /\ paid = {} /\ results = {}
  /\ pc = [x \in Exec |-> "idle"]
  /\ req = [x \in Exec |-> NoInvoice]
  /\ clock = [x \in Exec |-> 0]
  /\ built = [x \in Exec |-> NoTx]
  /\ reply = [x \in Exec |-> "none"]

Inputs(tx) == ToSet(tx.inputs)
Network == {p.tx : p \in paid}
Known == {u.coin : u \in unspent} \cup UNION {Inputs(tx) : tx \in Network}

Tick ==
  /\ now < MaxTime
  /\ now' = now + 1
  /\ UNCHANGED <<unspent, wire, paid, slots, results>>

(* Somebody pays the payer.                                                *)
Arrive ==
  /\ \E u \in Deposit : u.coin \notin Known /\ unspent' = unspent \cup {u}
  /\ UNCHANGED <<now, wire, paid, slots, results>>
-----------------------------------------------------------------------------
(* execute returns or throws.                                              *)
Finish(x) ==
  /\ pc' = [pc EXCEPT ![x] = "idle"]
  /\ req' = [req EXCEPT ![x] = NoInvoice]
  /\ clock' = [clock EXCEPT ![x] = 0]
  /\ built' = [built EXCEPT ![x] = NoTx]
  /\ reply' = [reply EXCEPT ![x] = "none"]

Throw(x) == Finish(x) /\ UNCHANGED results
Return(x) == Throw(x)

PaymentOf(x) == [invoice |-> req[x], tx |-> built[x], clock |-> clock[x]]

Report(x, o) ==
  Finish(x) /\ results' = results \cup {[outcome |-> o, payment |-> PaymentOf(x)]}

Await(x, where) == pc' = [pc EXCEPT ![x] = where]

(* evaluatePaymentPolicy of the initial plan, and the checks of prepare    *)
(* with the same time.                                                     *)
PolicyAllows(i, time) ==
  /\ i.amountSats <= maxPaymentSats
  /\ i.bound
  /\ i.payTo \in AllowedPayTo
  /\ time + Skew < i.expiresAt

ValidInvoice(i, time) == i.bound /\ i.issuedAt <= time /\ time < i.expiresAt

(* execute up to the await of getUtxos.                                    *)
Execute(x, i) ==
  /\ pc[x] = "idle"
  /\ \/ /\ PolicyAllows(i, now) /\ ValidInvoice(i, now)
        /\ Cardinality(results) < MaxResults
        /\ Await(x, "utxos")
        /\ req' = [req EXCEPT ![x] = i]
        /\ clock' = [clock EXCEPT ![x] = now]
        /\ UNCHANGED <<built, reply, results>>
     \/ /\ ~(PolicyAllows(i, now) /\ ValidInvoice(i, now))
        /\ UNCHANGED <<slots, results>>
  /\ UNCHANGED <<now, unspent, wire, paid>>

AllCoins(u) == TRUE  \* variant: immature coinbase outputs are kept

Spendable(u) == ~u.coinbase

(* Chronik has answered with the UTXOs of the address in some order, or    *)
(* failed; the builder throws or returns; the await is the signature's.    *)
Discover(x) ==
  /\ pc[x] = "utxos"
  /\ \/ Throw(x)
     \/ \E utxos \in SetToSeqs({u \in unspent : Spendable(u)}) :
          IF Fundable(utxos, req[x].amountSats)
          THEN /\ Await(x, "signing")
               /\ built' = [built EXCEPT ![x] =
                    BuildFundingTx(utxos, req[x].payTo, req[x].amountSats)]
               /\ UNCHANGED <<req, clock, reply, results>>
          ELSE Throw(x)
  /\ UNCHANGED <<now, unspent, wire, paid>>

AnyFee(tx) == TRUE  \* variant: the policy is not evaluated again with the fee

FeeAllowed(tx) == tx.feeSats <= maxFeeSats

(* The wallet has signed (or thrown); the policy is evaluated with the fee.*)
(* In dry-run mode this is the end.                                        *)
Sign(x) ==
  /\ pc[x] = "signing"
  /\ \/ Throw(x)
     \/ ~FeeAllowed(built[x]) /\ Throw(x)
     \/ FeeAllowed(built[x]) /\ Return(x)
     \/ /\ FeeAllowed(built[x])
        /\ Await(x, "approval")
        /\ UNCHANGED <<req, clock, built, reply, results>>
  /\ UNCHANGED <<now, unspent, wire, paid>>

(* approvePayment has answered; an approved transaction goes to Chronik.   *)
Approve(x) ==
  /\ pc[x] = "approval"
  /\ \/ Throw(x) /\ UNCHANGED wire
     \/ /\ wire' = wire \cup {[from |-> x, payment |-> PaymentOf(x)]}
        /\ Await(x, "broadcasting")
        /\ UNCHANGED <<req, clock, built, reply, results>>
  /\ UNCHANGED <<now, unspent, paid>>
-----------------------------------------------------------------------------
(* The change of an accepted transaction comes back as a new UTXO: its     *)
(* outpoint is of this transaction, so nobody had it before.               *)
NewCoins == {k \in Coin : k \notin Known /\ \A u \in Deposit : u.coin # k}

NewCoin == CHOOSE k \in NewCoins : TRUE

ChangeOf(tx) ==
  IF tx.changeSats = 0 THEN {}
  ELSE {[coin |-> NewCoin, sats |-> tx.changeSats,
         token |-> FALSE, coinbase |-> FALSE]}

(* A broadcast reaches the network, which accepts it, refuses it (double   *)
(* spends always, others as its mempool likes), or knows it already.       *)
(* Bound: the outpoints of Coin last.                                      *)
Deliver(b) ==
  LET tx == b.payment.tx IN
  /\ b \in wire
  /\ wire' = wire \ {b}
  /\ \E verdict \in {"ok", "rejected"} :
       /\ \/ /\ verdict = "ok" /\ tx \notin Network
             /\ Inputs(tx) \subseteq {u.coin : u \in unspent}
             /\ tx.changeSats # 0 => NewCoins # {}
             /\ paid' = paid \cup {b.payment}
             /\ unspent' = {u \in unspent : u.coin \notin Inputs(tx)} \cup ChangeOf(tx)
          \/ /\ verdict = "rejected" \/ tx \in Network
             /\ UNCHANGED <<paid, unspent>>
       /\ reply' = [x \in Exec |-> IF x = b.from THEN verdict ELSE reply[x]]
  /\ UNCHANGED <<now, pc, req, clock, built, results>>

NothingSent(x) == reply[x] = "none"  \* variant: a lost answer counts as a rejection

Rejection(x) == reply[x] = "rejected"

Accepted(x) == reply[x] = "ok"

(* broadcastTx resolves, or classifies the error.                          *)
Resolve(x) ==
  /\ pc[x] = "broadcasting"
  /\ \/ Accepted(x) /\ Report(x, "BROADCAST")
     \/ Rejection(x) /\ Throw(x)
  /\ UNCHANGED <<now, unspent, wire, paid>>

(* The connection fails: the request was lost, or is late, or the answer   *)
(* was lost.                                                               *)
NetworkError(x) ==
  LET mine == {b \in wire : b.from = x} IN
  /\ pc[x] = "broadcasting"
  /\ \/ wire' = wire \ mine
     \/ wire' = (wire \ mine) \cup {[b EXCEPT !.from = Nobody] : b \in mine}
  /\ Report(x, "NETWORK_ERROR")
  /\ UNCHANGED <<now, unspent, paid>>

Next ==
  \/ Tick
  \/ Arrive
  \/ \E b \in wire : Deliver(b)
  \/ \E x \in Exec :
       \/ \E i \in Invoice : Execute(x, i)
       \/ Discover(x) \/ Sign(x) \/ Approve(x) \/ Resolve(x) \/ NetworkError(x)

Spec == Init /\ [][Next]_vars
-----------------------------------------------------------------------------
(* What enters the network for an invoice pays what the invoice asks to    *)
(* whom it asks, with amount, destination and fee within the policy; and   *)
(* the invoice had not expired at the one time its execution read.         *)
PaidWithinPolicy ==
  \A p \in paid :
    /\ p.tx.payTo = p.invoice.payTo /\ p.tx.payTo \in AllowedPayTo
    /\ p.tx.amountSats = p.invoice.amountSats /\ p.tx.amountSats <= maxPaymentSats
    /\ p.tx.feeSats <= maxFeeSats
    /\ p.invoice.issuedAt <= p.clock /\ p.clock + Skew < p.invoice.expiresAt

(* No token and no coinbase output is spent as plain XEC, whenever it      *)
(* arrives among the UTXOs and wherever it stands in their list.           *)
OnlyPlainCoinsSpent ==
  \A p \in paid, u \in Deposit :
    u.coin \in Inputs(p.tx) => ~u.token /\ ~u.coinbase

(* What is neither payment nor change is the fee of the size, and less     *)
(* than dust more; there is no change output below dust.                   *)
FeeIsTheRates ==
  \A p \in paid :
    LET n == Len(p.tx.inputs)
        fee == p.tx.feeSats IN
    /\ p.tx.changeSats = 0 => Fee(n, 1) <= fee /\ fee < Fee(n, 2) + DustSats
    /\ p.tx.changeSats # 0 => fee = Fee(n, 2) /\ p.tx.changeSats >= DustSats

(* A result can be relied upon.  What is reported as broadcast is on the   *)
(* network.  And when no execution for an invoice runs, and none ended     *)
(* broadcast or with a network error, nothing was paid for it: it may be   *)
(* executed again without paying twice.                                    *)
ResultsAreTrue ==
  /\ \A r \in results : r.outcome = "BROADCAST" => r.payment.tx \in Network
  /\ \A p \in paid : \/ \E x \in Exec : req[x] = p.invoice
                     \/ \E r \in results : r.payment.invoice = p.invoice
=============================================================================
