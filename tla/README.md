# x402-XEC in TLA+

Specifications, model-checking configurations and machine-checked proofs for
x402-XEC: HTTP resources paid for with eCash (XEC).  A server answers an unpaid
request with `402` and an invoice; the client pays on chain (or from a prepaid
output) and repeats the request with a proof; the server verifies the proof
against its own records and its own Chronik node and unlocks the resource.

Paths below are relative to `packages/`.

## The system

| Component | State | Operations | Interacts with |
|---|---|---|---|
| Invoice store contract `x402-xec-core/src/invoice-store.ts:63-122` | issued invoices, settlements | `issue`, `issueWithAllocation`, `commitPaid`, getters | implemented twice |
| SQLite store `sqlite-invoice-store.ts` | table `invoices`, write lock | the same, each one transaction | processes share the file |
| In-memory store `invoice-store.ts:141-361` | five maps, index counter | the same, under a promise lock | development only |
| Settlement gateway `x402-xec-express/src/settlement-middleware.ts`, `x402-xec-core/src/settlement-verifier.ts` | per request: invoice read, time read | offer, verify, commit | awaits store, Chronik, store |
| Facilitator `x402-xec-facilitator/src/facilitator.ts`, `ledger.ts` | accounts, entries, idempotency records, nonces, promise tail | `verify` / `transact` / `debit` | awaits signature verifier, Chronik |
| Agent bridge `x402-xec-agent-bridge/src/bridge.ts`, `replay-cache.ts` | reservations, authorizations | `authorizePayment` | awaits policy evaluator, wallet |
| Resource binding `x402-xec-core/src/resource.ts` | none | `canonicalQuery`, `computeResourceHash` | every hash of a request |
| Prepaid middleware `x402-xec-express/src/middleware.ts` | per request: envelope | offer, check, ask the facilitator, serve | HTTP call to the facilitator |
| Axios interceptor `x402-xec-axios/src/interceptor.ts` | payment header in the request's configuration | answer a 402 once | signer, server |
| Payment client `x402-xec-payments/src` | per execution: time read, transaction | `LivePaymentOrchestrator.execute` | awaits Chronik (coins), wallet, approval, Chronik (broadcast) |
| Transaction builder `x402-xec-transactions/src/index.ts` | none | `buildFundingTx` | called by the payment client |

What is hard about it: every handler is asynchronous and interleaves with
others at its awaits; several server processes share one database; Chronik's
answer changes with finality, reorganisation and eviction; time passes at every
await while each handler reads the clock once or twice; answers are lost and
clients retry; a process may die between any two statements; a database may be
restored and hand out addresses a second time.  `PROJECT.json` lists these
hazards with the line where each bites and the property that watches it.

What makes each component correct:

* store: one invoice per nonce, address and index; one transaction per invoice
  and one invoice per transaction; what a caller was told stays true; indexes
  without holes (a wallet finds all payments by scanning from 0); the write
  lock always comes back;
* gateway: who is unlocked has paid this invoice, for this resource, in time;
  one payment unlocks one invoice even after the database was lost; a retry of
  what was settled is never denied;
* facilitator: no credit is spent twice and none is lost, each answer
  `VERIFIED` has its debit, a failed request leaves nothing behind;
* prepaid payment: what is served was debited, for this resource; a call is
  debited once however often it is repeated; a repetition gets what was paid
  for; a call always ends;
* payment client: what enters the network pays the invoice, within the policy
  and from plain coins; what `execute` reports can be relied upon;
* bridge: an invoice is approved once and in time, a reservation belongs to
  exactly the calls under way;
* resource binding: two requests share an invoice exactly if a handler cannot
  tell them apart.

## Modules

| Module | Models | State and actions |
|---|---|---|
| `SettlementAuthority` | the store contract, abstractly | `issued`, `settlement`; `Issue`, `Settle` |
| `SqliteInvoiceStore` | the SQLite store | `rows` is the committed table, `writer` the holder of the write lock, `pc`/`req`/`index`/`draft`/`code` a call in progress. One action per statement: `ReadIndex` (the read of `issue` before its transaction), `Begin`, `Busy`, the body (`Issue`, `IssueWithAllocation`, `CommitPaid`), `Commit`, `Fail` (catch, `ROLLBACK`, rethrow), `Return`, and `Crash` of a process |
| `SqliteInvoiceStoreProofs` | - | theorems and proofs about it |
| `InMemoryInvoiceStore` | the in-memory store | the five maps and the counter; `IssueStatic`, `IssueIndexed`, `IssueWithAllocation` (which burns its index when it throws), `CommitPaid` |
| `InMemoryInvoiceStoreProofs` | - | theorems and proofs about it |
| `ChronikView` | the chain as the code reads it (external) | `chain[t]`: where the transaction is, `isFinal`, `timeFirstSeen`, `block.timestamp`; `Broadcast`, `Finalize`, `Mine`, `Reorg`, `Evict`, `Tick` |
| `SettlementGateway` | middleware and verifier over an atomic store and `ChronikView` | one action between two awaits: `ArriveWith(out)Proof`, `Offer`, `Lookup`, `Check`, `Query`, `Commit`; `StoreFails`, `Abort`, `LoseStore` |
| `SettlementGatewayProofs` | - | theorems and proofs about it |
| `PrepaidLedger` | what the facilitator promises, abstractly | `debits`, `credit`; `Debit` |
| `Facilitator` | `verify` over the ledger | `Receive`, `Start` (idempotency, clock), `Consume` (signature answered, nonce), `Inspect` (funding answered, debit), `Return` |
| `FacilitatorProofs` | - | theorems and proofs about it |
| `PrepaidPayment` | interceptor, prepaid middleware and ledger over a network | calls: `Request`, `Repeat`, `GiveUp`, `Intercept`, `Pay`; handlers: `Handle` (to the facilitator), `Conclude`, `Unavailable` (502); the facilitator: `Facilitate`, `FacilitateLate` |
| `PrepaidPaymentProofs` | - | theorems and proofs about it |
| `FundingTx` | `buildFundingTx` | operators: `Selected` (the shortest prefix that suffices), `ChangeSats`, `BuildFundingTx` |
| `LivePayment` | `LivePaymentOrchestrator.execute` with policy, preparer, UTXO provider and broadcaster | one action between two awaits: `Execute`, `Discover`, `Sign`, `Approve`, `Resolve` or `NetworkError`; the network: `Arrive`, `Deliver` |
| `LivePaymentProofs` | - | theorems and proofs about it |
| `AgentBridge` | `authorizePayment` and the replay cache | `Authorize` (to the evaluator), `PolicyAnswers` (to the wallet), `WalletAnswers` (to the end), `Return` |
| `AgentBridgeProofs` | - | theorems and proofs about it |
| `ResourceBinding` | `canonicalQuery` | a query being rewritten: `Add`, `Drop`, `Move` |
| `ResourceBindingProofs` | - | theorems and proofs about it |
| `JsMap` | `Map` of JavaScript | - |

`MC*` modules give the constants of a run.  Operators marked "variant" are the
mutated forms of a definition with which a property is known to fail; nothing
else refers to them.

Composition: `SettlementGateway` extends `ChronikView` and takes the store as
atomic.  That is what `SqliteInvoiceStore` and `InMemoryInvoiceStore` justify:
each implements `SettlementAuthority` (`ImplementsAuthority`), under the
mapping `issued` = hashes of the rows, `settlement` = pairs of hash and
settling transaction of the paid rows; and `StoreIsAuthority` shows that the
gateway asks no more of its store than this contract, until the database is
lost.  `PrepaidPayment` takes the ledger as
atomic (it instantiates `PrepaidLedger`), which `Facilitator` justifies:
`ImplementsLedger` maps `debits` to the key and claim of the entries and
`credit` to the remaining balance of the accounts.  `LivePayment` extends
`FundingTx`.

Abstractions.  An invoice hash is the pair of nonce and address
(`SqliteInvoiceStore`), or a value of its own, drawn once
(`SettlementGateway`): SHA-256 and the 24 random bytes of a nonce are taken as
free of collisions.  `state` and `settled_txid` are one field, since every
statement that writes one writes the other.  `deriveAddress` is an injective
function up to its limit.  All answers that concern a malformed request or
malformed Chronik data and change nothing are one outcome or none.  The
tolerance, the validity and the index limit are constants, a few units instead
of 10 s, 60 s and 2^31.

## Runs

| Run | Instance | What it shows |
|---|---|---|
| `SqliteStore` | two processes with one call slot each, two nonces, two transactions, two xpub children and a static address, fair | `UniqueRows`, `ContiguousIndexes`, `NextAddressIsFree`, `AnswersHold`, `RowsAreDurable`, `LockReleased`, refinement of the authority |
| `Gateway` | two requests, two resources, two invoices with one static address, two transactions | `UnlockIsPaid`, `PaidOnce`, `SettlesOneInvoice` |
| `GatewayRecovery` | one transaction, one loss of the database, clock skew 1, a reorganisation, four time steps | `SettlesOneInvoice`, `SettledInWindow`, `RetryNeverDenied` |
| `InMemory` | three nonces, two xpub children and a static address, two transactions | maps, counter, refinement of the authority |
| `Facilitator` | two calls, two keys, claims that share nonce, outpoint or both, fair | `CreditConserved`, `VerifiedIsDebited`, `NonceSpentByDebit`, `EveryRequestAnswered`, refinement of the ledger |
| `PrepaidPayment` | two calls, two handlers, two resources, a wallet whose output does not always suffice, one repetition, fair | `ServedIsDebited`, `OneDebitPerCall`, `RetryAccepted`, `CallEnds` |
| `LivePayment` | two executions, two payable invoices and two against policy, four coins (one leaves dust, one leaves change, a token, a coinbase output) | `PaidWithinPolicy`, `OnlyPlainCoinsSpent`, `FeeIsTheRates`, `ResultsAreTrue` |
| `AgentBridge` | two calls, four invoices of which two share a nonce, fair | approvals, reservations, `ReservationReleased` |
| `Resource` | queries of up to five pairs over two keys and two values | `BindsWhatIsRead`, `CanonicalOnce` |
| `InMemoryPayTo` | - | violated: a conflicting `payTo` throws (`invoice-store.ts:72`) |
| `AgentBridgeLimit` | - | violated: the limit is daily (`bridge.ts:128`) |
| `ResourceDoc` | - | violated: pairs are sorted by value too (`docs/core-security-model.md:21`) |

The last three are disagreements between the code and what a comment, a
message or a document says; `PROJECT.json` quotes both sides.

Why the bounds are enough.  The properties of the stores relate two rows and
two calls; two processes with one transaction each are the smallest instance
with a race, and the theorems below carry the result to every size.  The
gateway's properties relate two unlocks: two requests, two invoices and two
transactions are what one race needs (the theorems below again cover every
size), and a slot serves request after request, so that retries and later
clients are histories of the same slot.  Time needs one step inside and one
past the validity.  A static address is the harder case for a race, since every
transaction then pays every invoice; allocated addresses are what the recovery
run has.  The recovery run spends its bound
on time (four steps) and therefore has one transaction; two invoices it could
settle, one before and one after the loss, is the shape of the hazard.  The
facilitator's and the bridge's properties relate two calls over one nonce or
outpoint, with one step before, at and after expiry.  In `PrepaidPayment` two
handlers are what it takes to have a repeated call verified while the first is
still under way, and one repetition is enough for that, for a lost answer and
for another key or resource; time needs the step at which an offer expires.  In
`LivePayment` two executions are the smallest race for a coin; a slot runs one
execution after another, so that a third may follow (`MaxResults`); the coins
cover both sides of every threshold of `buildFundingTx` (does not pay its fee,
rest below dust, rest at or above dust, fee above the policy).

Where TLC stops a history: clocks end at `MaxTime`, repetitions at
`MaxRepeats`, new executions when `MaxResults` have ended after a broadcast;
nonces, invoices and index limits are finite; a transaction with change is
delivered while `Coin` has an outpoint that exists nowhere yet (`NewCoins`), of
which the run has enough.  Deadlock is checked except in
`InMemory`, `InMemoryPayTo` and `PrepaidPayment`: a sequence of calls ends when
all nonces are used, or when every call has ended and nothing more is repeated.
The runs that check liveness use no symmetry.

## Fairness

* `SqliteInvoiceStore!FairSpec`: weak fairness of each call's own steps.  The
  event loop runs a call it has started, and a `DatabaseSync` transaction is
  synchronous.  No fairness for `Invoke`, `Fail` and `Crash`.
* `Facilitator!FairSpec`: weak fairness of `Start`, `Consume`, `Inspect`,
  `Return` of each call.  `Consume` and `Inspect` stand for the answer *or
  failure* of the signature verifier and of Chronik; the code limits neither,
  so that one that never answers does block the ledger for ever.
* `PrepaidPayment!FairSpec`: weak fairness of each call's `Intercept` and `Pay`
  (the event loop of the client; a signer that returns or throws) and of each
  handler's own steps.  `fetch` ends: with an answer, or by the time limit of
  its HTTP client, which is `Unavailable`.  No fairness for the network: a
  request may be lost, a late verification may never arrive, an application
  need not repeat anything.
* `AgentBridge!FairSpec`: likewise for the evaluator and the wallet.

## What the gateway's guarantees rest on

TLC found a counterexample for each of these when it was left out.

* A database is lost for longer than tolerance plus clock skew
  (`RecoveryAssumption`): within that time a payment of an old invoice is
  taken for one of the new invoice with the same address.
* At that time no settling transaction is in a reorganisation, and its time
  is known: a transaction that is mined again gets a new block time, and the
  fence compares with that when `timeFirstSeen` is 0.
* Avalanche finality is not taken back, and the time of a block is the time it
  was mined at.
* The database is lost as a whole.  A partial backup that keeps unpaid rows
  together with a transaction of several fitting outputs is not covered.
* `INVOICE_NOT_YET_VALID` does not count as a denial of a retry: a server whose
  clock is behind the one that issued the invoice may answer it, and the next
  retry passes.

Limits of the code that no property claims away: a payment that becomes final
only after expiry is refused for good; a retry waits for Chronik although the
store already knows the answer; the facilitator's ledger and the bridge's
replay cache forget everything at a restart; with a clock that goes back their
pruned nonces become usable again; claims that share a nonce are taken to
share their expiry (`NonceAssumption`), as the nonce belongs to one invoice.

Limits on the client's side.  `execute` reads the time once: a payment that is
approved late is broadcast after the invoice expired (`PaidWithinPolicy` holds
the expiry against that one reading).  No coin is reserved: of two executions
that select the same coins one is refused by the network.  Two invoices with
the same address and amount, paid from the same coins, even give the same
transaction, and both executions may report it as broadcast (`ResultsAreTrue` says
that it is on the network, not that it is there twice).  After a network error
the payment may or may not have been made, and only a rejection means that it
was not.  The interceptor throws away the result of an orchestrator that did
broadcast; in `PrepaidPayment` that is the throwing branch of `Pay`.

## Proofs

`SqliteInvoiceStoreProofs` proves, with TLAPS and for every value of the
constants under `StoreAssumption`:

| Theorem | States |
|---|---|
| `TypeCorrect` | `Spec => []TypeOK` |
| `RowsStayUnique` | `Spec => []UniqueRows` |
| `IndexesStayContiguous` | `Spec => []ContiguousIndexes` |
| `NextAddressStaysFree` | `Spec => []NextAddressIsFree` |
| `RowsStay` | `Spec => RowsAreDurable` |
| `AnswersStayTrue` | `Spec => []AnswersHold` |
| `RefinesAuthority` | `Spec => ImplementsAuthority` |

The argument.  None of the safety properties is inductive: what a transaction
checked must still hold when it commits.  The inductive invariant therefore
says of every call inside a transaction that it holds the write lock (so that
`rows` does not change under it), that the row it wrote fits the table as it is
(no clash, the next index without a gap, an unpaid original for an update) and
that some `n` exists such that the table holds exactly the indexes below `n`
and no call works with an index above it (`IndexInv`; that covers the index
`issue` read before its transaction).  With that, `Commit` preserves
uniqueness, contiguity and durability, and maps to one `Issue` or `Settle`
step of the authority; every other action maps to a stuttering step.  The lemma
`NextIndexIsLength` says that `MAX + 1` over such a table is `n`.
`NextAddressIsFree` needs to know where addresses come from: `SourceInv` says
that every row, committed or being written, has a static address or the one
derived from its own index, so that the address at an index nobody has is
nobody's.

The assumption is used where it is needed: `Home` is total, `NoTxid`, `NoCall`
and `NoIndex` are no ordinary values, `Derive` has addresses as values.

`SettlementGatewayProofs` proves, under `GatewayAssumption`,
`RecoveryAssumption` and `ChronikAssumption`, for any number of request slots,
invoices, resources, transactions and losses of the store:

| Theorem | States |
|---|---|
| `TypeCorrect` | `Spec => []TypeOK` |
| `UnlocksOneInvoice` | `Spec => []SettlesOneInvoice` |
| `UnlockedOnce` | `Spec => []PaidOnce` |
| `UnlocksArePaid` | `Spec => []UnlockIsPaid` |
| `SettlementsInWindow` | `Spec => []SettledInWindow` |
| `RetriesSucceed` | `Spec => []RetryNeverDenied` |
| `StoreIsAuthority` | every step is one of `SettlementAuthority`, a stutter or `LoseStore`, with the hashes of `rows` as `issued` and their `paidBy` as `settlement` |

The argument.  A request acts on a row it read and a clock it read, awaits ago.
`CallInv` therefore says, for each place a request may stand at, what it has
established so far and that it still holds: the row it read is still in the
store and has at most become paid since (`Linked`); from the row checks on, the
time it read is inside the window if the row was unpaid (`CheckedOK`); after
Chronik's answer, the transaction pays the invoice and has unlocked nothing in
an older store (`EvidenceOK`).  `CallKept` shows that no step of another request
or of the chain disturbs any of this.  `PaidInv` keeps for each paid row what
its retries need: the transaction pays it, and its evidence, whenever there is
any, is recent enough.

The losses of the store are the reason for `FenceInv`.  A payment that unlocked
an invoice of an older store is *anchored*: it was seen before it was mined and
is final, or its block is deeper than any reorganisation, so that its time can
no longer change (`ChronikStep`).  That time lies before the issue of every
invoice of the present store by more than the tolerance, and before the present
by the clock skew besides, so that the next invoice will be fenced as well.
`LoseStoreInv` is where both halves of `RecoveryAssumption` are used, the second
one for payments known from a block alone.  The query then takes each such
payment for historical, so that the transaction about to settle an invoice is
never one of them.

`FacilitatorProofs` proves, under `FacilitatorAssumption` and
`NonceAssumption`, for any number of concurrent requests, keys, nonces, payers,
outputs and claims:

| Theorem | States |
|---|---|
| `TypeCorrect` | `Spec => []TypeOK` |
| `VerifiedStaysDebited` | `Spec => []VerifiedIsDebited` |
| `NoncesSpentByDebits` | `Spec => []NonceSpentByDebit` |
| `CreditStaysConserved` | `Spec => []CreditConserved` |
| `NeverOverdrawn` | the debits of an output add up to no more than its value, always |
| `DebitedOnce` | `Spec => []OneEntry`: no two entries share a nonce or a key |
| `RefinesLedger` | `Spec => ImplementsLedger` |

The argument.  A debit is made two awaits after its request was checked.
`QueueInv` says that the promise tail has every waiting request once and that
the one at work is its head, so that nobody else touches the ledger meanwhile;
`RequestInv` says that the checks it has passed (key unused, invoice not expired
at the time it read, nonce unused) therefore still hold.  The nonce store is
pruned, so it is no record of what was debited.  `NonceInv` bridges that: a
debited nonce is either still in the store, or its invoice had expired by the
time *every* request at work read its clock.  A request about to debit holds an
invoice that was valid at that time, and a nonce determines the expiry
(`NonceAssumption`), so its nonce was never debited (`NonceIsNew`).  With
`KeyInv` and `PayerInv`, which tie the entries to the other maps, `DebitMaps`
shows that a debit is a step of `PrepaidLedger`; every other step stutters.
`DebitedInv` adds that the debits of an output without an account sum up to 0,
which makes `CreditConserved` inductive: an entry more adds its amount to the
sum of its own output (`SpentAppended`) and to no other.

`PrepaidPaymentProofs` proves, under `PrepaidPaymentAssumption`, for any number
of calls, handlers, resources, keys and repetitions:

| Theorem | States |
|---|---|
| `TypeCorrect` | `Spec => []TypeOK` |
| `ServedStaysDebited` | `Spec => []ServedIsDebited` |
| `CallsDebitedOnce` | `Spec => []OneDebitPerCall` |
| `RetriesAccepted` | `Spec => RetryAccepted` |

The argument.  A payment header leaves its call and lives on in handlers, in
verifications whose handler has given up, and in the ledger, in any order and
number.  `PaymentOfCall` says of each of these that it still is the header of a
call, and it is stable because `CallInv` gives a call without a payment no
header to lose and the interceptor never replaces one.  `HandlerInv` keeps what
`validateEnvelope` found (resource, price) and ties a VERIFIED to a debit.  A
retry is found again because of `Genuine`: every key is the application's or the
digest of the very claim, so that a debit under a digest is the retry's own.

`AgentBridgeProofs` proves, under `BridgeAssumption`, for any number of
concurrent calls, invoices and nonces:

| Theorem | States |
|---|---|
| `TypeCorrect` | `Spec => []TypeOK` |
| `ApprovedOnlyOnce` | `Spec => []ApprovedOnce` |
| `ReservationsHeld` | `Spec => []ReservationsAreHeld` |
| `ApprovalsInTime` | `Spec => []ApprovedInTime` |
| `NoncesStaySpent` | `Spec => []NonceStaysSpent` |

The argument.  The cache is pruned at every reservation and its nonce index
holds one expiry only, so neither map is a record of the approvals.  `MemoryInv`
says what they still know: every approved invoice that has not expired is in
both, under its own expiry.  `ReservedIsFresh` concludes that a call that
reserves finds its invoice unapproved and its nonce unused by anything still
valid; `ReservationsAreHeld` keeps that true until it commits, since no other
call under way can have its nonce.

`InMemoryInvoiceStoreProofs` proves, under `InMemoryAssumption`:

| Theorem | States |
|---|---|
| `TypeCorrect` | `Spec => []TypeOK` |
| `MapsStayInAgreement` | `Spec => []MapsAgree` |
| `NextIndexStaysFresh` | `Spec => []NextIndexIsFresh` |
| `AllocatedAddressesStayDifferent` | `Spec => []AllocatedAddressesDiffer` |
| `RefinesAuthority` | `Spec => ImplementsAuthority` |

The argument.  The four invariants are inductive only together: an operation
looks into one map and relies on its agreement with the records
(`StoreKeeps`), and a settlement is unique because the map of transactions
knows every one of them (`CommitPaidSettles`).  Both stores are thus proved to
implement the same authority.

`LivePaymentProofs` proves, under `LivePaymentAssumption`, for any number of
executions and invoices:

| Theorem | States |
|---|---|
| `TypeCorrect` | `Spec => []TypeOK` |
| `PaymentsWithinPolicy` | `Spec => []PaidWithinPolicy` |
| `ReportsAreTrue` | `Spec => []ResultsAreTrue` |
| `PlainCoinsOnly` | `Spec => []OnlyPlainCoinsSpent` |
| `FeesAreTheRates` | `Spec => []FeeIsTheRates` |

The argument.  That the transaction pays the invoice is in the way it is put
together, whatever coins are selected (`BuiltPays`).
`WireOK` says that a broadcast on its way is the only one of its execution,
which has no answer yet, or belongs to an execution that ended with a network
error; `Accounted` says that a payment the network accepted belongs to an
execution that was told so, or is among the results.  Hence a rejection, also
the late one of a transaction the network knows already, hides no payment.

`CoinsInv` follows the coins: an unspent output is deposited or the change of
an accepted payment, whose outpoint no deposit has, and what is selected is a
prefix of what was discovered as spendable (`SelectedPrefix`), so that no coin
spent is a token or a coinbase output although the network moved on between
discovery and broadcast.  `BuiltSound` gives the fee from the
sum of the selected inputs, which is an integer whatever the list
(`InputSatsType`).

`ResourceBindingProofs` proves, under `BindingAssumption`, for queries of any
length over any keys and values:

| Theorem | States |
|---|---|
| `CanonicalStaysOnce` | `Spec => []CanonicalOnce` |
| `FormSaysWhatIsRead` | two queries, however different, have one canonical form exactly if every key has the same values in the same order in both |
| `HashBindsWhatIsRead` | `Spec => BindsWhatIsRead` |

The argument.  The comparator is a strict total order on the positions of a
query (`BeforeOrders`), therefore `Rank` is a bijection of the positions
(`RankBijective`), and a query in order is its own canonical form
(`SortedIsCanonical`).  What a handler reads is brought in by the *spot* of a
pair: its key and the number of pairs with that key up to it, which is where
`Values` has the pair (`ValuesUpTo`).  Spots are ordered as the comparator
orders (`SpotOrder`) and are taken without a gap (`SpotTaken`), so the place of
a pair in the canonical form is that of its spot among the spots
(`RankOfSpot`), and those depend on `Values` alone (`ValuesGiveForm`).  The
other way round, sorting keeps the spot of every pair (`FormGivesValues`).

Folds.  `Spent`, `InputSats` and `Values` are folds over a sequence.  What a
fold computes for every input takes an induction, and the induction theorems of
the library have an operator parameter that the provers cannot instantiate.
The proofs go by the least counterexample instead: the lengths at which a
statement fails are a set of naturals, a set of naturals that is not empty has
a least element (`LeastNumber`), and at that length the step of the fold gives
a contradiction.  In the same way the function that the fold chooses is shown
to exist (`SumsDefined`, `KeptDefined`).  Three modules state these lemmas,
each for its own fold.

The type invariants of the SQLite store, the gateway, the facilitator,
`LivePayment` and the query are proved and therefore in no run.

Every invariant and every safety property of the passing runs is proved.
Model-checked only are `LockReleased`, `EveryRequestAnswered`,
`ReservationReleased` and `CallEnds`: liveness under fairness is outside the
prover's reach.  The properties of the three violated runs are false.

## Plan

1. The interceptor with a `LivePaymentOrchestrator` behind it, instead of its
   outcomes.
2. The gateway over the detailed SQLite store instead of the atomic one.

## Not modelled

Cryptography and encoding (CashAddr, canonical JSON, signatures, SHA-256,
BIP32), header parsing and size limits, constructor checks of configuration,
HTTP plumbing, mocks and fixtures, and the examples: they keep no state, and
where their answer matters it is a guard or an outcome of a modelled action.
