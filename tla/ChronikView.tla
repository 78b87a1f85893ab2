---------------------------- MODULE ChronikView ----------------------------
(***************************************************************************)
(* What the servers see of the eCash chain through their Chronik node, as  *)
(* the code of src/ reads it: the fields block, isFinal, timeFirstSeen and *)
(* block.timestamp of a transaction.  Chronik itself is outside src/.      *)
(***************************************************************************)
EXTENDS Integers

CONSTANTS
  Txid,        \* transaction identifiers
  ReorgDepth,  \* a block older than this is never disconnected
  MaxTime      \* bound on the clock

ASSUME ChronikAssumption == ReorgDepth \in Nat /\ MaxTime \in Nat

VARIABLES
  now,    \* real time, in the unit of the servers' clocks
  chain   \* chain[t]: what Chronik knows of transaction t

chronikVars == <<now, chain>>

(* final is isFinal; seen is timeFirstSeen, 0 when the node first met t    *)
(* inside a block; mined is block.timestamp, 0 outside a block.            *)
Sighting == [at : {"absent", "mempool", "block"}, final : BOOLEAN,
             seen : Nat, mined : Nat]
Unseen == [at |-> "absent", final |-> FALSE, seen |-> 0, mined |-> 0]

ChronikTypeOK ==
  /\ now \in Nat
  /\ chain \in [Txid -> Sighting]

ChronikInit ==
  /\ now = 1
  /\ chain = [t \in Txid |-> Unseen]

Tick ==
  /\ now < MaxTime
  /\ now' = now + 1
  /\ UNCHANGED chain

Broadcast(t) ==
  /\ chain[t].at = "absent"
  /\ chain' = [chain EXCEPT ![t] = [Unseen EXCEPT !.at = "mempool", !.seen = now]]
  /\ UNCHANGED now

(* Avalanche finality is never taken back.                                 *)
Finalize(t) ==
  /\ chain[t].at = "mempool"
  /\ chain' = [chain EXCEPT ![t].final = TRUE]
  /\ UNCHANGED now

Mine(t) ==
  /\ chain[t].at # "block"
  /\ chain' = [chain EXCEPT ![t].at = "block", ![t].mined = now]
  /\ UNCHANGED now

Reorg(t) ==
  /\ chain[t].at = "block"
  /\ now < chain[t].mined + ReorgDepth
  /\ chain' = [chain EXCEPT ![t].at = "mempool", ![t].mined = 0]
  /\ UNCHANGED now

Evict(t) ==
  /\ chain[t].at = "mempool" /\ ~chain[t].final
  /\ chain' = [chain EXCEPT ![t] = Unseen]
  /\ UNCHANGED now

ChronikNext ==
  \/ Tick
  \/ \E t \in Txid :
       Broadcast(t) \/ Finalize(t) \/ Mine(t) \/ Reorg(t) \/ Evict(t)

(* validConfirmedBlock || isFinal === true                                 *)
Final(s) == s.at = "block" \/ s.final

(* observedAt: timeFirstSeen, else block.timestamp, else unknown (0).      *)
ObservedAt(s) ==
  IF s.seen > 0 THEN s.seen ELSE IF s.at = "block" THEN s.mined ELSE 0
=============================================================================
