----------------------------- MODULE FundingTx -----------------------------
(***************************************************************************)
(* buildFundingTx (x402-xec-transactions/src/index.ts): the transaction    *)
(* that pays an invoice from a list of UTXOs.  The inputs are the shortest *)
(* prefix of the list that pays amount and fee; output 0 is the payment,   *)
(* output 1 the change, left to the fee when it would be dust.  The size   *)
(* of a transaction, and so its fee, is the ecash-lib TxBuilder's.         *)
(***************************************************************************)
EXTENDS Integers, SequencesExt

CONSTANTS
  BaseFee,    \* fee of the fixed part of a transaction, at feePerKb
  InputFee,   \* fee of one signed input
  OutputFee,  \* fee of one output
  DustSats    \* dustSats

ASSUME FeeAssumption ==
  /\ BaseFee \in Nat /\ InputFee \in Nat /\ OutputFee \in Nat
  /\ DustSats \in Nat \ {0}
-----------------------------------------------------------------------------
(* A UTXO is [coin, sats, token].                                          *)
InputSats(utxos) == FoldLeft(LAMBDA sum, utxo : sum + utxo.sats, 0, utxos)

Fee(inputs, outputs) == BaseFee + inputs * InputFee + outputs * OutputFee

NoFeeYet(utxos, amount) ==  \* variant: the fee is not subtracted
  InputSats(utxos) - amount

(* What is left for a change output, beside the fee of two outputs.        *)
Leftover(utxos, amount) == InputSats(utxos) - amount - Fee(Len(utxos), 2)

ChangeSats(utxos, amount) ==
  IF Leftover(utxos, amount) >= DustSats THEN Leftover(utxos, amount) ELSE 0

(* TxBuilder.sign: else the change output is dropped, and what is there    *)
(* must pay amount and fee ("Insufficient input sats").                    *)
Suffices(utxos, amount) ==
  \/ ChangeSats(utxos, amount) > 0
  \/ InputSats(utxos) >= amount + Fee(Len(utxos), 1)

Candidates(utxos, count) == SubSeq(utxos, 1, count)

TokensIgnored(utxos) == FALSE  \* variant: token metadata is not looked at

TokenBearing(utxos) == \E i \in DOMAIN utxos : utxos[i].token

(* A token-bearing UTXO anywhere in the list is an error, and so is a list *)
(* no prefix of which suffices (InsufficientFundsError).                   *)
Fundable(utxos, amount) ==
  /\ ~TokenBearing(utxos)
  /\ \E count \in DOMAIN utxos : Suffices(Candidates(utxos, count), amount)

Selected(utxos, amount) ==
  Candidates(utxos,
             CHOOSE count \in DOMAIN utxos :
               /\ Suffices(Candidates(utxos, count), amount)
               /\ \A fewer \in 1..(count - 1) :
                    ~Suffices(Candidates(utxos, fewer), amount))

(* The same coins, payment and change give the same transaction: signing   *)
(* is deterministic, and nothing of the invoice's nonce is in it.          *)
BuildFundingTx(utxos, payTo, amount) ==
  LET selected == Selected(utxos, amount)
      change == ChangeSats(selected, amount) IN
  [inputs |-> [i \in DOMAIN selected |-> selected[i].coin],
   payTo |-> payTo, amountSats |-> amount, changeSats |-> change,
   feeSats |-> InputSats(selected) - amount - change]
=============================================================================
