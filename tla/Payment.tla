------------------------------ MODULE Payment ------------------------------
(***************************************************************************)
(* How send_btc_to_user (src/src/main.rs) pays a BTC amount out of the     *)
(* node's coins with the functions of src/src/bitcoin_tx.rs, beside the    *)
(* Bitcoin network: coins arrive, confirm, and may be spent by the         *)
(* operator while a payment is being made.  The handler makes one payment  *)
(* at a time.  Values are in satoshis.                                     *)
(***************************************************************************)
EXTENDS Integers, FiniteSets, FiniteSetsExt

CONSTANTS
  Coins,      \* outputs of the reserve address, numbered
  CoinValue,  \* [Coins -> values], the same for two coins or not
  Payouts,    \* the amounts quoted
  Rates,      \* fee rates, in whole satoshis per virtual byte
  OutputSizes \* bytes of an output to a user's address: 31 for P2WPKH, 32 for
              \* P2SH, 34 for P2PKH, 43 for P2WSH and P2TR

ASSUME PaymentAssumption ==
  /\ Coins \subseteq Nat /\ IsFiniteSet(Coins)
  /\ CoinValue \in [Coins -> Nat \ {0}]
  /\ Payouts \subseteq Nat \ {0}
  /\ Rates \subseteq Nat
  /\ OutputSizes \subseteq Nat

VARIABLES
  coin,  \* [Coins -> "none", "unconfirmed", "confirmed" or "spent"]
  pay,   \* locals of the payment
  tx     \* the transaction of the payment, if it was built

vars == <<coin, pay, tx>>

PayPcs == {"idle", "fetch", "rate", "build", "broadcast"}

IdlePay == [pc |-> "idle", payout |-> 0, size |-> 0, listed |-> {}, rate |-> 0]

TxRecord == [inputs : SUBSET Coins, listed : SUBSET Coins, payout : Nat, size : Nat,
             change : Int, changeTo : {"user", "reserve"}, fee : Nat, rate : Nat]

TypeOK ==
  /\ coin \in [Coins -> {"none", "unconfirmed", "confirmed", "spent"}]
  /\ pay \in [pc : PayPcs, payout : Nat, size : Nat, listed : SUBSET Coins, rate : Nat]
  /\ tx = {} \/ \E record \in tx : tx = {record} /\ record \in TxRecord

Init ==
  /\ coin = [c \in Coins |-> "none"]
  /\ pay = IdlePay
  /\ tx = {}

-----------------------------------------------------------------------------
Total(S) == MapThenSumSet(LAMBDA c : CoinValue[c], S)

\* Faulty: the estimate counts one input whatever their number.
EstimateOneInput(inputs, outputs) == 9 + 34 * outputs + 64

\* estimate_tx_vbytes: the weights 4 * (9 + 34 outputs + 37 inputs) and
\* 108 inputs, divided by four.
EstimateVbytes(inputs, outputs) == 9 + 34 * outputs + 64 * inputs

\* Faulty: the smallest coins first.
PrecedesAscending(c, d) ==
  CoinValue[c] < CoinValue[d] \/ (CoinValue[c] = CoinValue[d] /\ c < d)

\* The order select_utxos takes coins in: largest first, then as listed.
Precedes(c, d) ==
  CoinValue[c] > CoinValue[d] \/ (CoinValue[c] = CoinValue[d] /\ c < d)

\* select_utxos takes coins until their total reaches the target.
Select(listed, target) ==
  {c \in listed : Total({d \in listed : Precedes(d, c)}) < target}

-----------------------------------------------------------------------------
\* A BTC amount that is absent or zero fails at once; others are Payouts.  The
\* address is whatever the user entered.
Start(amount, size) ==
  /\ pay.pc = "idle"
  /\ pay' = [IdlePay EXCEPT !.pc = "fetch", !.payout = amount, !.size = size]
  /\ tx' = {}
  /\ UNCHANGED coin

\* The payment returns an error: utxos that cannot be fetched after the
\* retries, no fee reply, an address that does not parse.
Fail ==
  /\ pay.pc \in {"fetch", "rate", "build"}
  /\ pay' = IdlePay
  /\ UNCHANGED <<coin, tx>>

\* fetch_utxos, of which the confirmed ones are kept.  None is an error.
Fetch ==
  LET found == {c \in Coins : coin[c] = "confirmed"} IN
  /\ pay.pc = "fetch"
  /\ pay' = IF found = {} THEN IdlePay ELSE [pay EXCEPT !.pc = "rate", !.listed = found]
  /\ UNCHANGED <<coin, tx>>

\* fastestFee of the fee reply.
FetchRate(rate) ==
  /\ pay.pc = "rate"
  /\ pay' = [pay EXCEPT !.pc = "build", !.rate = rate]
  /\ UNCHANGED <<coin, tx>>

\* build_unsigned_tx for a selection.  The change goes where the payout goes.
Built(inputs, fee) ==
  [inputs |-> inputs, listed |-> pay.listed, payout |-> pay.payout, size |-> pay.size,
   fee |-> fee, change |-> Total(inputs) - pay.payout - fee, changeTo |-> "user",
   rate |-> pay.rate]

\* Faulty: a total below the target is not refused.
BuildUnchecked ==
  LET fee      == pay.rate * EstimateVbytes(Cardinality(pay.listed), 2)
      selected == Select(pay.listed, pay.payout + fee)
  IN  /\ pay.pc = "build"
      /\ tx' = {Built(selected, fee)}
      /\ pay' = [pay EXCEPT !.pc = "broadcast"]
      /\ UNCHANGED coin

\* The fee is taken over every coin listed, with two outputs; then coins are
\* selected for the payout and the fee, and a total below both is an error.
Build ==
  LET fee      == pay.rate * EstimateVbytes(Cardinality(pay.listed), 2)
      selected == Select(pay.listed, pay.payout + fee)
  IN  /\ pay.pc = "build"
      /\ IF Total(selected) >= pay.payout + fee
         THEN /\ tx' = {Built(selected, fee)}
              /\ pay' = [pay EXCEPT !.pc = "broadcast"]
         ELSE /\ pay' = IdlePay
              /\ UNCHANGED tx
      /\ UNCHANGED coin

\* The network takes the transaction if no input was spent meanwhile; either
\* way the call ends, and what it reports is Pay of DepositHandler.
Broadcast ==
  /\ pay.pc = "broadcast"
  /\ \E record \in tx :
        coin' = IF \A c \in record.inputs : coin[c] = "confirmed"
                THEN [c \in Coins |-> IF c \in record.inputs THEN "spent" ELSE coin[c]]
                ELSE coin
  /\ pay' = IdlePay
  /\ UNCHANGED tx

\* The request does not reach the network.
BroadcastFails ==
  /\ pay.pc = "broadcast"
  /\ pay' = IdlePay
  /\ UNCHANGED <<coin, tx>>

\* External: a coin arrives, is confirmed, or is spent by the operator.
CoinStep(c) ==
  /\ coin' = [coin EXCEPT ![c] = CASE coin[c] = "none"        -> "unconfirmed"
                                   [] coin[c] = "unconfirmed" -> "confirmed"
                                   [] OTHER                   -> "spent"]
  /\ coin[c] # "spent"
  /\ UNCHANGED <<pay, tx>>

Next ==
  \/ \E amount \in Payouts, size \in OutputSizes : Start(amount, size)
  \/ Fail
  \/ Fetch
  \/ \E rate \in Rates : FetchRate(rate)
  \/ Build
  \/ Broadcast \/ BroadcastFails
  \/ \E c \in Coins : CoinStep(c)

Spec == Init /\ [][Next]_vars

-----------------------------------------------------------------------------
\* Every transaction the node broadcasts balances: its inputs hold the payout
\* and the fee, so the unsigned subtraction that gives the change never wraps
\* (build_unsigned_tx), whatever coins came and went since they were listed.
Balanced ==
  \A t \in tx : t.change >= 0 /\ Total(t.inputs) = t.payout + t.change + t.fee

\* Largest first is as good as any choice: no smaller number of the coins that
\* were listed would have paid for the payout and the fee (select_utxos).
FewestInputs ==
  \A t \in tx : \A S \in SUBSET t.listed :
    Total(S) >= t.payout + t.fee => Cardinality(S) >= Cardinality(t.inputs)

\* External: the virtual size of a signed transaction of P2WPKH inputs, 41 bytes
\* and at most 108 of witness each, and outputs of one size.
Vsize(inputs, outputs, size) == (42 + 272 * inputs + 4 * size * outputs + 3) \div 4

\* The fee is short of the fetched rate by no more than what the estimate leaves
\* out: four bytes of sequence number for each input, two of the header, and
\* what an output takes beyond the 34 bytes it counts, as those to a taproot
\* address do (estimate_tx_vbytes).
FeeIsNearlyEnough ==
  \A t \in tx :
    LET inputs  == Cardinality(t.inputs)
        outputs == IF t.change > 0 THEN 2 ELSE 1
        beyond  == IF t.size > 34 THEN t.size - 34 ELSE 0
    IN  t.fee + t.rate * (4 * inputs + 2 + outputs * beyond)
          >= t.rate * Vsize(inputs, outputs, t.size)

\* templates/index.html says of the quote: "You will receive".  So the outputs
\* to the user's address are worth the quoted amount and no more.
UserReceivesQuote ==
  \A t \in tx : t.payout + (IF t.changeTo = "user" THEN t.change ELSE 0) = t.payout
=============================================================================
