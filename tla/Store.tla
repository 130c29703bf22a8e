------------------------------- MODULE Store -------------------------------
(***************************************************************************)
(* The state every task of a node shares: the sled database                *)
(* (src/src/database.rs), the deposit channel (src/src/main.rs), and the   *)
(* part of the outside world the tasks read, namely the token transfers on *)
(* the two chains and the clock.                                           *)
(*                                                                         *)
(* A sled insert followed by flush is one durable step.  A method of       *)
(* Database that reads a record and writes it back is NOT one step: the    *)
(* components model its read and its write apart.                          *)
(*                                                                         *)
(* Amounts are naturals in cents of USDT, so 0.01 USDT is 1.  A BTC quote  *)
(* is abstracted to whether it is positive.                                *)
(***************************************************************************)
EXTENDS Integers, Sequences, FiniteSets

CONSTANTS
  Chains,          \* the chains the node watches, "tron" and "bsc"
  Exchanges,       \* exchange identifiers, ordered like the keys of the tree
  ExchangeChain,   \* [Exchanges -> Chains]
  DepositAddress,  \* [Exchanges -> Addresses], as the wallet derived it
  Asked,           \* [Exchanges -> Nat], the USDT amount of the request
  Addresses,
  NoAddress,       \* the empty string an absent JSON field is read as
  Transfers,       \* token transfers, numbered in the order of the chains
  TransferChain,   \* [Transfers -> Chains]
  TransferTo,      \* [Transfers -> Addresses]
  TransferAmount,  \* [Transfers -> Nat]
  Hashes,          \* transaction hashes
  HashOf,          \* [Transfers -> Hashes]; one transaction may hold several
  Tolerance,       \* 0.01 USDT
  MinUsdt,         \* MIN_USDT_AMOUNT
  QueueCap         \* capacity of the deposit channel (1024 in the code)

\* Stand for "no such identifier"; identifiers are positive.
NoExchange == 0
NoTransfer == 0

ASSUME IdsAssumption ==
  /\ Chains \subseteq {"tron", "bsc"}
  /\ Exchanges \subseteq Nat \ {NoExchange}
  /\ Transfers \subseteq Nat \ {NoTransfer}

ASSUME ExchangeAssumption ==
  /\ ExchangeChain \in [Exchanges -> Chains]
  /\ DepositAddress \in [Exchanges -> Addresses]
  /\ Asked \in [Exchanges -> Nat]
  /\ NoAddress \notin Addresses

\* Tron and BSC transactions never share a hash.
ASSUME TransferAssumption ==
  /\ TransferChain \in [Transfers -> Chains]
  /\ TransferTo \in [Transfers -> Addresses]
  /\ TransferAmount \in [Transfers -> Nat]
  /\ HashOf \in [Transfers -> Hashes]
  /\ \A t, u \in Transfers :
        HashOf[t] = HashOf[u] => TransferChain[t] = TransferChain[u]

ASSUME ParameterAssumption ==
  /\ Tolerance \in Nat
  /\ MinUsdt \in Nat
  /\ QueueCap \in Nat \ {0}

VARIABLES
  exchanges,  \* tree "exchanges"
  processed,  \* tree "tx_hashes": hashes that are done with
  pendingTx,  \* tree "pending_tx": per hash, the transfer of its entry, if any
  confirmed,  \* hashes whose pending_tx entry says confirmed: true
  reviews,    \* tree "manual_review": per hash, its entry, if any
  queue,      \* the deposit channel
  arrived,    \* transfers that are on their chain
  mature,     \* arrived transfers that are old (Tron) or deep (BSC) enough
  expired     \* exchanges whose expires_at has passed

database == <<exchanges, processed, pendingTx, confirmed, reviews>>
world    == <<arrived, mature, expired>>

-----------------------------------------------------------------------------
\* "absent" is an identifier not in the tree yet.  The code also names
\* "expired", "confirmed" and "completed"; nothing ever writes them.
Statuses == {"absent", "pending", "deposit_detected", "sending", "sent", "error"}

ExchangeRecord == [status : Statuses, usdt : Nat, btc : BOOLEAN]

ReviewRecord == [transfer : Transfers, expected : Nat]

\* DepositEvent.  "transfer" stands for the tx_hash (NoTransfer for the
\* "manual-<id>" of the bot) and "src" records who sent it.
Event == [transfer : Transfers \cup {NoTransfer},
          to       : Addresses \cup {NoAddress},
          amount   : Nat,
          src      : {"monitor", "bot"}]

StoreTypeOK ==
  /\ exchanges \in [Exchanges -> ExchangeRecord]
  /\ processed \subseteq Hashes
  /\ pendingTx \in [Hashes -> SUBSET Transfers]
  /\ confirmed \subseteq Hashes
  /\ reviews \in [Hashes -> SUBSET ReviewRecord]
  /\ queue \in Seq(Event)
  /\ arrived \subseteq Transfers
  /\ mature \subseteq Transfers
  /\ expired \subseteq Exchanges

StoreInit ==
  /\ exchanges = [e \in Exchanges |-> [status |-> "absent", usdt |-> 0, btc |-> FALSE]]
  /\ processed = {}
  /\ pendingTx = [h \in Hashes |-> {}]
  /\ confirmed = {}
  /\ reviews = [h \in Hashes |-> {}]
  /\ queue = <<>>
  /\ arrived = {}
  /\ mature = {}
  /\ expired = {}

-----------------------------------------------------------------------------
\* The first element of a set of identifiers, as a set: {} when there is none.
First(S) == {x \in S : \A y \in S : x <= y}

\* The n smallest elements of a set of identifiers.
FirstN(S, n) == {x \in S : Cardinality({y \in S : y < x}) < n}

Pending(e) == exchanges[e].status = "pending"

\* Faulty: the look-up does not ask for status "pending".
FindByAddressAnyStatus(a) ==
  First({e \in Exchanges : DepositAddress[e] = a /\ exchanges[e].status # "absent"})

\* find_exchange_by_address: the first pending exchange in key order, whether
\* it has expired or not; {} stands for None.
FindByAddress(a) == First({e \in Exchanges : DepositAddress[e] = a /\ Pending(e)})

\* Faulty: the comparison with expires_at is inverted.
PendingExchangesInverted(c) ==
  {e \in Exchanges : ExchangeChain[e] = c /\ Pending(e) /\ e \in expired}

\* get_pending_exchanges: only those that have not expired.
PendingExchanges(c) ==
  {e \in Exchanges : ExchangeChain[e] = c /\ Pending(e) /\ e \notin expired}

\* The comparison both monitors make of a deposit with the expected amount.
Mismatch(got, expected) == got - expected > Tolerance \/ expected - got > Tolerance

\* add_pending_tx overwrites the entry of the hash, with confirmed: false.
AddPendingTx(t) ==
  /\ pendingTx' = [pendingTx EXCEPT ![HashOf[t]] = {t}]
  /\ confirmed' = confirmed \ {HashOf[t]}

\* mark_pending_tx_confirmed does nothing when the hash has no entry.
MarkConfirmed(h) == confirmed' = IF pendingTx[h] = {} THEN confirmed ELSE confirmed \cup {h}

MarkProcessed(h) == processed' = processed \cup {h}

\* Faulty: the entry holds the difference instead of the expected amount.
AddManualReviewDifference(t, expected) ==
  reviews' = [reviews EXCEPT
    ![HashOf[t]] = {[transfer |-> t, expected |-> expected - TransferAmount[t]]}]

\* add_manual_review overwrites the entry of the hash.
AddManualReview(t, expected) ==
  reviews' = [reviews EXCEPT ![HashOf[t]] = {[transfer |-> t, expected |-> expected]}]

\* The write half of set_exchange_status and set_exchange_amounts.
PutExchange(e, record) == exchanges' = [exchanges EXCEPT ![e] = record]

\* Sender::send: waits while the channel is full.
Enqueue(event) ==
  /\ Len(queue) < QueueCap
  /\ queue' = Append(queue, event)

-----------------------------------------------------------------------------
\* api_create_exchange, from the point where the deposit address is known
\* (AddressAllocation models how it is chosen).  A price that cannot be
\* fetched leaves the exchange without a BTC amount.
CreateExchange(e) ==
  /\ exchanges[e].status = "absent"
  /\ Asked[e] >= MinUsdt
  /\ \E quoted \in BOOLEAN :
        PutExchange(e, [status |-> "pending", usdt |-> Asked[e], btc |-> quoted])
  /\ UNCHANGED <<processed, pendingTx, confirmed, reviews, queue, world>>

\* The clock passes created_at + 1800.
Expire(e) ==
  /\ exchanges[e].status # "absent"
  /\ e \notin expired
  /\ expired' = expired \cup {e}
  /\ UNCHANGED <<database, queue, arrived, mature>>

\* External: a transfer is included in its chain.
Transfer(t) ==
  /\ t \notin arrived
  /\ \A u \in Transfers : u < t /\ TransferChain[u] = TransferChain[t] => u \in arrived
  /\ arrived' = arrived \cup {t}
  /\ UNCHANGED <<database, queue, mature, expired>>

\* External: 60 seconds (Tron) or the configured confirmations (BSC) pass.
Mature(t) ==
  /\ t \in arrived \ mature
  /\ \A u \in Transfers : u < t /\ TransferChain[u] = TransferChain[t] => u \in mature
  /\ mature' = mature \cup {t}
  /\ UNCHANGED <<database, queue, arrived, expired>>

WorldNext ==
  \/ \E e \in Exchanges : CreateExchange(e) \/ Expire(e)
  \/ \E t \in Transfers : Transfer(t) \/ Mature(t)
=============================================================================
