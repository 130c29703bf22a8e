--------------------------- MODULE DepositHandler ---------------------------
(***************************************************************************)
(* The task of src/src/main.rs that takes deposits off the channel one at  *)
(* a time: it matches each to a pending exchange, walks the status through *)
(* deposit_detected and sending, pays the BTC, and records sent or error.  *)
(* Each set_exchange_status is two steps, the read and the write of the    *)
(* whole record (src/src/database.rs), as other tasks write it too.        *)
(***************************************************************************)
EXTENDS Store

VARIABLES
  handler,      \* locals of the task
  accumulated,  \* the total of RebalanceEngine
  payouts       \* history: the BTC transactions broadcast, in order

handlerVars == <<handler, accumulated, payouts>>

HandlerPcs == {"idle", "find", "get", "put", "pay", "add"}

\* The status the task is about to write, and what it does afterwards.
Goals == {"none", "deposit_detected", "sending", "sent", "error"}

NoEvent == [transfer |-> NoTransfer, to |-> NoAddress, amount |-> 0, src |-> "bot"]

NoRecord == [status |-> "absent", usdt |-> 0, btc |-> FALSE]

HandlerRecord ==
  [pc    : HandlerPcs,
   event : Event,
   ex    : Exchanges \cup {NoExchange},  \* the exchange the event matched
   btc   : BOOLEAN,                      \* it has a positive BTC amount
   goal  : Goals,
   copy  : ExchangeRecord]               \* what set_exchange_status read

IdleHandler == [pc |-> "idle", event |-> NoEvent, ex |-> NoExchange,
                btc |-> FALSE, goal |-> "none", copy |-> NoRecord]

Payout == [exchange : Exchanges, transfer : Transfers \cup {NoTransfer},
           src : {"monitor", "bot"}]

HandlerTypeOK ==
  /\ handler \in HandlerRecord
  /\ accumulated \in Nat
  /\ payouts \in Seq(Payout)

HandlerInit ==
  /\ handler = IdleHandler
  /\ accumulated = 0
  /\ payouts = <<>>

-----------------------------------------------------------------------------
\* Faulty: the task polls until two deposits are on the channel.
ReceivePairs ==
  /\ handler.pc = "idle"
  /\ queue # <<>>
  /\ IF Len(queue) > 1
     THEN /\ queue' = Tail(queue)
          /\ handler' = [IdleHandler EXCEPT !.pc = "find", !.event = Head(queue)]
     ELSE UNCHANGED <<queue, handler>>
  /\ UNCHANGED <<database, world, accumulated, payouts>>

\* recv; a deposit below the minimum is dropped.
Receive ==
  /\ handler.pc = "idle"
  /\ queue # <<>>
  /\ queue' = Tail(queue)
  /\ handler' = IF Head(queue).amount < MinUsdt
                THEN IdleHandler
                ELSE [IdleHandler EXCEPT !.pc = "find", !.event = Head(queue)]
  /\ UNCHANGED <<database, world, accumulated, payouts>>

\* Faulty: the task pays first and records the statuses afterwards.
FindPaysFirst(e) ==
  /\ handler.pc = "find"
  /\ e \in FindByAddress(handler.event.to)
  /\ handler' = [handler EXCEPT !.pc = "pay", !.ex = e, !.btc = exchanges[e].btc,
                                !.goal = "sending"]
  /\ UNCHANGED <<database, queue, world, accumulated, payouts>>

\* find_exchange_by_address finds a pending exchange.
Find(e) ==
  /\ handler.pc = "find"
  /\ e \in FindByAddress(handler.event.to)
  /\ handler' = [handler EXCEPT !.pc = "get", !.ex = e, !.btc = exchanges[e].btc,
                                !.goal = "deposit_detected"]
  /\ UNCHANGED <<database, queue, world, accumulated, payouts>>

\* Faulty: the task looks again until it finds an exchange.
FindNoneRetries ==
  /\ handler.pc = "find"
  /\ FindByAddress(handler.event.to) = {}
  /\ UNCHANGED <<database, queue, world, handlerVars>>

\* It finds none: the deposit is only added to the total.
FindNone ==
  /\ handler.pc = "find"
  /\ FindByAddress(handler.event.to) = {}
  /\ handler' = [handler EXCEPT !.pc = "add"]
  /\ UNCHANGED <<database, queue, world, accumulated, payouts>>

\* Faulty: a failed payout puts the exchange back to "pending".
StatusPutReopens ==
  /\ handler.pc = "put"
  /\ PutExchange(handler.ex, [handler.copy EXCEPT
        !.status = IF handler.goal = "error" THEN "pending" ELSE handler.goal])
  /\ handler' = [handler EXCEPT !.copy = NoRecord,
        !.pc   = CASE handler.goal = "deposit_detected" -> "get"
                   [] handler.goal = "sending"          -> "pay"
                   [] OTHER                             -> "add",
        !.goal = IF handler.goal = "deposit_detected" THEN "sending" ELSE handler.goal]
  /\ UNCHANGED <<processed, pendingTx, confirmed, reviews, queue, world,
                 accumulated, payouts>>

\* set_exchange_status(goal): the read, then the write.
StatusGet ==
  /\ handler.pc = "get"
  /\ handler' = [handler EXCEPT !.pc = "put", !.copy = exchanges[handler.ex]]
  /\ UNCHANGED <<database, queue, world, accumulated, payouts>>

StatusPut ==
  /\ handler.pc = "put"
  /\ PutExchange(handler.ex, [handler.copy EXCEPT !.status = handler.goal])
  /\ handler' = [handler EXCEPT !.copy = NoRecord,
        !.pc   = CASE handler.goal = "deposit_detected" -> "get"
                   [] handler.goal = "sending"          -> "pay"
                   [] OTHER                             -> "add",
        !.goal = IF handler.goal = "deposit_detected" THEN "sending" ELSE handler.goal]
  /\ UNCHANGED <<processed, pendingTx, confirmed, reviews, queue, world,
                 accumulated, payouts>>

\* Faulty: a failed payout records no status.
PayWithoutError(broadcast, ok) ==
  /\ handler.pc = "pay"
  /\ broadcast \/ ok => handler.btc
  /\ payouts' = IF broadcast
                THEN Append(payouts, [exchange |-> handler.ex,
                                      transfer |-> handler.event.transfer,
                                      src      |-> handler.event.src])
                ELSE payouts
  /\ handler' = IF ok THEN [handler EXCEPT !.pc = "get", !.goal = "sent"] ELSE IdleHandler
  /\ UNCHANGED <<database, queue, world, accumulated>>

\* send_btc_to_user: "broadcast" says whether the transaction reached the
\* Bitcoin network, "ok" what the call returned.  They differ when the reply to
\* the broadcast is lost, and when a rejection longer than nine bytes is taken
\* for a transaction id.  Without a BTC amount the call fails at once.
Pay(broadcast, ok) ==
  /\ handler.pc = "pay"
  /\ broadcast \/ ok => handler.btc
  /\ payouts' = IF broadcast
                THEN Append(payouts, [exchange |-> handler.ex,
                                      transfer |-> handler.event.transfer,
                                      src      |-> handler.event.src])
                ELSE payouts
  /\ handler' = [handler EXCEPT !.pc = "get", !.goal = IF ok THEN "sent" ELSE "error"]
  /\ UNCHANGED <<database, queue, world, accumulated>>

\* add_deposit of RebalanceEngine.  No peer is ever registered, so reaching
\* the threshold changes nothing else.
AddDeposit ==
  /\ handler.pc = "add"
  /\ accumulated' = accumulated + handler.event.amount
  /\ handler' = IdleHandler
  /\ UNCHANGED <<database, queue, world, payouts>>

HandlerNext ==
  \/ Receive
  \/ \E e \in Exchanges : Find(e)
  \/ FindNone
  \/ StatusGet \/ StatusPut
  \/ \E broadcast, ok \in BOOLEAN : Pay(broadcast, ok)
  \/ AddDeposit
=============================================================================
