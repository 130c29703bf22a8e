--------------------------- MODULE NodeInvariants ---------------------------
(***************************************************************************)
(* Inductive invariants of Node.  The runs check them on small instances,  *)
(* NodeProofs and SettlementProofs prove them.                             *)
(***************************************************************************)
EXTENDS Node

-----------------------------------------------------------------------------
(* Types.                                                                   *)

\* The locals of a task hold an identifier wherever the code uses one.
MonitorCursor(c, m) ==
  /\ m.pc \in {"check", "height", "reviewed", "confirm", "mark", "send"}
       => m.cur \in Transfers /\ TransferChain[m.cur] = c
  /\ \A t \in m.todo \cup m.ready : TransferChain[t] = c
  /\ c = "tron" /\ m.todo # {} => m.at \in Exchanges

MonitorInv == MonitorTypeOK /\ \A c \in Chains : MonitorCursor(c, monitor[c])

HandlerInv ==
  /\ HandlerTypeOK
  /\ handler.pc \in {"get", "put", "pay"} => handler.ex \in Exchanges /\ handler.goal # "none"

BotInv == BotTypeOK /\ (bot.pc # "idle" => bot.ex \in Exchanges)

TypeInv == StoreTypeOK /\ MonitorInv /\ HandlerInv /\ BotInv /\ crashes \in Nat

-----------------------------------------------------------------------------
(* Delivery: how a transaction travels from pending_tx to a payout.         *)

Delivered(h) == \E t \in sent : HashOf[t] = h

\* The trees: an entry of pending_tx is of its own hash, and what was sent is
\* confirmed and processed, so neither the emission nor a scan sends it again.
StoreDelivery ==
  /\ \A h \in Hashes : \A t, u \in pendingTx[h] : HashOf[t] = h /\ t = u
  /\ \A t \in sent : HashOf[t] \in processed /\ HashOf[t] \in confirmed

\* A monitor: what it is about to send, or has on its list, was never sent.
MonitorDelivery(m) ==
  /\ m.pc \in {"check", "height", "confirm", "mark", "send"} => ~Delivered(HashOf[m.cur])
  /\ m.pc \in {"height", "confirm", "mark", "send"} => pendingTx[HashOf[m.cur]] # {}
  /\ m.pc \in {"mark", "send"} =>
       /\ HashOf[m.cur] \in confirmed
       /\ \A t \in m.ready : HashOf[t] # HashOf[m.cur]
  /\ m.pc = "send" => HashOf[m.cur] \in processed
  /\ m.pc \in {"mark", "send"} /\ m.known => m.ready = {}
  /\ m.pc \in {"scan", "check", "height", "reviewed", "confirm"} => m.ready = {}
  /\ \A t \in m.ready : t \in pendingTx[HashOf[t]] /\ ~Delivered(HashOf[t])

\* The handler has a monitor's event in hand and has not paid for it yet.
HoldsUnpaid ==
  /\ \/ handler.pc = "find"
     \/ handler.pc \in {"get", "put", "pay"} /\ handler.goal \notin {"sent", "error"}
  /\ handler.event.src = "monitor"

Queued(h) == \E i \in 1..Len(queue) : queue[i].src = "monitor" /\ HashOf[queue[i].transfer] = h
Paid(h) == \E i \in 1..Len(payouts) : payouts[i].src = "monitor" /\ HashOf[payouts[i].transfer] = h

\* A monitor's event is in one place only: on the channel, in the handler's
\* hands, or paid.
EventDelivery ==
  /\ \A i \in 1..Len(queue) : queue[i].src = "monitor" => queue[i].transfer \in sent
  /\ \A i \in 1..Len(payouts) : payouts[i].src = "monitor" => payouts[i].transfer \in sent
  /\ \A i, j \in 1..Len(queue) :
       /\ queue[i].src = "monitor" /\ queue[j].src = "monitor"
       /\ HashOf[queue[i].transfer] = HashOf[queue[j].transfer]
       => i = j
  /\ \A h \in Hashes : ~(Queued(h) /\ Paid(h))
  /\ HoldsUnpaid => LET t == handler.event.transfer IN
                    t \in sent /\ ~Queued(HashOf[t]) /\ ~Paid(HashOf[t])
  /\ handler.pc = "pay" => handler.goal = "sending"
  /\ PaidOncePerTransaction

\* Inductive, with TypeInv.
DeliveryInv ==
  /\ StoreDelivery
  /\ \A c \in Chains : MonitorDelivery(monitor[c])
  /\ EventDelivery

-----------------------------------------------------------------------------
(* Claims: what the handler has in hand agrees with the exchange's record,  *)
(* unless a command has written the record meanwhile.                       *)

\* The status that StatusPut replaces by the goal.
Before(goal) == CASE goal = "deposit_detected" -> "pending"
                  [] goal = "sending"          -> "deposit_detected"
                  [] OTHER                     -> "sending"

\* The handler got e out of "pending".
PastPending(e) ==
  /\ handler.ex = e
  /\ \/ handler.pc \in {"get", "put"} /\ handler.goal # "deposit_detected"
     \/ handler.pc = "pay"

PaidExchange(e) == \E i \in 1..Len(payouts) : payouts[i].exchange = e

\* Idle tasks work on no exchange, the bot on one that is marked as touched, and
\* an exchange that is worked on or paid has been created.
HandsInv ==
  /\ handler.pc \in {"idle", "find"} => handler.ex = NoExchange
  /\ handler.pc = "pay" => handler.goal = "sending"
  /\ handler.pc \in {"get", "put", "pay"} => exchanges[handler.ex].status # "absent"
  /\ bot.pc = "idle" => bot.ex = NoExchange
  /\ bot.pc # "idle" => bot.ex \in touched /\ exchanges[bot.ex].status # "absent"
  /\ bot.pc \in {"amountsPut", "statusPut"} => bot.copy.status # "absent"
  /\ \A e \in Exchanges : PaidExchange(e) => exchanges[e].status # "absent"

\* What the handler does to an exchange that no command has touched.
ClaimOf(e) ==
  /\ handler.ex = e =>
       /\ handler.pc \in {"get", "put"} => exchanges[e].status = Before(handler.goal)
       /\ handler.pc = "put" => handler.copy = exchanges[e]
       /\ handler.pc = "pay" => exchanges[e].status = "sending"
       /\ handler.pc = "add" => exchanges[e].status \in {"sent", "error"}
  /\ PaidExchange(e) => exchanges[e].status \in {"sending", "sent", "error"}
  /\ exchanges[e].status # "absent" => exchanges[e].usdt = Asked[e]

\* Where a command may leave an exchange "pending" again.
ReopenInv ==
  /\ \A e \in Exchanges : PastPending(e) /\ Pending(e) => bot.ex = e
  /\ bot.pc = "send" => ~Pending(bot.ex)
  /\ PaidStaysClosed

\* Inductive, with TypeInv.
ClaimInv ==
  /\ HandsInv
  /\ \A e \in Exchanges \ touched : ClaimOf(e)
  /\ ReopenInv
  /\ InProgressIsHeld

-----------------------------------------------------------------------------
(* Budget: how many payouts of an exchange are still to be feared.          *)

\* The handler has claimed e and has not tried to pay for it yet.
Claims(e) ==
  /\ handler.ex = e
  /\ \/ handler.pc \in {"get", "put"} /\ handler.goal \in {"deposit_detected", "sending"}
     \/ handler.pc = "pay"

\* A deposit may still claim e: the handler is not about to close it.
Open(e) ==
  /\ exchanges[e].status \in {"absent", "pending"}
  /\ ~(handler.ex = e /\ handler.pc \in {"get", "put"} /\ handler.goal = "deposit_detected")

\* A command is about to write e back as it read it.
Reopens(e) == bot.ex = e /\ bot.pc \in {"amountsGet", "amountsPut"}

PayoutsOf(e) == {i \in 1..Len(payouts) : payouts[i].exchange = e}

OneIf(b) == IF b THEN 1 ELSE 0

Spent(e) == OneIf(Claims(e)) + OneIf(Open(e)) + OneIf(Reopens(e))

Budget(e) == IF e \in touched THEN 1 + resolves ELSE 1

\* Inductive, with TypeInv and ClaimInv.
BudgetInv == \A e \in Exchanges : Cardinality(PayoutsOf(e)) + Spent(e) <= Budget(e)

-----------------------------------------------------------------------------
(* Origin: what a transfer goes through before BTC leaves for it.           *)

\* The recipient of a monitor's event is the transfer's, or was lost.
FromTransfer(event) ==
  event.src = "monitor" => event.to \in {NoAddress, TransferTo[event.transfer]}

\* A monitor works on transfers that are on the chain, and what it marks after
\* a review has one.
MonitorOrigin(m) ==
  /\ m.todo \cup m.ready \subseteq arrived
  /\ m.pc \in {"check", "height", "reviewed", "confirm", "mark", "send"} => m.cur \in arrived
  /\ m.pc = "reviewed" => reviews[HashOf[m.cur]] # {}

\* Inductive, with TypeInv.
OriginInv ==
  /\ sent \subseteq arrived
  /\ \A h \in Hashes : pendingTx[h] \subseteq arrived
  /\ \A c \in Chains : MonitorOrigin(monitor[c])
  /\ \A i \in 1..Len(queue) : FromTransfer(queue[i])
  /\ handler.pc \in {"find", "get", "put", "pay"} => FromTransfer(handler.event)
  /\ handler.pc \in {"get", "put", "pay"} => DepositAddress[handler.ex] = handler.event.to
  /\ ProcessedIsAccountedFor

-----------------------------------------------------------------------------
(* Cover: with one exchange per address, how the amount of a transfer       *)
(* relates to the exchange it reaches.                                      *)

Covers(t, e) == e \in touched \/ ~Mismatch(TransferAmount[t], Asked[e])

\* The exchange t goes to is no longer open, or t covers it.
Eligible(t) ==
  \A e \in Exchanges : DepositAddress[e] = TransferTo[t] =>
    exchanges[e].status \notin {"absent", "pending"} \/ Covers(t, e)

\* No command will put e back to "pending", and it is not.
ClosedForGood(e) == exchanges[e].status \notin {"absent", "pending"} /\ ~Reopens(e)

EventCover(event) ==
  event.to # NoAddress =>
    IF event.src = "monitor"
    THEN Eligible(event.transfer)
    ELSE \A e \in Exchanges : DepositAddress[e] = event.to => ClosedForGood(e)

\* The amount on Tron's list of an exchange no command has touched.
ListedAsAsked(m, e) == e \in touched \/ m.expected[e] = Asked[e]

MonitorCover(c, m) ==
  /\ m.pc = "emit" \/ (m.pc \in {"mark", "send"} /\ ~m.known) => m.todo = {}
  /\ c = "tron" =>
       /\ \A e \in m.visit : ListedAsAsked(m, e)
       /\ m.todo # {} => ListedAsAsked(m, m.at)
       /\ \A t \in m.todo : TransferTo[t] = DepositAddress[m.at]
  /\ m.pc = "check" => \A e \in Exchanges :
       DepositAddress[e] = TransferTo[m.cur] => exchanges[e].status # "absent"
  /\ m.pc \in {"height", "confirm"} \/ (m.pc \in {"mark", "send"} /\ m.known)
       => Eligible(m.cur)

HandlerCover ==
  /\ handler.pc = "find" => EventCover(handler.event)
  /\ handler.pc \in {"get", "put", "pay"} =>
       handler.event.src = "monitor" /\ Covers(handler.event.transfer, handler.ex)

PayoutCover(p) ==
  p.src = "monitor" /\ TransferTo[p.transfer] = DepositAddress[p.exchange]
    /\ Covers(p.transfer, p.exchange)

ReviewCover(r) ==
  \A e \in Exchanges : DepositAddress[e] = TransferTo[r.transfer] =>
    e \in touched \/ Mismatch(TransferAmount[r.transfer], Asked[e])

\* Inductive, with TypeInv, ClaimInv and OriginInv.
CoverInv ==
  UniqueAddresses =>
    /\ \A c \in Chains : MonitorCover(c, monitor[c])
    /\ \A i \in 1..Len(queue) : EventCover(queue[i])
    /\ HandlerCover
    /\ \A i \in 1..Len(payouts) : PayoutCover(payouts[i])
    /\ \A h \in Hashes : \A r \in reviews[h] : ReviewCover(r)
=============================================================================
