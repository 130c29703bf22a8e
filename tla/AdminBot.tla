------------------------------ MODULE AdminBot ------------------------------
(***************************************************************************)
(* The commands of the Telegram bot (src/src/telegram_bot.rs) that change  *)
(* state: /resolve and the two Resolve buttons.  The updates of the        *)
(* operator's chat are handled one at a time.  The commands that only show *)
(* something are left out.                                                 *)
(***************************************************************************)
EXTENDS Store

CONSTANT MaxResolves  \* bound: commands the operator gives

ASSUME BotAssumption == MaxResolves \in Nat

VARIABLES
  bot,       \* locals of the update being handled
  resolves,  \* commands given so far
  touched    \* history: exchanges some command has started to write

botVars == <<bot, resolves, touched>>

BotPcs == {"idle", "amountsGet", "amountsPut", "statusGet", "statusPut", "send"}

BotRecord ==
  [pc       : BotPcs,
   ex       : Exchanges \cup {NoExchange},
   transfer : Transfers \cup {NoTransfer},  \* of the review, if it is one
   amount   : Nat,
   copy     : ExchangeRecord]

IdleBot == [pc |-> "idle", ex |-> NoExchange, transfer |-> NoTransfer, amount |-> 0,
            copy |-> [status |-> "absent", usdt |-> 0, btc |-> FALSE]]

BotTypeOK ==
  /\ bot \in BotRecord
  /\ resolves \in Nat
  /\ touched \subseteq Exchanges

BotInit == bot = IdleBot /\ resolves = 0 /\ touched = {}

BotLocal(b) == bot' = b /\ UNCHANGED <<resolves, touched>>

-----------------------------------------------------------------------------
\* A command is accepted: the update is bound to an exchange.
Accept(b) ==
  /\ bot.pc = "idle"
  /\ resolves < MaxResolves
  /\ bot' = b
  /\ resolves' = resolves + 1
  /\ touched' = touched \cup {b.ex}
  /\ UNCHANGED <<database, queue, world>>

\* cmd_resolve, and the Resolve button of a review: an underpaid one is
\* ignored, and so is one whose address has no pending exchange.
ResolveReview(h, e) ==
  \E r \in reviews[h] :
    /\ TransferAmount[r.transfer] >= r.expected
    /\ e \in FindByAddress(TransferTo[r.transfer])
    /\ Accept([IdleBot EXCEPT !.pc = "amountsGet", !.ex = e, !.transfer = r.transfer,
                              !.amount = TransferAmount[r.transfer]])

\* The Resolve button of an exchange.  It is drawn for some statuses only, but
\* stays in the chat, and the callback looks at no status.
ResolveExchange(e) ==
  /\ exchanges[e].status # "absent"
  /\ Accept([IdleBot EXCEPT !.pc = "statusGet", !.ex = e, !.amount = exchanges[e].usdt])

\* set_exchange_amounts(got, btc_amount): the read, then the write.
AmountsGet ==
  /\ bot.pc = "amountsGet"
  /\ BotLocal([bot EXCEPT !.pc = "amountsPut", !.copy = exchanges[bot.ex]])
  /\ UNCHANGED <<database, queue, world>>

AmountsPut ==
  /\ bot.pc = "amountsPut"
  /\ PutExchange(bot.ex, [bot.copy EXCEPT !.usdt = bot.amount])
  /\ BotLocal([bot EXCEPT !.pc = "statusGet", !.copy = IdleBot.copy])
  /\ UNCHANGED <<processed, pendingTx, confirmed, reviews, queue, world>>

\* Faulty: the command leaves the status as it read it.
BotStatusPutKeeps ==
  /\ bot.pc = "statusPut"
  /\ PutExchange(bot.ex, bot.copy)
  /\ BotLocal([bot EXCEPT !.pc = "send", !.copy = IdleBot.copy])
  /\ UNCHANGED <<processed, pendingTx, confirmed, reviews, queue, world>>

\* set_exchange_status("deposit_detected"): the read, then the write.
BotStatusGet ==
  /\ bot.pc = "statusGet"
  /\ BotLocal([bot EXCEPT !.pc = "statusPut", !.copy = exchanges[bot.ex]])
  /\ UNCHANGED <<database, queue, world>>

BotStatusPut ==
  /\ bot.pc = "statusPut"
  /\ PutExchange(bot.ex, [bot.copy EXCEPT !.status = "deposit_detected"])
  /\ BotLocal([bot EXCEPT !.pc = "send", !.copy = IdleBot.copy])
  /\ UNCHANGED <<processed, pendingTx, confirmed, reviews, queue, world>>

\* The event goes to the deposit handler; the review keeps resolved: false.
BotSend ==
  /\ bot.pc = "send"
  /\ Enqueue([transfer |-> bot.transfer, to |-> DepositAddress[bot.ex],
              amount |-> bot.amount, src |-> "bot"])
  /\ BotLocal(IdleBot)
  /\ UNCHANGED <<database, world>>

BotNext ==
  \/ \E h \in Hashes, e \in Exchanges : ResolveReview(h, e)
  \/ \E e \in Exchanges : ResolveExchange(e)
  \/ AmountsGet \/ AmountsPut \/ BotStatusGet \/ BotStatusPut
  \/ BotSend
=============================================================================
