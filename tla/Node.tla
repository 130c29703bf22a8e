-------------------------------- MODULE Node --------------------------------
(***************************************************************************)
(* One Kumquad node: the two monitors, the deposit handler and the         *)
(* operator's bot, tasks of one process that share the database and the    *)
(* deposit channel, and a process that may stop at any point and start     *)
(* again on the same database.                                             *)
(***************************************************************************)
EXTENDS Monitor, DepositHandler, AdminBot

CONSTANT MaxCrashes  \* bound: times the process stops

ASSUME CrashAssumption == MaxCrashes \in Nat

VARIABLE crashes

store == <<database, queue, world>>
vars  == <<store, monitorVars, handlerVars, botVars, crashes>>

TypeOK ==
  /\ StoreTypeOK
  /\ MonitorTypeOK
  /\ HandlerTypeOK
  /\ BotTypeOK
  /\ crashes \in Nat

Init == StoreInit /\ MonitorInit /\ HandlerInit /\ BotInit /\ crashes = 0

\* The process stops and starts again: what the trees hold stays, the channel,
\* the total and the tasks' locals are gone.
Crash ==
  /\ crashes < MaxCrashes
  /\ crashes' = crashes + 1
  /\ queue' = <<>>
  /\ monitor' = [c \in Chains |-> IdleMonitor]
  /\ handler' = IdleHandler
  /\ accumulated' = 0
  /\ bot' = IdleBot
  /\ UNCHANGED <<database, world, sent, payouts, resolves, touched>>

WorldStep   == WorldNext   /\ UNCHANGED <<monitorVars, handlerVars, botVars, crashes>>
MonitorStep == MonitorNext /\ UNCHANGED <<handlerVars, botVars, crashes>>
HandlerStep == HandlerNext /\ UNCHANGED <<monitorVars, botVars, crashes>>
BotStep     == BotNext     /\ UNCHANGED <<monitorVars, handlerVars, crashes>>

Next == WorldStep \/ MonitorStep \/ HandlerStep \/ BotStep \/ Crash

Spec == Init /\ [][Next]_vars

-----------------------------------------------------------------------------
(* Fairness.  The tasks run on tokio's worker threads, so each one that can *)
(* take a step eventually does.  Calls over the network return, and while   *)
(* one may fail any number of times, it does not fail for ever.             *)

Others(c) == UNCHANGED <<handlerVars, botVars, crashes>>

MonitorFairness ==
  /\ \A c \in Chains : WF_vars(SharedStep(c) /\ Others(c))
  /\ WF_vars(TronNextStep /\ Others("tron")) /\ WF_vars(BscNextStep /\ Others("bsc"))
  /\ \A e \in Exchanges : SF_vars(TronQuery(e) /\ Others("tron"))
  /\ SF_vars(BscLogs /\ Others("bsc"))
  /\ SF_vars(BeginPass("bsc") /\ monitor'["bsc"].ripe = mature /\ Others("bsc"))

HandlerFairness == WF_vars(HandlerStep)

\* The operator need not give commands, but a command once given is carried out.
BotFairness ==
  WF_vars(/\ AmountsGet \/ AmountsPut \/ BotStatusGet \/ BotStatusPut
          /\ UNCHANGED <<monitorVars, handlerVars, crashes>>)

\* tokio's channel gives a free slot to the sender that has waited longest, so
\* no sender is passed over for ever.
ChannelFairness ==
  /\ \A c \in Chains : SF_vars(SendStep(c) /\ Others(c))
  /\ SF_vars(BotSend /\ UNCHANGED <<monitorVars, handlerVars, crashes>>)

FairSpec ==
  Spec /\ MonitorFairness /\ HandlerFairness /\ BotFairness /\ ChannelFairness

-----------------------------------------------------------------------------
(* Properties.                                                              *)

\* Every deposit address belongs to one exchange, as AddressAllocation shows
\* for requests that do not overlap.
UniqueAddresses ==
  \A e, f \in Exchanges : DepositAddress[e] = DepositAddress[f] => e = f

\* A transaction on a token chain triggers at most one BTC payout, however the
\* scans, the emission of recorded deposits and restarts interleave: the entry
\* in tx_hashes is durable before the event is handed over (monitor.rs).
PaidOncePerTransaction ==
  \A i, j \in 1..Len(payouts) :
    /\ payouts[i].src = "monitor" /\ payouts[j].src = "monitor"
    /\ HashOf[payouts[i].transfer] = HashOf[payouts[j].transfer]
    => i = j

\* An exchange is paid at most once, and once more for each command that has
\* touched it, even when several matching transfers reach its address or the
\* node restarts between the payout and the status "sent": its status leaves
\* "pending" before the BTC does, and only a command that read it as pending
\* can put it back, for as long as it takes to set it again (main.rs,
\* find_exchange_by_address; telegram_bot.rs, set_exchange_amounts).
PaidOncePerExchange ==
  \A e \in Exchanges :
    Cardinality({i \in 1..Len(payouts) : payouts[i].exchange = e})
      <= IF e \in touched THEN 1 + resolves ELSE 1

\* An exchange for which BTC has left is not open to further deposits, except
\* while a command is half-way through rewriting its record, or after the node
\* has stopped there (telegram_bot.rs, between the two writes of a command).
PaidStaysClosed ==
  \A i \in 1..Len(payouts) :
    LET e == payouts[i].exchange IN
    Pending(e) => e \in touched /\ (bot.ex = e \/ crashes > 0)

\* With one exchange per address, BTC leaves for an exchange no command has
\* touched only against a transfer to its own address that is within the
\* tolerance of what was asked, although scan_bsc looks the exchange up twice
\* and skips the comparison when the second look-up finds nothing.
PayoutIsCovered ==
  UniqueAddresses =>
    \A i \in 1..Len(payouts) :
      LET p == payouts[i] IN
      p.exchange \notin touched =>
        /\ p.transfer # NoTransfer
        /\ TransferTo[p.transfer] = DepositAddress[p.exchange]
        /\ ~Mismatch(TransferAmount[p.transfer], Asked[p.exchange])

\* A hash is never marked processed and forgotten: unless the node has stopped
\* in between, it was put under review, was sent to the handler, or is about
\* to be (monitor.rs marks it before it sends).
ProcessedIsAccountedFor ==
  \A h \in processed :
    \/ reviews[h] # {}
    \/ \E t \in sent : HashOf[t] = h
    \/ \E c \in Chains : At(c, "send") /\ HashOf[monitor[c].cur] = h
    \/ crashes > 0

\* With one exchange per address, a transfer that is under review has triggered
\* no payout of an exchange no command has touched: a deposit is either
\* reviewed or paid, also when the node stops between the review and tx_hashes.
ReviewedIsNotPaid ==
  UniqueAddresses =>
    \A i \in 1..Len(payouts) :
      LET p == payouts[i] IN
      p.src = "monitor" /\ p.exchange \notin touched =>
        \A r \in reviews[HashOf[p.transfer]] : r.transfer # p.transfer

Rank(s) == CASE s = "absent"           -> 0
             [] s = "pending"          -> 1
             [] s = "deposit_detected" -> 2
             [] s = "sending"          -> 3
             [] OTHER                  -> 4

\* The status of an exchange no command has touched only moves forward, and
\* "sent" and "error" are final, across restarts and duplicate deposits.
StatusMovesForward ==
  [][\A e \in Exchanges \ touched' :
       LET s == exchanges[e].status  s2 == exchanges'[e].status
       IN  s2 = s \/ Rank(s) < Rank(s2)]_vars

\* Unless the node has stopped, an exchange no command has touched that shows
\* "deposit_detected" or "sending" is in the handler's hands.
InProgressIsHeld ==
  \A e \in Exchanges \ touched :
    exchanges[e].status \in {"deposit_detected", "sending"} =>
      handler.ex = e \/ crashes > 0

-----------------------------------------------------------------------------
(* Liveness, under FairSpec.                                                *)

\* What the channel holds, deposits and commands, is taken off it to the last
\* event, whatever the look-ups find and the payouts return.
QueueDrains == queue # <<>> ~> queue = <<>>

\* A monitor or a command that waits for room in the channel gets it, also
\* when the other senders come back for more: the handler never waits for any
\* of them.
SendersAreServed ==
  /\ \A c \in Chains : At(c, "send") ~> ~At(c, "send")
  /\ bot.pc = "send" ~> bot.pc # "send"

\* An exchange that is being paid reaches "sent" or "error", as long as the
\* node keeps running and no command interferes.
SendingSettles == \A e \in Exchanges :
  exchanges[e].status = "sending"
    ~> (exchanges[e].status \in {"sent", "error"} \/ crashes > 0 \/ e \in touched)

\* A mature transfer to the address of an exchange that is pending and has not
\* expired ends up in tx_hashes, or the exchange stops being open.
MatureIsProcessed == \A t \in Transfers, e \in Exchanges :
  (t \in mature /\ TransferTo[t] = DepositAddress[e] /\ TransferChain[t] = ExchangeChain[e]
     /\ Pending(e) /\ e \notin expired)
    ~> (HashOf[t] \in processed \/ ~Pending(e) \/ e \in expired)

-----------------------------------------------------------------------------
(* What the pages and messages of the program say; runs refute it.          *)

\* templates/exchange.html says of "pending": the system will automatically
\* forward BTC.  So a pending exchange whose mature, matching deposit was sent
\* to the handler does not stay pending.
DepositIsForwarded == \A t \in Transfers, e \in Exchanges :
  (t \in sent /\ TransferTo[t] = DepositAddress[e] /\ Pending(e))
    ~> ~Pending(e)

\* The bot answers a Resolve button with: Deposit event sent for processing;
\* and templates/exchange.html says of "deposit_detected": BTC is being
\* prepared for transfer.  So an exchange that shows that status is paid, or
\* shows that this failed.
DetectedIsPrepared == \A e \in Exchanges :
  exchanges[e].status = "deposit_detected"
    ~> exchanges[e].status \in {"sending", "sent", "error"}
=============================================================================
