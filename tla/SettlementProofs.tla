--------------------------- MODULE SettlementProofs ---------------------------
(***************************************************************************)
(* Proofs about the money of a node: where every payout comes from, that   *)
(* its deposit covers it, and that Node implements Settlement.             *)
(***************************************************************************)
EXTENDS NodeProofs, NodeSettlement

-----------------------------------------------------------------------------
(* What no step undoes.                                                     *)

LEMMA BotKeeps ==
  ASSUME TypeInv, ClaimInv, BotStep, NEW e \in Exchanges
  PROVE  /\ touched \subseteq touched'
         /\ exchanges[e].status # "absent" => exchanges'[e].status # "absent"
         /\ ClosedForGood(e) => ClosedForGood(e)'
<1> DEFINE x == bot.ex
<1>1. CASE AmountsPut
  <2>1. /\ touched' = touched /\ bot.pc = "amountsPut" /\ x \in Exchanges
        /\ bot.copy.status # "absent" /\ bot'.pc = "statusGet"
        /\ exchanges' = [exchanges EXCEPT ![x] = [bot.copy EXCEPT !.usdt = bot.amount]]
        BY <1>1, ClaimTypes DEF AmountsPut, BotLocal, BotRecord, PutExchange, ClaimInv, HandsInv
  <2>2. /\ exchanges'[x].status = bot.copy.status
        /\ \A f \in Exchanges \ {x} : exchanges'[f] = exchanges[f]
        BY <2>1, ClaimTypes DEF BotRecord, ExchangeRecord
  <2>3. QED
        BY <2>1, <2>2 DEF ClosedForGood, Reopens
<1>2. CASE BotStatusPut
  <2>1. /\ touched' = touched /\ x \in Exchanges /\ bot'.pc = "send"
        /\ exchanges' = [exchanges EXCEPT ![x] = [bot.copy EXCEPT !.status = "deposit_detected"]]
        BY <1>2, ClaimTypes DEF BotStatusPut, BotLocal, BotRecord, PutExchange
  <2>2. /\ exchanges'[x].status = "deposit_detected"
        /\ \A f \in Exchanges \ {x} : exchanges'[f] = exchanges[f]
        BY <2>1, ClaimTypes DEF BotRecord, ExchangeRecord
  <2>3. QED
        BY <2>1, <2>2 DEF ClosedForGood, Reopens
<1>3. CASE AmountsGet
  <2>1. /\ UNCHANGED <<exchanges, touched>> /\ bot.pc = "amountsGet" /\ bot'.ex = bot.ex
        BY <1>3, ClaimTypes DEF AmountsGet, BotLocal, database, BotRecord
  <2>2. QED
        BY <2>1 DEF ClosedForGood, Reopens
<1>4. CASE BotStatusGet \/ BotSend
  <2>1. UNCHANGED <<exchanges, touched>> /\ bot'.pc \notin {"amountsGet", "amountsPut"}
    <3>1. CASE BotStatusGet
          BY <3>1, ClaimTypes DEF BotStatusGet, BotLocal, database, BotRecord
    <3>2. CASE BotSend
          BY <3>2 DEF BotSend, BotLocal, database, IdleBot
    <3>3. QED
          BY <1>4, <3>1, <3>2
  <2>2. QED
        BY <2>1 DEF ClosedForGood, Reopens
<1>5. ASSUME NEW h \in Hashes, NEW f \in Exchanges, ResolveReview(h, f)
      PROVE  /\ touched \subseteq touched' /\ UNCHANGED exchanges
             /\ ClosedForGood(e) => ClosedForGood(e)'
  <2>1. PICK r \in reviews[h] :
          /\ f \in FindByAddress(TransferTo[r.transfer])
          /\ Accept([IdleBot EXCEPT !.pc = "amountsGet", !.ex = f, !.transfer = r.transfer,
                                    !.amount = TransferAmount[r.transfer]])
        BY <1>5 DEF ResolveReview
  <2>2. /\ exchanges[f].status = "pending" /\ UNCHANGED exchanges
        /\ bot'.ex = f /\ touched \subseteq touched'
        BY <2>1 DEF Accept, database, IdleBot, FindByAddress, First, Pending
  <2>3. QED
        BY <2>2 DEF ClosedForGood, Reopens
<1>6. ASSUME NEW f \in Exchanges, ResolveExchange(f)
      PROVE  /\ touched \subseteq touched' /\ UNCHANGED exchanges
             /\ ClosedForGood(e) => ClosedForGood(e)'
  <2>1. bot'.pc = "statusGet" /\ UNCHANGED exchanges /\ touched \subseteq touched'
        BY <1>6 DEF ResolveExchange, Accept, database, IdleBot
  <2>2. QED
        BY <2>1 DEF ClosedForGood, Reopens
<1>7. QED
      BY <1>1, <1>2, <1>3, <1>4, <1>5, <1>6 DEF BotStep, BotNext

\* Touched exchanges stay so, created ones stay in the tree, and an exchange
\* that is closed with no command at work on it is not opened again.
LEMMA StepKeeps ==
  ASSUME TypeInv, ClaimInv, [Next]_vars, NEW e \in Exchanges
  PROVE  /\ touched \subseteq touched'
         /\ exchanges[e].status # "absent" => exchanges'[e].status # "absent"
         /\ ClosedForGood(e) => ClosedForGood(e)'
<1>1. ASSUME NEW f \in Exchanges, CreateExchange(f), UNCHANGED <<bot, touched>>
      PROVE  /\ touched \subseteq touched'
             /\ exchanges[e].status # "absent" => exchanges'[e].status # "absent"
             /\ ClosedForGood(e) => ClosedForGood(e)'
  <2>1. /\ exchanges[f].status = "absent" /\ exchanges'[f].status = "pending"
        /\ \A g \in Exchanges \ {f} : exchanges'[g] = exchanges[g]
        BY <1>1, ClaimTypes DEF CreateExchange, PutExchange
  <2>2. QED
        BY <1>1, <2>1 DEF ClosedForGood, Reopens
<1>2. CASE HandlerStep
  <2>0. UNCHANGED <<bot, touched>>
        BY <1>2 DEF HandlerStep, botVars
  <2>1. CASE StatusPut
    <3> DEFINE x == handler.ex
    <3>1. /\ handler.pc = "put" /\ x \in Exchanges
          /\ handler.goal \in {"deposit_detected", "sending", "sent", "error"}
          /\ exchanges'[x].status = handler.goal
          /\ \A f \in Exchanges \ {x} : exchanges'[f] = exchanges[f]
          BY <2>1, ClaimTypes DEF StatusPut, PutExchange, Goals, HandlerRecord, ExchangeRecord
    <3>2. QED
          BY <2>0, <3>1 DEF ClosedForGood, Reopens
  <2>2. CASE ~StatusPut
    <3>1. UNCHANGED exchanges
          BY <1>2, <2>2 DEF HandlerStep, HandlerNext, Receive, Find, FindNone, StatusGet, Pay,
                            AddDeposit, database
    <3>2. QED
          BY <2>0, <3>1 DEF ClosedForGood, Reopens
  <2>3. QED
        BY <2>1, <2>2
<1>3. CASE Crash
  <2>1. UNCHANGED <<exchanges, touched>> /\ bot'.pc = "idle"
        BY <1>3 DEF Crash, database, IdleBot
  <2>2. QED
        BY <2>1 DEF ClosedForGood, Reopens
<1>4. CASE UNCHANGED exchangeVars
      BY <1>4 DEF exchangeVars, ClosedForGood, Reopens
<1>5. QED
      BY <1>1, <1>2, <1>3, <1>4, StepKinds, BotKeeps

\* So what is said below of a transfer stays true.
LEMMA CoverStays ==
  ASSUME TypeInv, ClaimInv, [Next]_vars
  PROVE  /\ \A t, e : Covers(t, e) => Covers(t, e)'
         /\ \A t : Eligible(t) => Eligible(t)'
         /\ \A event : EventCover(event) => EventCover(event)'
         /\ \A p : PayoutCover(p) => PayoutCover(p)'
         /\ \A r : ReviewCover(r) => ReviewCover(r)'
<1>1. touched \subseteq touched'
  <2>1. ASSUME NEW e \in touched PROVE e \in touched'
    <3>1. e \in Exchanges
          BY ClaimTypes
    <3>2. QED
          BY <3>1, StepKeeps
  <2>2. QED
        BY <2>1
<1>2. \A t, e : Covers(t, e) => Covers(t, e)'
      BY <1>1 DEF Covers
<1>3. ASSUME NEW e \in Exchanges, exchanges[e].status \notin {"absent", "pending"}
      PROVE  exchanges'[e].status \notin {"absent", "pending"} \/ e \in touched'
  <2>1. ASSUME e \notin touched'
        PROVE  exchanges'[e].status \notin {"absent", "pending"}
    <3>1. Rank(exchanges[e].status) >= 2 /\ Rank(exchanges[e].status) \in Int
          BY <1>3 DEF Rank
    <3>2. \/ exchanges'[e].status = exchanges[e].status
          \/ Rank(exchanges[e].status) < Rank(exchanges'[e].status)
          BY <2>1, StepForward
    <3>3. QED
          BY <1>3, <3>1, <3>2 DEF Rank
  <2>2. QED
        BY <2>1
<1>4. \A t : Eligible(t) => Eligible(t)'
      BY <1>2, <1>3 DEF Eligible, Covers
<1>5. \A event : EventCover(event) => EventCover(event)'
      BY <1>4, StepKeeps DEF EventCover
<1>6. \A p : PayoutCover(p) => PayoutCover(p)'
      BY <1>2 DEF PayoutCover
<1>7. \A r : ReviewCover(r) => ReviewCover(r)'
      BY <1>1 DEF ReviewCover
<1>8. QED
      BY <1>2, <1>4, <1>5, <1>6, <1>7

-----------------------------------------------------------------------------
(* Origin and cover, along the steps of the monitors.                       *)

LEMMA InitOrigin == Init => OriginInv /\ CoverInv
<1> SUFFICES ASSUME Init PROVE OriginInv /\ CoverInv
    OBVIOUS
<1> USE DEF Init, StoreInit, MonitorInit, HandlerInit, BotInit, IdleHandler, IdleMonitor
<1>1. \A c \in Chains : MonitorOrigin(monitor[c])
      BY DEF MonitorOrigin
<1>2. \A i : i \notin 1..Len(queue) /\ i \notin 1..Len(payouts)
      OBVIOUS
<1>3. ProcessedIsAccountedFor
      BY DEF ProcessedIsAccountedFor
<1>4. OriginInv
      BY <1>1, <1>2, <1>3 DEF OriginInv
<1>5. HandlerCover
      BY DEF HandlerCover
<1>6. CoverInv
  <2>1. \A c \in Chains : MonitorCover(c, monitor[c])
        BY DEF MonitorCover
  <2>2. \A h \in Hashes : reviews[h] = {}
        OBVIOUS
  <2>3. QED
        BY <1>2, <1>5, <2>1, <2>2 DEF CoverInv
<1>7. QED
      BY <1>4, <1>6

LEMMA MonitorFrames ==
  ASSUME MonitorStep
  PROVE  UNCHANGED <<exchanges, handler, payouts, bot, touched, crashes, arrived>>
<1>1. UNCHANGED arrived
      BY DEF MonitorStep, MonitorNext, SharedStep, BeginPass, EmitPending, EmitDirect, MarkStep,
             SendStep, ReviewedStep, TronNextStep, TronList, TronQuery, TronNoData, TronReply,
             TronQueryFails, TronSkip, TronReview, TronRecord, TronEnd, BscNextStep, BscLogs,
             BscLogsFail, BscSkip, BscFound, BscReview, BscRecord, BscDeep, BscShallow, BscEnd, world
<1>2. QED
      BY <1>1, MonitorLeaves DEF exchangeVars

\* A step of the monitor of c, which may record, review, mark or send.
LEMMA PassStep ==
  ASSUME TypeInv, OriginInv, CoverInv, MonitorStep, NEW c \in Chains,
         \A d \in Chains \ {c} : monitor'[d] = monitor[d],
         MonitorOrigin(monitor[c])', UniqueAddresses => MonitorCover(c, monitor[c])',
         sent \subseteq sent', sent' \subseteq arrived,
         \A h \in Hashes : pendingTx'[h] \subseteq arrived,
         \A h \in Hashes : reviews[h] # {} => reviews'[h] # {},
         UniqueAddresses => \A h \in Hashes : \A r \in reviews'[h] : ReviewCover(r),
         \/ queue' = queue
         \/ \E event \in Event : /\ queue' = Append(queue, event) /\ FromTransfer(event)
                                 /\ UniqueAddresses => EventCover(event),
         \A h \in processed' : \/ h \in processed
                               \/ reviews'[h] # {}
                               \/ At(c, "send")' /\ HashOf[monitor'[c].cur] = h,
         At(c, "send") => monitor[c].cur \in sent'
  PROVE  OriginInv' /\ CoverInv'
<1>1. UNCHANGED <<exchanges, handler, payouts, bot, touched, crashes>>
      BY MonitorFrames
<1>2. UNCHANGED arrived
      BY MonitorFrames
<1>3. ASSUME NEW d \in Chains \ {c}
      PROVE  MonitorOrigin(monitor[d])' /\ (UniqueAddresses => MonitorCover(d, monitor[d])')
  <2>1. monitor'[d] = monitor[d] /\ MonitorOrigin(monitor[d])
        BY DEF OriginInv
  <2>2. monitor[d].pc = "reviewed" => HashOf[monitor[d].cur] \in Hashes
        BY TransferAssumption DEF TypeInv, MonitorInv, MonitorCursor
  <2>3. MonitorOrigin(monitor[d])'
        BY <1>2, <2>1, <2>2 DEF MonitorOrigin
  <2>4. UniqueAddresses => MonitorCover(d, monitor[d])
        BY DEF CoverInv
  <2>5. QED
        BY <1>1, <2>1, <2>3, <2>4 DEF MonitorCover, ListedAsAsked, Eligible, Covers
<1>4. \A i \in 1..Len(queue') :
        /\ FromTransfer(queue'[i])
        /\ UniqueAddresses => EventCover(queue'[i])
  <2>1. queue \in Seq(Event)
        BY DEF TypeInv, StoreTypeOK
  <2>2. \A i \in 1..Len(queue) :
          FromTransfer(queue[i]) /\ (UniqueAddresses => EventCover(queue[i]))
        BY DEF OriginInv, CoverInv
  <2>3. ASSUME NEW event \in Event, queue' = Append(queue, event), NEW i \in 1..Len(queue')
        PROVE  queue'[i] = event \/ (i \in 1..Len(queue) /\ queue'[i] = queue[i])
        BY <2>1, <2>3
  <2>4. QED
        BY <2>2, <2>3
<1>5. ProcessedIsAccountedFor'
  <2>1. ASSUME NEW h \in processed
        PROVE  \/ reviews'[h] # {}
               \/ \E t \in sent' : HashOf[t] = h
               \/ \E d \in Chains : At(d, "send")' /\ HashOf[monitor'[d].cur] = h
               \/ crashes' > 0
    <3>1. h \in Hashes
          BY DEF TypeInv, StoreTypeOK
    <3>2. \/ reviews[h] # {}
          \/ \E t \in sent : HashOf[t] = h
          \/ \E d \in Chains : At(d, "send") /\ HashOf[monitor[d].cur] = h
          \/ crashes > 0
          BY DEF OriginInv, ProcessedIsAccountedFor
    <3>3. ASSUME NEW d \in Chains, At(d, "send"), HashOf[monitor[d].cur] = h
          PROVE  \/ \E t \in sent' : HashOf[t] = h
                 \/ At(d, "send")' /\ HashOf[monitor'[d].cur] = h
          BY <3>3 DEF At
    <3>4. QED
          BY <1>1, <3>1, <3>2, <3>3
  <2>2. QED
        BY <2>1 DEF ProcessedIsAccountedFor
<1>6. OriginInv'
      BY <1>1, <1>2, <1>3, <1>4, <1>5 DEF OriginInv, FromTransfer
<1>7. ASSUME UniqueAddresses PROVE CoverInv'
  <2>1. \A d \in Chains : MonitorCover(d, monitor[d])'
        BY <1>3, <1>7
  <2>2. \A i \in 1..Len(queue') : EventCover(queue[i])'
        BY <1>1, <1>4, <1>7 DEF EventCover, Eligible, Covers, ClosedForGood, Reopens
  <2>3. HandlerCover'
        BY <1>1, <1>7 DEF CoverInv, HandlerCover, EventCover, Eligible, Covers, ClosedForGood,
                          Reopens
  <2>4. \A i \in 1..Len(payouts') : PayoutCover(payouts[i])'
        BY <1>1, <1>7 DEF CoverInv, PayoutCover, Covers
  <2>5. \A h \in Hashes : \A r \in reviews'[h] : ReviewCover(r)'
        BY <1>1, <1>7 DEF ReviewCover
  <2>6. QED
        BY <2>1, <2>2, <2>3, <2>4, <2>5 DEF CoverInv
<1>8. CoverInv'
  <2>1. ~UniqueAddresses => CoverInv'
        BY DEF CoverInv, UniqueAddresses
  <2>2. QED
        BY <1>7, <2>1
<1>9. QED
      BY <1>6, <1>8

\* A step of the monitor of c that changes its locals only.
LEMMA QuietPass ==
  ASSUME TypeInv, OriginInv, CoverInv, MonitorStep, NEW c \in Chains,
         \A d \in Chains \ {c} : monitor'[d] = monitor[d],
         MonitorOrigin(monitor[c])', UniqueAddresses => MonitorCover(c, monitor[c])',
         UNCHANGED <<processed, pendingTx, reviews, queue, sent>>, ~At(c, "send")
  PROVE  OriginInv' /\ CoverInv'
<1>1. \A h \in Hashes : pendingTx'[h] \subseteq arrived
      BY DEF OriginInv
<1>2. sent' \subseteq arrived
      BY DEF OriginInv
<1>3. UniqueAddresses => \A h \in Hashes : \A r \in reviews'[h] : ReviewCover(r)
      BY DEF CoverInv
<1>4. QED
      BY <1>1, <1>2, <1>3, PassStep

\* What the locals of a monitor are known to be.
LEMMA PassFacts ==
  ASSUME TypeInv, OriginInv, CoverInv, NEW c \in Chains
  PROVE  /\ monitor[c] \in MonitorRecord /\ MonitorCursor(c, monitor[c])
         /\ monitor \in [Chains -> MonitorRecord]
         /\ MonitorOrigin(monitor[c]) /\ (UniqueAddresses => MonitorCover(c, monitor[c]))
         /\ \A t \in Transfers : HashOf[t] \in Hashes
         /\ sent \subseteq arrived /\ arrived \subseteq Transfers
         /\ pendingTx \in [Hashes -> SUBSET Transfers]
         /\ reviews \in [Hashes -> SUBSET ReviewRecord]
         /\ \A h \in Hashes : pendingTx[h] \subseteq arrived
         /\ UniqueAddresses => \A h \in Hashes : \A r \in reviews[h] : ReviewCover(r)
BY TransferAssumption DEF TypeInv, MonitorInv, MonitorTypeOK, StoreTypeOK, OriginInv, CoverInv

LEMMA SharedOrigin ==
  ASSUME TypeInv, OriginInv, CoverInv, MonitorStep, NEW c \in Chains, SharedStep(c)
  PROVE  OriginInv' /\ CoverInv'
<1> DEFINE m == monitor[c]
<1>1. CASE BeginPass(c)
  <2>1. PICK ripe \in {mature} \cup (IF c = "bsc" THEN {{}} ELSE {}) :
          Local(c, [IdleMonitor EXCEPT !.pc = "emit", !.ripe = ripe, !.ready = Ready(c, ripe)])
        BY <1>1 DEF BeginPass
  <2>2. /\ monitor'[c].pc = "emit" /\ monitor'[c].ready = Ready(c, ripe)
        /\ monitor'[c].todo = {} /\ monitor'[c].visit = {}
        /\ \A d \in Chains \ {c} : monitor'[d] = monitor[d]
        BY <2>1, PassFacts DEF Local, IdleMonitor
  <2>3. ripe \subseteq Transfers
        BY <2>1 DEF TypeInv, StoreTypeOK
  <2>4. Ready(c, ripe) \subseteq arrived
        BY <2>3, PassFacts DEF Ready
  <2>5. MonitorOrigin(monitor[c])' /\ MonitorCover(c, monitor[c])'
        BY <2>2, <2>4, MonitorFrames DEF MonitorOrigin, MonitorCover
  <2>6. UNCHANGED <<processed, pendingTx, reviews, queue, sent>> /\ ~At(c, "send")
        BY <1>1 DEF BeginPass, database, At
  <2>7. QED
        BY <2>2, <2>5, <2>6, QuietPass
<1>2. ASSUME NEW t \in Transfers, EmitPending(c, t) PROVE OriginInv' /\ CoverInv'
  <2>1. /\ monitor'[c].pc = "mark" /\ monitor'[c].cur = t /\ ~monitor'[c].known
        /\ monitor'[c].ready = m.ready \ {t} /\ monitor'[c].todo = m.todo
        /\ monitor'[c].visit = m.visit /\ monitor'[c].expected = m.expected
        /\ \A d \in Chains \ {c} : monitor'[d] = monitor[d]
        BY <1>2, PassFacts DEF Local, EmitPending, MonitorRecord
  <2>2. /\ UNCHANGED <<processed, pendingTx, reviews, queue, sent>> /\ t \in m.ready
        /\ m.pc = "emit"
        BY <1>2 DEF EmitPending, At
  <2>3. MonitorOrigin(monitor[c])'
        BY <2>1, <2>2, PassFacts, MonitorFrames DEF MonitorOrigin
  <2>4. UniqueAddresses => MonitorCover(c, monitor[c])'
        BY <2>1, <2>2, PassFacts, MonitorFrames DEF MonitorCover, ListedAsAsked
  <2>5. QED
        BY <2>1, <2>2, <2>3, <2>4, QuietPass DEF At
<1>3. CASE EmitDirect(c)
  <2>1. /\ monitor'[c].pc = "mark" /\ monitor'[c].cur = m.cur /\ monitor'[c].known
        /\ monitor'[c].ready = m.ready /\ monitor'[c].todo = m.todo
        /\ monitor'[c].visit = m.visit /\ monitor'[c].expected = m.expected
        /\ monitor'[c].at = m.at
        /\ \A d \in Chains \ {c} : monitor'[d] = monitor[d]
        BY <1>3, PassFacts DEF Local, EmitDirect, MonitorRecord
  <2>2. UNCHANGED <<processed, pendingTx, reviews, queue, sent>> /\ m.pc = "confirm"
        BY <1>3 DEF EmitDirect, At
  <2>3. MonitorOrigin(monitor[c])'
        BY <2>1, <2>2, PassFacts, MonitorFrames DEF MonitorOrigin
  <2>4. UniqueAddresses => MonitorCover(c, monitor[c])'
        BY <2>1, <2>2, PassFacts, MonitorFrames DEF MonitorCover, ListedAsAsked, Eligible, Covers
  <2>5. QED
        BY <2>1, <2>2, <2>3, <2>4, QuietPass DEF At
<1>4. CASE MarkStep(c)
  <2>1. /\ monitor'[c].pc = "send" /\ monitor'[c].cur = m.cur /\ monitor'[c].known = m.known
        /\ monitor'[c].ready = m.ready /\ monitor'[c].todo = m.todo
        /\ monitor'[c].visit = m.visit /\ monitor'[c].expected = m.expected
        /\ monitor'[c].at = m.at
        /\ \A d \in Chains \ {c} : monitor'[d] = monitor[d]
        BY <1>4, PassFacts DEF Local, MarkStep, MonitorRecord
  <2>2. /\ UNCHANGED <<pendingTx, reviews, queue, sent>> /\ m.pc = "mark"
        /\ processed' = processed \cup {HashOf[m.cur]}
        BY <1>4 DEF MarkStep, MarkProcessed, At
  <2>3. MonitorOrigin(monitor[c])'
        BY <2>1, <2>2, PassFacts, MonitorFrames DEF MonitorOrigin
  <2>4. UniqueAddresses => MonitorCover(c, monitor[c])'
        BY <2>1, <2>2, PassFacts, MonitorFrames DEF MonitorCover, ListedAsAsked, Eligible, Covers
  <2>5. QED
        BY <2>1, <2>2, <2>3, <2>4, PassFacts, PassStep DEF At
<1>5. CASE SendStep(c)
  <2> DEFINE event == DepositOf(m.cur, m.known)
  <2>1. m.pc = "send" /\ m.cur \in Transfers /\ m.cur \in arrived
        BY <1>5, PassFacts DEF SendStep, At, MonitorCursor, MonitorOrigin
  <2>2. /\ monitor'[c].pc = IF m.known THEN "scan" ELSE "emit"
        /\ monitor'[c].ready = m.ready /\ monitor'[c].todo = m.todo
        /\ monitor'[c].visit = m.visit /\ monitor'[c].expected = m.expected
        /\ monitor'[c].at = m.at
        /\ \A d \in Chains \ {c} : monitor'[d] = monitor[d]
        BY <1>5, PassFacts DEF Local, SendStep, MonitorRecord
  <2>3. /\ UNCHANGED <<processed, pendingTx, reviews>> /\ sent' = sent \cup {m.cur}
        /\ queue' = Append(queue, event)
        BY <1>5 DEF SendStep, Enqueue, database
  <2>4. MonitorOrigin(monitor[c])'
        BY <2>2, <2>3, PassFacts, MonitorFrames DEF MonitorOrigin
  <2>5. UniqueAddresses => MonitorCover(c, monitor[c])'
        BY <2>1, <2>2, <2>3, PassFacts, MonitorFrames DEF MonitorCover, ListedAsAsked
  <2>6. event \in Event /\ FromTransfer(event)
        BY <2>1, TransferAssumption DEF DepositOf, Event, FromTransfer
  <2>7. UniqueAddresses => EventCover(event)
        BY <2>1, PassFacts DEF MonitorCover, EventCover, DepositOf
  <2> HIDE DEF event
  <2>8. QED
        BY <2>1, <2>2, <2>3, <2>4, <2>5, <2>6, <2>7, PassFacts, PassStep
<1>6. CASE ReviewedStep(c)
  <2>1. /\ monitor'[c].pc = "scan"
        /\ monitor'[c].ready = m.ready /\ monitor'[c].todo = m.todo
        /\ monitor'[c].visit = m.visit /\ monitor'[c].expected = m.expected
        /\ monitor'[c].at = m.at
        /\ \A d \in Chains \ {c} : monitor'[d] = monitor[d]
        BY <1>6, PassFacts DEF Local, ReviewedStep, MonitorRecord
  <2>2. /\ UNCHANGED <<pendingTx, reviews, queue, sent>> /\ m.pc = "reviewed"
        /\ processed' = processed \cup {HashOf[m.cur]}
        BY <1>6 DEF ReviewedStep, MarkProcessed, At
  <2>3. MonitorOrigin(monitor[c])' /\ reviews'[HashOf[m.cur]] # {}
        BY <2>1, <2>2, PassFacts, MonitorFrames DEF MonitorOrigin
  <2>4. UniqueAddresses => MonitorCover(c, monitor[c])'
        BY <2>1, <2>2, PassFacts, MonitorFrames DEF MonitorCover, ListedAsAsked
  <2>5. QED
        BY <2>1, <2>2, <2>3, <2>4, PassFacts, PassStep DEF At
<1>7. QED
      BY <1>1, <1>2, <1>3, <1>4, <1>5, <1>6 DEF SharedStep

LEMMA IdlePass ==
  ASSUME TypeInv, OriginInv, CoverInv, MonitorStep, NEW c \in Chains, EndPass(c),
         UNCHANGED <<processed, pendingTx, reviews, queue, sent>>, ~At(c, "send")
  PROVE  OriginInv' /\ CoverInv'
<1>1. /\ monitor'[c] = IdleMonitor /\ \A d \in Chains \ {c} : monitor'[d] = monitor[d]
      BY PassFacts DEF EndPass, Local
<1>2. MonitorOrigin(monitor[c])' /\ MonitorCover(c, monitor[c])'
      BY <1>1 DEF MonitorOrigin, MonitorCover, IdleMonitor
<1>3. QED
      BY <1>1, <1>2, QuietPass

\* A deposit goes under review for the exchange its recipient belongs to.
LEMMA ReviewStep ==
  ASSUME TypeInv, OriginInv, CoverInv, MonitorStep, NEW c \in Chains,
         \A d \in Chains \ {c} : monitor'[d] = monitor[d],
         UNCHANGED <<processed, pendingTx, queue, sent>>, ~At(c, "send"),
         NEW t \in arrived, NEW expected, AddManualReview(t, expected),
         UniqueAddresses => \E e \in Exchanges :
           /\ TransferTo[t] = DepositAddress[e]
           /\ e \in touched \/ Mismatch(TransferAmount[t], Asked[e]),
         monitor'[c].pc = "reviewed", monitor'[c].cur = t,
         monitor'[c].todo \cup monitor'[c].ready \subseteq arrived,
         UniqueAddresses => MonitorCover(c, monitor[c])'
  PROVE  OriginInv' /\ CoverInv'
<1>1. t \in Transfers /\ HashOf[t] \in Hashes
      BY PassFacts
<1>2. reviews' = [reviews EXCEPT ![HashOf[t]] = {[transfer |-> t, expected |-> expected]}]
      BY DEF AddManualReview
<1>3. /\ reviews'[HashOf[t]] = {[transfer |-> t, expected |-> expected]}
      /\ \A h \in Hashes \ {HashOf[t]} : reviews'[h] = reviews[h]
      BY <1>1, <1>2, PassFacts
<1>4. MonitorOrigin(monitor[c])'
      BY <1>3, MonitorFrames DEF MonitorOrigin
<1>5. ASSUME UniqueAddresses, NEW h \in Hashes, NEW r \in reviews'[h] PROVE ReviewCover(r)
  <2>1. CASE h # HashOf[t]
        BY <1>3, <1>5, <2>1, PassFacts
  <2>2. CASE h = HashOf[t]
    <3>1. r.transfer = t
          BY <1>3, <2>2
    <3>2. PICK e \in Exchanges :
            /\ TransferTo[t] = DepositAddress[e]
            /\ e \in touched \/ Mismatch(TransferAmount[t], Asked[e])
          BY <1>5
    <3>3. \A f \in Exchanges : DepositAddress[f] = TransferTo[t] => f = e
          BY <1>5, <3>2 DEF UniqueAddresses
    <3>4. QED
          BY <3>1, <3>2, <3>3 DEF ReviewCover
  <2>3. QED
        BY <2>1, <2>2
<1>6. \A h \in Hashes : reviews[h] # {} => reviews'[h] # {}
      BY <1>3
<1>7. QED
      BY <1>4, <1>5, <1>6, PassFacts, PassStep

\* A deposit is recorded.
LEMMA RecordStep ==
  ASSUME TypeInv, OriginInv, CoverInv, MonitorStep, NEW c \in Chains,
         \A d \in Chains \ {c} : monitor'[d] = monitor[d],
         UNCHANGED <<processed, reviews, queue, sent>>, ~At(c, "send"),
         NEW t \in arrived, AddPendingTx(t),
         MonitorOrigin(monitor[c])', UniqueAddresses => MonitorCover(c, monitor[c])'
  PROVE  OriginInv' /\ CoverInv'
<1>1. pendingTx' = [pendingTx EXCEPT ![HashOf[t]] = {t}]
      BY DEF AddPendingTx
<1>2. \A h \in Hashes : pendingTx'[h] \subseteq arrived
      BY <1>1, PassFacts
<1>3. QED
      BY <1>2, PassFacts, PassStep

LEMMA TronOrigin ==
  ASSUME TypeInv, ClaimInv, OriginInv, CoverInv, MonitorStep, TronNextStep
  PROVE  OriginInv' /\ CoverInv'
<1> DEFINE m == monitor["tron"]
<1>1. "tron" \in Chains
      BY DEF TronNextStep, TronList, TronQuery, TronNoData, TronReply, TronQueryFails, TronSkip,
             TronReview, TronRecord, TronNext, TronEnd, At
<1>2. CASE TronList
  <2> DEFINE listed == FirstN(PendingExchanges("tron"), MaxPending)
             asked == [e \in Exchanges |-> IF e \in listed THEN exchanges[e].usdt ELSE 0]
  <2>1. /\ monitor'["tron"].pc = "scan" /\ monitor'["tron"].ready = m.ready
        /\ monitor'["tron"].todo = m.todo
        /\ monitor'["tron"].visit = listed /\ monitor'["tron"].expected = asked
        /\ \A d \in Chains \ {"tron"} : monitor'[d] = monitor[d]
        BY <1>1, <1>2, PassFacts DEF Local, TronList, MonitorRecord
  <2>2. UNCHANGED <<processed, pendingTx, reviews, queue, sent>> /\ m.pc = "emit"
        BY <1>2 DEF TronList, database, At
  <2>3. MonitorOrigin(monitor["tron"])'
        BY <1>1, <2>1, <2>2, PassFacts, MonitorFrames DEF MonitorOrigin
  <2>4. ASSUME NEW e \in listed PROVE e \in touched \/ asked[e] = Asked[e]
    <3>1. e \in Exchanges /\ exchanges[e].status = "pending"
          BY DEF FirstN, PendingExchanges, Pending
    <3>2. QED
          BY <3>1 DEF ClaimInv, ClaimOf
  <2>5. UniqueAddresses => MonitorCover("tron", monitor["tron"])'
    <3> HIDE DEF asked, listed
    <3>1. UniqueAddresses => m.todo = {}
          BY <1>1, <2>2, PassFacts DEF MonitorCover
    <3>2. QED
          BY <2>1, <2>4, <3>1, MonitorFrames DEF MonitorCover, ListedAsAsked
  <2>6. QED
        BY <1>1, <2>1, <2>2, <2>3, <2>5, QuietPass DEF At
<1>3. ASSUME NEW e \in Exchanges, NEW reply \in SUBSET Page(DepositAddress[e]),
            TronReply(e, reply)
     PROVE  OriginInv' /\ CoverInv'
  <2>1. /\ monitor'["tron"].pc = "scan" /\ monitor'["tron"].ready = m.ready
        /\ monitor'["tron"].todo = reply /\ monitor'["tron"].at = e
        /\ monitor'["tron"].visit = m.visit \ {e} /\ monitor'["tron"].expected = m.expected
        /\ \A d \in Chains \ {"tron"} : monitor'[d] = monitor[d]
        BY <1>1, <1>3, PassFacts DEF Local, TronReply, At, MonitorRecord
  <2>2. /\ UNCHANGED <<processed, pendingTx, reviews, queue, sent>> /\ m.pc = "scan"
        /\ e \in m.visit
        BY <1>3 DEF TronReply, database, At, First
  <2>3. \A t \in reply : t \in arrived /\ TransferTo[t] = DepositAddress[e]
        BY DEF Page, OnChain
  <2>4. MonitorOrigin(monitor["tron"])'
        BY <1>1, <2>1, <2>2, <2>3, PassFacts, MonitorFrames DEF MonitorOrigin
  <2>5. UniqueAddresses => MonitorCover("tron", monitor["tron"])'
        BY <1>1, <2>1, <2>2, <2>3, PassFacts, MonitorFrames DEF MonitorCover, ListedAsAsked
  <2>6. QED
        BY <1>1, <2>1, <2>2, <2>4, <2>5, QuietPass DEF At
<1>4. CASE TronQueryFails \/ TronEnd
      BY <1>1, <1>4, IdlePass DEF TronQueryFails, TronEnd, database, At
<1>5. ASSUME NEW t \in Transfers, TronSkip(t) PROVE OriginInv' /\ CoverInv'
  <2>1. m.pc = "scan" /\ UNCHANGED <<processed, pendingTx, reviews, queue, sent>>
        BY <1>5 DEF TronSkip, TronNext, At, database
  <2>2. /\ monitor'["tron"].pc = "scan" /\ monitor'["tron"].ready = m.ready
        /\ monitor'["tron"].todo = m.todo \ {t} /\ monitor'["tron"].at = m.at
        /\ monitor'["tron"].visit = m.visit /\ monitor'["tron"].expected = m.expected
        /\ \A d \in Chains \ {"tron"} : monitor'[d] = monitor[d]
        BY <1>1, <1>5, <2>1, PassFacts DEF Local, TronSkip, MonitorRecord
  <2>3. MonitorOrigin(monitor["tron"])'
        BY <1>1, <2>2, PassFacts, MonitorFrames DEF MonitorOrigin
  <2>4. UniqueAddresses => MonitorCover("tron", monitor["tron"])'
        BY <1>1, <2>2, PassFacts, MonitorFrames DEF MonitorCover, ListedAsAsked
  <2>5. QED
        BY <1>1, <2>1, <2>2, <2>3, <2>4, QuietPass DEF At
<1>6. ASSUME NEW t \in Transfers, TronReview(t) PROVE OriginInv' /\ CoverInv'
  <2>1. /\ m.pc = "scan" /\ UNCHANGED <<processed, pendingTx, queue, sent>>
        /\ t \in m.todo /\ Mismatch(TransferAmount[t], m.expected[m.at])
        /\ AddManualReview(t, m.expected[m.at])
        BY <1>6 DEF TronReview, TronNext, At, database
  <2>2. /\ monitor'["tron"].pc = "reviewed" /\ monitor'["tron"].ready = m.ready
        /\ monitor'["tron"].cur = t
        /\ monitor'["tron"].todo = m.todo \ {t} /\ monitor'["tron"].at = m.at
        /\ monitor'["tron"].visit = m.visit /\ monitor'["tron"].expected = m.expected
        /\ \A d \in Chains \ {"tron"} : monitor'[d] = monitor[d]
        BY <1>1, <1>6, PassFacts DEF Local, TronReview, MonitorRecord
  <2>3. t \in arrived /\ m.at \in Exchanges /\ m.todo \cup m.ready \subseteq arrived
        BY <1>1, <2>1, PassFacts DEF MonitorOrigin, MonitorCursor
  <2>4. UniqueAddresses => MonitorCover("tron", monitor["tron"])'
        BY <1>1, <2>2, PassFacts, MonitorFrames DEF MonitorCover, ListedAsAsked
  <2>5. ASSUME UniqueAddresses
        PROVE  /\ TransferTo[t] = DepositAddress[m.at]
               /\ m.at \in touched \/ Mismatch(TransferAmount[t], Asked[m.at])
        BY <1>1, <2>1, <2>5, PassFacts DEF MonitorCover, ListedAsAsked
  <2>6. QED
        BY <1>1, <2>1, <2>2, <2>3, <2>4, <2>5, ReviewStep DEF At
<1>7. ASSUME NEW t \in Transfers, TronRecord(t) PROVE OriginInv' /\ CoverInv'
  <2>1. /\ m.pc = "scan" /\ UNCHANGED <<processed, reviews, queue, sent>>
        /\ t \in m.todo /\ ~Mismatch(TransferAmount[t], m.expected[m.at])
        /\ AddPendingTx(t)
        BY <1>7 DEF TronRecord, TronNext, At, database
  <2>2. /\ monitor'["tron"].pc \in {"scan", "confirm"}
        /\ monitor'["tron"].pc = "confirm" => monitor'["tron"].cur = t
        /\ monitor'["tron"].todo = m.todo \ {t} /\ monitor'["tron"].ready = m.ready
        /\ monitor'["tron"].visit = m.visit /\ monitor'["tron"].expected = m.expected
        /\ monitor'["tron"].at = m.at
        /\ \A d \in Chains \ {"tron"} : monitor'[d] = monitor[d]
    <3>1. CASE t \in m.ripe
          BY <1>1, <1>7, <2>1, <3>1, PassFacts DEF Local, TronRecord, MonitorRecord
    <3>2. CASE t \notin m.ripe
          BY <1>1, <1>7, <2>1, <3>2, PassFacts DEF Local, TronRecord, MonitorRecord
    <3>3. QED
          BY <3>1, <3>2
  <2>3. t \in arrived /\ m.at \in Exchanges
        BY <1>1, <2>1, PassFacts DEF MonitorOrigin, MonitorCursor
  <2>4. MonitorOrigin(monitor["tron"])'
        BY <1>1, <2>2, <2>3, PassFacts, MonitorFrames DEF MonitorOrigin
  <2>5. ASSUME UniqueAddresses PROVE Eligible(t)
    <3>1. TransferTo[t] = DepositAddress[m.at] /\ Covers(t, m.at)
          BY <1>1, <2>1, <2>5, PassFacts DEF MonitorCover, ListedAsAsked, Covers
    <3>2. \A e \in Exchanges : DepositAddress[e] = TransferTo[t] => e = m.at
          BY <2>3, <2>5, <3>1 DEF UniqueAddresses
    <3>3. QED
          BY <3>1, <3>2 DEF Eligible
  <2>6. ASSUME UniqueAddresses PROVE MonitorCover("tron", monitor["tron"])'
    <3>1. /\ \A e \in m.visit : ListedAsAsked(m, e)
          /\ m.todo # {} => ListedAsAsked(m, m.at)
          /\ \A u \in m.todo : TransferTo[u] = DepositAddress[m.at]
          BY <1>1, <2>6, PassFacts DEF MonitorCover
    <3>2. monitor'["tron"].pc = "confirm" => Eligible(monitor["tron"].cur)'
          BY <2>2, <2>5, <2>6, MonitorFrames DEF Eligible, Covers
    <3>3. QED
          BY <2>2, <3>1, <3>2, MonitorFrames DEF MonitorCover, ListedAsAsked
  <2>7. QED
        BY <1>1, <2>1, <2>2, <2>3, <2>4, <2>6, RecordStep DEF At
<1>8. QED
      BY <1>2, <1>3, <1>4, <1>5, <1>6, <1>7, TronReplies DEF TronNextStep

\* What a look-up by address finds, when addresses are not shared.
LEMMA FoundByAddress ==
  ASSUME NEW a
  PROVE  /\ \A e \in FindByAddress(a) :
              e \in Exchanges /\ DepositAddress[e] = a /\ exchanges[e].status = "pending"
         /\ UniqueAddresses => \A e \in Exchanges :
              DepositAddress[e] = a /\ exchanges[e].status = "pending" => e \in FindByAddress(a)
<1>1. \A e \in FindByAddress(a) :
        e \in Exchanges /\ DepositAddress[e] = a /\ exchanges[e].status = "pending"
      BY DEF FindByAddress, First, Pending
<1>2. ASSUME UniqueAddresses, NEW e \in Exchanges, DepositAddress[e] = a,
             exchanges[e].status = "pending"
      PROVE  e \in FindByAddress(a)
  <2>1. e \in Nat /\ e <= e
        BY IdsAssumption
  <2>2. \A f \in Exchanges : DepositAddress[f] = a => f = e
        BY <1>2 DEF UniqueAddresses
  <2>3. QED
        BY <1>2, <2>1, <2>2 DEF FindByAddress, First, Pending
<1>3. QED
      BY <1>1, <1>2

LEMMA BscOrigin ==
  ASSUME TypeInv, ClaimInv, OriginInv, CoverInv, MonitorStep, BscNextStep
  PROVE  OriginInv' /\ CoverInv'
<1> DEFINE m == monitor["bsc"]
<1>1. "bsc" \in Chains
      BY DEF BscNextStep, BscLogs, BscLogsFail, BscSkip, BscFound, BscNext, BscReview, BscRecord,
             BscDeep, BscShallow, BscEnd, At
<1>2. CASE BscLogs
  <2>1. /\ monitor'["bsc"].pc = "scan" /\ monitor'["bsc"].ready = {}
        /\ monitor'["bsc"].todo = OnChain("bsc")
        /\ \A d \in Chains \ {"bsc"} : monitor'[d] = monitor[d]
        BY <1>1, <1>2, PassFacts DEF Local, BscLogs, IdleMonitor
  <2>2. UNCHANGED <<processed, pendingTx, reviews, queue, sent>> /\ m.pc = "emit"
        BY <1>2 DEF BscLogs, database, At
  <2>3. MonitorOrigin(monitor["bsc"])' /\ MonitorCover("bsc", monitor["bsc"])'
        BY <2>1, MonitorFrames DEF MonitorOrigin, MonitorCover, OnChain
  <2>4. QED
        BY <1>1, <2>1, <2>2, <2>3, QuietPass DEF At
<1>3. CASE BscLogsFail \/ BscEnd
      BY <1>1, <1>3, IdlePass DEF BscLogsFail, BscEnd, database, At
<1>4. ASSUME NEW t \in Transfers, BscSkip(t) PROVE OriginInv' /\ CoverInv'
  <2>1. m.pc = "scan" /\ UNCHANGED <<processed, pendingTx, reviews, queue, sent>>
        BY <1>4 DEF BscSkip, BscNext, At, database
  <2>2. /\ monitor'["bsc"].pc = "scan" /\ monitor'["bsc"].ready = m.ready
        /\ monitor'["bsc"].todo = m.todo \ {t}
        /\ \A d \in Chains \ {"bsc"} : monitor'[d] = monitor[d]
        BY <1>1, <1>4, <2>1, PassFacts DEF Local, BscSkip, MonitorRecord
  <2>3. MonitorOrigin(monitor["bsc"])' /\ MonitorCover("bsc", monitor["bsc"])'
        BY <1>1, <2>2, PassFacts, MonitorFrames DEF MonitorOrigin, MonitorCover
  <2>4. QED
        BY <1>1, <2>1, <2>2, <2>3, QuietPass DEF At
<1>5. ASSUME NEW t \in Transfers, BscFound(t) PROVE OriginInv' /\ CoverInv'
  <2>1. /\ m.pc = "scan" /\ UNCHANGED <<processed, pendingTx, reviews, queue, sent>>
        /\ t \in m.todo /\ FindByAddress(TransferTo[t]) # {}
        BY <1>5 DEF BscFound, BscNext, At, database, First
  <2>2. /\ monitor'["bsc"].pc = "check" /\ monitor'["bsc"].cur = t
        /\ monitor'["bsc"].ready = m.ready /\ monitor'["bsc"].todo = m.todo \ {t}
        /\ \A d \in Chains \ {"bsc"} : monitor'[d] = monitor[d]
        BY <1>1, <1>5, PassFacts DEF Local, BscFound, MonitorRecord
  <2>3. MonitorOrigin(monitor["bsc"])'
        BY <1>1, <2>1, <2>2, PassFacts, MonitorFrames DEF MonitorOrigin
  <2>4. ASSUME UniqueAddresses, NEW e \in Exchanges, DepositAddress[e] = TransferTo[t]
        PROVE  exchanges[e].status # "absent"
    <3>1. PICK f \in FindByAddress(TransferTo[t]) : TRUE
          BY <2>1
    <3>2. f = e
          BY <2>4, FoundByAddress DEF UniqueAddresses
    <3>3. QED
          BY <3>2, FoundByAddress
  <2>5. UniqueAddresses => MonitorCover("bsc", monitor["bsc"])'
        BY <2>2, <2>4, MonitorFrames DEF MonitorCover
  <2>6. QED
        BY <1>1, <2>1, <2>2, <2>3, <2>5, QuietPass DEF At
<1>6. ASSUME NEW e \in Exchanges, BscReview(e) PROVE OriginInv' /\ CoverInv'
  <2>1. /\ m.pc = "check" /\ UNCHANGED <<processed, pendingTx, queue, sent>>
        /\ e \in FindByAddress(TransferTo[m.cur])
        /\ Mismatch(TransferAmount[m.cur], exchanges[e].usdt)
        /\ AddManualReview(m.cur, exchanges[e].usdt)
        BY <1>6 DEF BscReview, At
  <2>2. /\ monitor'["bsc"].pc = "reviewed" /\ monitor'["bsc"].cur = m.cur
        /\ monitor'["bsc"].ready = m.ready /\ monitor'["bsc"].todo = m.todo
        /\ \A d \in Chains \ {"bsc"} : monitor'[d] = monitor[d]
        BY <1>1, <1>6, PassFacts DEF Local, BscReview, MonitorRecord
  <2>3. m.cur \in arrived /\ m.todo \cup m.ready \subseteq arrived
        BY <1>1, <2>1, PassFacts DEF MonitorOrigin
  <2>4. MonitorCover("bsc", monitor["bsc"])'
        BY <2>2 DEF MonitorCover
  <2>5. /\ TransferTo[m.cur] = DepositAddress[e]
        /\ e \in touched \/ Mismatch(TransferAmount[m.cur], Asked[e])
        BY <2>1, FoundByAddress DEF ClaimInv, ClaimOf
  <2>6. QED
        BY <1>1, <2>1, <2>2, <2>3, <2>4, <2>5, ReviewStep DEF At
<1>7. CASE BscRecord
  <2>1. /\ m.pc = "check" /\ UNCHANGED <<processed, reviews, queue, sent>>
        /\ \A e \in FindByAddress(TransferTo[m.cur]) :
             ~Mismatch(TransferAmount[m.cur], exchanges[e].usdt)
        /\ AddPendingTx(m.cur)
        BY <1>7 DEF BscRecord, At
  <2>2. /\ monitor'["bsc"].pc = "height" /\ monitor'["bsc"].cur = m.cur
        /\ monitor'["bsc"].ready = m.ready /\ monitor'["bsc"].todo = m.todo
        /\ \A d \in Chains \ {"bsc"} : monitor'[d] = monitor[d]
        BY <1>1, <1>7, PassFacts DEF Local, BscRecord, MonitorRecord
  <2>3. m.cur \in arrived /\ MonitorOrigin(monitor["bsc"])'
        BY <1>1, <2>1, <2>2, PassFacts, MonitorFrames DEF MonitorOrigin
  <2>4. ASSUME UniqueAddresses, NEW e \in Exchanges, DepositAddress[e] = TransferTo[m.cur],
               exchanges[e].status \in {"absent", "pending"}
        PROVE  Covers(m.cur, e)
    <3>1. exchanges[e].status = "pending"
          BY <1>1, <2>1, <2>4, PassFacts DEF MonitorCover
    <3>2. ~Mismatch(TransferAmount[m.cur], exchanges[e].usdt)
          BY <2>1, <2>4, <3>1, FoundByAddress
    <3>3. e \in touched \/ exchanges[e].usdt = Asked[e]
          BY <3>1 DEF ClaimInv, ClaimOf
    <3>4. QED
          BY <3>2, <3>3 DEF Covers
  <2>5. UniqueAddresses => MonitorCover("bsc", monitor["bsc"])'
        BY <2>2, <2>4, MonitorFrames DEF MonitorCover, Eligible, Covers
  <2>6. QED
        BY <1>1, <2>1, <2>2, <2>3, <2>5, RecordStep DEF At
<1>8. CASE BscDeep \/ BscShallow
  <2>1. m.pc = "height" /\ UNCHANGED <<processed, pendingTx, reviews, queue, sent>>
        BY <1>8 DEF BscDeep, BscShallow, At, database
  <2>2. /\ monitor'["bsc"].pc \in {"confirm", "scan"}
        /\ monitor'["bsc"].pc = "confirm" => monitor'["bsc"].cur = m.cur
        /\ monitor'["bsc"].ready = m.ready /\ monitor'["bsc"].todo = m.todo
        /\ \A d \in Chains \ {"bsc"} : monitor'[d] = monitor[d]
    <3>1. CASE BscDeep
          BY <1>1, <3>1, PassFacts DEF Local, BscDeep, MonitorRecord
    <3>2. CASE BscShallow
          BY <1>1, <3>2, PassFacts DEF Local, BscShallow, MonitorRecord
    <3>3. QED
          BY <1>8, <3>1, <3>2
  <2>3. MonitorOrigin(monitor["bsc"])'
        BY <1>1, <2>1, <2>2, PassFacts, MonitorFrames DEF MonitorOrigin
  <2>4. UniqueAddresses => MonitorCover("bsc", monitor["bsc"])'
        BY <1>1, <2>1, <2>2, PassFacts, MonitorFrames DEF MonitorCover, Eligible, Covers
  <2>5. QED
        BY <1>1, <2>1, <2>2, <2>3, <2>4, QuietPass DEF At
<1>9. QED
      BY <1>2, <1>3, <1>4, <1>5, <1>6, <1>7, <1>8 DEF BscNextStep

-----------------------------------------------------------------------------
(* Origin and cover, along the steps of the others.                         *)

\* The monitors, while others step.
LEMMA MonitorsWait ==
  ASSUME TypeInv, ClaimInv, OriginInv, CoverInv, [Next]_vars, UNCHANGED <<monitor, reviews>>,
         arrived \subseteq arrived', NEW c \in Chains
  PROVE  MonitorOrigin(monitor[c])' /\ (UniqueAddresses => MonitorCover(c, monitor[c])')
<1> DEFINE m == monitor[c]
<1>1. MonitorOrigin(monitor[c])'
      BY PassFacts DEF MonitorOrigin
<1>2. ASSUME UniqueAddresses PROVE MonitorCover(c, monitor[c])'
  <2>1. MonitorCover(c, m)
        BY <1>2, PassFacts
  <2>2. \A e \in Exchanges : e \in touched => e \in touched'
        BY StepKeeps
  <2>3. c = "tron" => /\ \A e \in m.visit : e \in Exchanges
                      /\ m.todo # {} => m.at \in Exchanges
        BY PassFacts DEF MonitorRecord, MonitorCursor
  <2>4. \A e \in Exchanges : exchanges[e].status # "absent" => exchanges'[e].status # "absent"
        BY StepKeeps
  <2>5. Eligible(m.cur) => Eligible(monitor[c].cur)'
    <3>1. ASSUME NEW t, t = m.cur, Eligible(t) PROVE Eligible(monitor[c].cur)'
      <4>1. Eligible(t)'
            BY <3>1, CoverStays
      <4>2. t = monitor'[c].cur
            BY <3>1
      <4>3. QED
            BY <4>1, <4>2 DEF Eligible, Covers
    <3>2. QED
          BY <3>1
  <2>6. QED
        BY <2>1, <2>2, <2>3, <2>4, <2>5 DEF MonitorCover, ListedAsAsked
<1>3. QED
      BY <1>1, <1>2

\* A step that leaves the records of the monitors as they are.
LEMMA OtherStep ==
  ASSUME TypeInv, ClaimInv, OriginInv, CoverInv, [Next]_vars,
         UNCHANGED <<pendingTx, reviews, sent>>, arrived \subseteq arrived',
         \A c \in Chains :
           MonitorOrigin(monitor[c])' /\ (UniqueAddresses => MonitorCover(c, monitor[c])'),
         ProcessedIsAccountedFor',
         \A i \in 1..Len(queue') :
           FromTransfer(queue'[i]) /\ (UniqueAddresses => EventCover(queue'[i])),
         handler'.pc \in {"find", "get", "put", "pay"} => FromTransfer(handler'.event),
         handler'.pc \in {"get", "put", "pay"} =>
           DepositAddress[handler'.ex] = handler'.event.to,
         UniqueAddresses =>
           /\ handler'.pc = "find" => EventCover(handler'.event)
           /\ handler'.pc \in {"get", "put", "pay"} =>
                /\ handler'.event.src = "monitor"
                /\ Covers(handler'.event.transfer, handler'.ex)
           /\ \A i \in 1..Len(payouts') : PayoutCover(payouts'[i])
  PROVE  OriginInv' /\ CoverInv'
<1>1. OriginInv'
  <2>1. sent' \subseteq arrived' /\ \A h \in Hashes : pendingTx'[h] \subseteq arrived'
        BY DEF OriginInv
  <2>2. QED
        BY <2>1 DEF OriginInv, FromTransfer
<1>2. ASSUME UniqueAddresses PROVE CoverInv'
  <2>1. \A i \in 1..Len(queue') : EventCover(queue[i])'
    <3>1. ASSUME NEW i \in 1..Len(queue'), NEW event, event = queue'[i]
          PROVE  EventCover(queue[i])'
      <4>1. EventCover(event)'
            BY <1>2, <3>1, CoverStays
      <4>2. QED
            BY <3>1, <4>1 DEF EventCover, Eligible, Covers, ClosedForGood, Reopens
    <3>2. QED
          BY <3>1
  <2>2. HandlerCover'
    <3>1. handler'.pc = "find" => EventCover(handler.event)'
      <4>1. ASSUME NEW event, event = handler'.event, EventCover(event)
            PROVE  EventCover(handler.event)'
        <5>1. EventCover(event)'
              BY <4>1, CoverStays
        <5>2. QED
              BY <4>1, <5>1 DEF EventCover, Eligible, Covers, ClosedForGood, Reopens
      <4>2. QED
            BY <1>2, <4>1
    <3>2. handler'.pc \in {"get", "put", "pay"} =>
            Covers(handler.event.transfer, handler.ex)'
      <4>1. ASSUME NEW t, NEW e, t = handler'.event.transfer, e = handler'.ex, Covers(t, e)
            PROVE  Covers(handler.event.transfer, handler.ex)'
        <5>1. Covers(t, e)'
              BY <4>1, CoverStays
        <5>2. QED
              BY <4>1, <5>1 DEF Covers
      <4>2. QED
            BY <1>2, <4>1
    <3>3. QED
          BY <1>2, <3>1, <3>2 DEF HandlerCover
  <2>3. \A i \in 1..Len(payouts') : PayoutCover(payouts[i])'
    <3>1. ASSUME NEW i \in 1..Len(payouts'), NEW p, p = payouts'[i]
          PROVE  PayoutCover(payouts[i])'
      <4>1. PayoutCover(p)'
            BY <1>2, <3>1, CoverStays
      <4>2. QED
            BY <3>1, <4>1 DEF PayoutCover, Covers
    <3>2. QED
          BY <3>1
  <2>4. \A h \in Hashes : \A r \in reviews'[h] : ReviewCover(r)'
        BY <1>2, CoverStays DEF CoverInv
  <2>5. QED
        BY <1>2, <2>1, <2>2, <2>3, <2>4 DEF CoverInv
<1>3. ~UniqueAddresses => CoverInv'
      BY DEF CoverInv, UniqueAddresses
<1>4. QED
      BY <1>1, <1>2, <1>3

LEMMA AccountStays ==
  ASSUME OriginInv, UNCHANGED <<processed, reviews, sent, monitor, crashes>>
  PROVE  ProcessedIsAccountedFor'
BY DEF OriginInv, ProcessedIsAccountedFor, At

\* What the channel, the handler and the payouts are known to hold.
LEMMA HeldFacts ==
  ASSUME OriginInv, CoverInv
  PROVE  /\ \A i \in 1..Len(queue) :
              FromTransfer(queue[i]) /\ (UniqueAddresses => EventCover(queue[i]))
         /\ handler.pc \in {"find", "get", "put", "pay"} => FromTransfer(handler.event)
         /\ handler.pc \in {"get", "put", "pay"} =>
              DepositAddress[handler.ex] = handler.event.to
         /\ UniqueAddresses =>
              /\ handler.pc = "find" => EventCover(handler.event)
              /\ handler.pc \in {"get", "put", "pay"} =>
                   /\ handler.event.src = "monitor"
                   /\ Covers(handler.event.transfer, handler.ex)
              /\ \A i \in 1..Len(payouts) : PayoutCover(payouts[i])
BY DEF OriginInv, CoverInv, HandlerCover

LEMMA HandlerOrigin ==
  ASSUME TypeInv, ClaimInv, OriginInv, CoverInv, HandlerStep PROVE OriginInv' /\ CoverInv'
<1>0. UNCHANGED <<monitor, sent, bot, touched, crashes>> /\ [Next]_vars
      BY DEF HandlerStep, monitorVars, botVars, Next
<1>1. UNCHANGED <<processed, pendingTx, reviews, arrived>>
      BY DEF HandlerStep, HandlerNext, Receive, Find, FindNone, StatusGet, StatusPut, Pay,
             AddDeposit, database, world
<1>2. /\ ProcessedIsAccountedFor'
      /\ \A c \in Chains :
           MonitorOrigin(monitor[c])' /\ (UniqueAddresses => MonitorCover(c, monitor[c])')
      BY <1>0, <1>1, AccountStays, MonitorsWait
<1>3. CASE Receive
  <2>1. queue \in Seq(Event) /\ queue # <<>> /\ queue' = Tail(queue) /\ payouts' = payouts
        BY <1>3 DEF Receive, TypeInv, StoreTypeOK
  <2>2. /\ \A i \in 1..Len(queue') : i + 1 \in 1..Len(queue) /\ queue'[i] = queue[i + 1]
        /\ 1 \in 1..Len(queue) /\ Head(queue) = queue[1]
        BY <2>1
  <2>3. /\ handler'.pc \in {"idle", "find"}
        /\ handler'.pc = "find" => handler'.event = Head(queue)
    <3>1. Head(queue).amount < MinUsdt \/ ~(Head(queue).amount < MinUsdt)
          OBVIOUS
    <3>2. QED
          BY <1>3, <3>1 DEF Receive, IdleHandler
  <2>4. \A i \in 1..Len(queue') :
          FromTransfer(queue'[i]) /\ (UniqueAddresses => EventCover(queue'[i]))
        BY <2>2, HeldFacts
  <2>5. handler'.pc = "find" =>
          FromTransfer(handler'.event) /\ (UniqueAddresses => EventCover(handler'.event))
        BY <2>2, <2>3, HeldFacts
  <2>6. QED
        BY <1>0, <1>1, <1>2, <2>1, <2>3, <2>4, <2>5, HeldFacts, OtherStep
<1>4. ASSUME NEW e \in Exchanges, Find(e) PROVE OriginInv' /\ CoverInv'
  <2>1. /\ UNCHANGED <<queue, payouts>> /\ handler.pc = "find"
        /\ handler'.pc = "get" /\ handler'.ex = e /\ handler'.event = handler.event
        /\ e \in FindByAddress(handler.event.to)
        BY <1>4, ClaimTypes DEF Find, HandlerRecord
  <2>2. DepositAddress[e] = handler.event.to /\ exchanges[e].status = "pending"
        BY <2>1, FoundByAddress
  <2>3. ASSUME UniqueAddresses
        PROVE  handler.event.src = "monitor" /\ Covers(handler.event.transfer, e)
    <3>1. handler.event.to # NoAddress
          BY <2>2, ExchangeAssumption
    <3>2. EventCover(handler.event)
          BY <2>1, <2>3, HeldFacts
    <3>3. handler.event.src = "monitor" /\ Eligible(handler.event.transfer)
          BY <2>2, <3>1, <3>2 DEF EventCover, ClosedForGood
    <3>4. handler.event.to = TransferTo[handler.event.transfer]
          BY <2>1, <3>1, <3>3, HeldFacts DEF FromTransfer
    <3>5. QED
          BY <2>2, <3>3, <3>4 DEF Eligible
  <2>4. QED
        BY <1>0, <1>1, <1>2, <2>1, <2>2, <2>3, HeldFacts, OtherStep
<1>5. CASE FindNone \/ AddDeposit
  <2>1. UNCHANGED <<queue, payouts>> /\ handler'.pc \in {"add", "idle"}
    <3>1. CASE FindNone
          BY <3>1, ClaimTypes DEF FindNone, HandlerRecord
    <3>2. CASE AddDeposit
          BY <3>2 DEF AddDeposit, IdleHandler
    <3>3. QED
          BY <1>5, <3>1, <3>2
  <2>2. QED
        BY <1>0, <1>1, <1>2, <2>1, HeldFacts, OtherStep
<1>6. CASE StatusGet \/ StatusPut
  <2>1. /\ UNCHANGED <<queue, payouts>> /\ handler.pc \in {"get", "put"}
        /\ handler'.ex = handler.ex /\ handler'.event = handler.event
        /\ handler'.pc # "find"
    <3>1. CASE StatusGet
          BY <3>1, ClaimTypes DEF StatusGet, HandlerRecord
    <3>2. CASE StatusPut
          BY <3>2, ClaimTypes DEF StatusPut, HandlerRecord
    <3>3. QED
          BY <1>6, <3>1, <3>2
  <2>2. QED
        BY <1>0, <1>1, <1>2, <2>1, HeldFacts, OtherStep
<1>7. ASSUME NEW broadcast \in BOOLEAN, NEW ok \in BOOLEAN, Pay(broadcast, ok)
      PROVE  OriginInv' /\ CoverInv'
  <2> DEFINE p == [exchange |-> handler.ex, transfer |-> handler.event.transfer,
                   src |-> handler.event.src]
  <2>1. /\ queue' = queue /\ handler.pc = "pay" /\ handler.ex \in Exchanges
        /\ handler'.pc = "get" /\ handler'.ex = handler.ex /\ handler'.event = handler.event
        BY <1>7, ClaimTypes DEF Pay, HandlerRecord
  <2>2. ASSUME UniqueAddresses PROVE PayoutCover(p)
    <3>1. /\ handler.event.src = "monitor" /\ Covers(handler.event.transfer, handler.ex)
          /\ FromTransfer(handler.event) /\ DepositAddress[handler.ex] = handler.event.to
          BY <2>1, <2>2, HeldFacts
    <3>2. handler.event.to # NoAddress
          BY <2>1, <3>1, ExchangeAssumption
    <3>3. QED
          BY <3>1, <3>2 DEF PayoutCover, FromTransfer
  <2>3. ASSUME UniqueAddresses, NEW i \in 1..Len(payouts') PROVE PayoutCover(payouts'[i])
    <3> HIDE DEF p
    <3>1. CASE payouts' = Append(payouts, p)
      <4>1. payouts'[i] = p \/ (i \in 1..Len(payouts) /\ payouts'[i] = payouts[i])
            BY <3>1, ClaimTypes
      <4>2. QED
            BY <2>2, <2>3, <4>1, HeldFacts
    <3>2. CASE payouts' = payouts
          BY <2>3, <3>2, HeldFacts
    <3>3. QED
          BY <1>7, <3>1, <3>2 DEF Pay, p
  <2>4. QED
        BY <1>0, <1>1, <1>2, <2>1, <2>3, HeldFacts, OtherStep
<1>8. QED
      BY <1>3, <1>4, <1>5, <1>6, <1>7 DEF HandlerStep, HandlerNext

LEMMA BotOrigin ==
  ASSUME TypeInv, ClaimInv, OriginInv, CoverInv, BotStep PROVE OriginInv' /\ CoverInv'
<1>0. UNCHANGED <<monitor, sent, handler, payouts, crashes>> /\ [Next]_vars
      BY DEF BotStep, monitorVars, handlerVars, Next
<1>1. UNCHANGED <<processed, pendingTx, reviews, arrived>>
      BY DEF BotStep, BotNext, ResolveReview, ResolveExchange, Accept, AmountsGet, AmountsPut,
             BotStatusGet, BotStatusPut, BotSend, database, world
<1>2. /\ ProcessedIsAccountedFor'
      /\ \A c \in Chains :
           MonitorOrigin(monitor[c])' /\ (UniqueAddresses => MonitorCover(c, monitor[c])')
      BY <1>0, <1>1, AccountStays, MonitorsWait
<1>3. CASE BotSend
  <2> DEFINE event == [transfer |-> bot.transfer, to |-> DepositAddress[bot.ex],
                       amount |-> bot.amount, src |-> "bot"]
  <2>1. queue \in Seq(Event) /\ queue' = Append(queue, event) /\ bot.pc = "send"
        BY <1>3 DEF BotSend, Enqueue, TypeInv, StoreTypeOK
  <2>2. FromTransfer(event)
        BY DEF FromTransfer
  <2>3. ClosedForGood(bot.ex)
        BY <2>1, ClaimTypes DEF ClaimInv, HandsInv, ReopenInv, Pending, ClosedForGood, Reopens
  <2>4. UniqueAddresses => EventCover(event)
        BY <2>1, <2>3, ClaimTypes DEF UniqueAddresses, EventCover
  <2> HIDE DEF event
  <2>5. \A i \in 1..Len(queue') :
          queue'[i] = event \/ (i \in 1..Len(queue) /\ queue'[i] = queue[i])
        BY <2>1
  <2>6. \A i \in 1..Len(queue') :
          FromTransfer(queue'[i]) /\ (UniqueAddresses => EventCover(queue'[i]))
        BY <2>2, <2>4, <2>5, HeldFacts
  <2>7. QED
        BY <1>0, <1>1, <1>2, <2>6, HeldFacts, OtherStep
<1>4. CASE ~BotSend
  <2>1. queue' = queue
        BY <1>4 DEF BotStep, BotNext, ResolveReview, ResolveExchange, Accept, AmountsGet,
                    AmountsPut, BotStatusGet, BotStatusPut
  <2>2. QED
        BY <1>0, <1>1, <1>2, <2>1, HeldFacts, OtherStep
<1>5. QED
      BY <1>3, <1>4

LEMMA CrashOrigin ==
  ASSUME TypeInv, ClaimInv, OriginInv, CoverInv, Crash PROVE OriginInv' /\ CoverInv'
<1>1. /\ UNCHANGED <<pendingTx, reviews, sent, arrived, payouts>> /\ [Next]_vars
      /\ crashes' > 0 /\ queue' = <<>> /\ handler'.pc = "idle"
      /\ \A c \in Chains : monitor'[c] = IdleMonitor
      BY DEF Crash, database, world, IdleHandler, Next, TypeInv
<1>2. \A c \in Chains : MonitorOrigin(monitor[c])' /\ MonitorCover(c, monitor[c])'
      BY <1>1 DEF MonitorOrigin, MonitorCover, IdleMonitor
<1>3. ProcessedIsAccountedFor'
      BY <1>1 DEF ProcessedIsAccountedFor
<1>4. \A i : i \notin 1..Len(queue')
      BY <1>1
<1>5. QED
      BY <1>1, <1>2, <1>3, <1>4, HeldFacts, OtherStep

LEMMA StepOrigin ==
  ASSUME TypeInv, ClaimInv, OriginInv, CoverInv, [Next]_vars PROVE OriginInv' /\ CoverInv'
<1>1. CASE WorldStep
  <2>1. /\ UNCHANGED <<monitor, sent, handler, payouts, crashes, pendingTx, reviews, processed>>
        /\ queue' = queue /\ arrived \subseteq arrived'
        BY <1>1 DEF WorldStep, WorldNext, CreateExchange, Expire, Transfer, Mature, monitorVars,
                    handlerVars, database, world
  <2>2. QED
        BY <2>1, AccountStays, MonitorsWait, HeldFacts, OtherStep
<1>2. CASE MonitorStep
      BY <1>2, SharedOrigin, TronOrigin, BscOrigin DEF MonitorStep, MonitorNext
<1>3. CASE UNCHANGED vars
  <2>1. /\ UNCHANGED <<monitor, sent, handler, payouts, crashes, pendingTx, reviews, processed>>
        /\ queue' = queue /\ arrived \subseteq arrived'
        BY <1>3 DEF vars, store, database, world, monitorVars, handlerVars
  <2>2. QED
        BY <2>1, AccountStays, MonitorsWait, HeldFacts, OtherStep
<1>4. QED
      BY <1>1, <1>2, <1>3, HandlerOrigin, BotOrigin, CrashOrigin DEF Next

-----------------------------------------------------------------------------
(* What follows for every behaviour of the node.                            *)

\* Where an event and a payout come from, and how the amounts on their way
\* relate to what was asked (monitor.rs, main.rs, telegram_bot.rs).
THEOREM OriginCorrect == Spec => []OriginInv /\ []CoverInv
<1>1. TypeInv /\ ClaimInv /\ OriginInv /\ CoverInv /\ [Next]_vars => OriginInv' /\ CoverInv'
      BY StepOrigin
<1>2. QED
      BY <1>1, InitOrigin, TypeCorrect, ClaimCorrect, PTL DEF Spec

\* A hash in tx_hashes was put under review, was sent to the handler or is
\* about to be, unless the node has stopped in between (monitor.rs).
COROLLARY ProcessedIsNotForgotten == Spec => []ProcessedIsAccountedFor
<1>1. OriginInv => ProcessedIsAccountedFor
      BY DEF OriginInv
<1>2. QED
      BY <1>1, OriginCorrect, PTL

LEMMA CoveredPayouts ==
  ASSUME TypeInv, DeliveryInv, CoverInv, UniqueAddresses, NEW i \in 1..Len(payouts)
  PROVE  /\ payouts[i].src = "monitor"
         /\ payouts[i].transfer # NoTransfer /\ payouts[i].transfer \in Transfers
         /\ payouts[i].exchange \in Exchanges
         /\ TransferTo[payouts[i].transfer] = DepositAddress[payouts[i].exchange]
         /\ Covers(payouts[i].transfer, payouts[i].exchange)
<1>1. PayoutCover(payouts[i])
      BY DEF CoverInv
<1>2. payouts[i].transfer \in sent
      BY <1>1 DEF PayoutCover, DeliveryInv, EventDelivery
<1>3. sent \subseteq Transfers /\ NoTransfer \notin Transfers
      BY IdsAssumption DEF TypeInv, MonitorInv, MonitorTypeOK
<1>4. QED
      BY <1>1, <1>2, <1>3, ClaimTypes DEF PayoutCover

\* No command of the bot makes the handler pay: the command takes the exchange
\* out of "pending" before it sends the event, and the handler looks for a
\* pending exchange only (telegram_bot.rs, main.rs).
ResolveNeverPays ==
  UniqueAddresses => \A i \in 1..Len(payouts) : payouts[i].src = "monitor"

\* With one exchange per address, the handler pays for no command of the
\* operator in any instance: every payout was made for a deposit that a monitor
\* sent.  So the run that refutes DetectedIsPrepared is no accident of its bounds.
COROLLARY CommandsNeverPay == Spec => []ResolveNeverPays
<1>1. TypeInv /\ DeliveryInv /\ CoverInv => ResolveNeverPays
      BY CoveredPayouts DEF ResolveNeverPays
<1>2. QED
      BY <1>1, TypeCorrect, DeliveryCorrect, OriginCorrect, PTL

\* With one exchange per address, BTC leaves for an exchange no command has
\* touched only against a transfer to its address within the tolerance.
COROLLARY EveryPayoutIsCovered == Spec => []PayoutIsCovered
<1>1. TypeInv /\ DeliveryInv /\ CoverInv => PayoutIsCovered
      BY CoveredPayouts DEF PayoutIsCovered, Covers
<1>2. QED
      BY <1>1, TypeCorrect, DeliveryCorrect, OriginCorrect, PTL

\* With one exchange per address, a transfer under review has not triggered a
\* payout of an exchange no command has touched.
COROLLARY ReviewedOrPaid == Spec => []ReviewedIsNotPaid
<1>1. ASSUME TypeInv, DeliveryInv, CoverInv, UniqueAddresses, NEW i \in 1..Len(payouts),
             payouts[i].exchange \notin touched,
             NEW r \in reviews[HashOf[payouts[i].transfer]]
      PROVE  r.transfer # payouts[i].transfer
  <2>1. HashOf[payouts[i].transfer] \in Hashes
        BY <1>1, CoveredPayouts, TransferAssumption
  <2>2. ReviewCover(r)
        BY <1>1, <2>1 DEF CoverInv
  <2>3. QED
        BY <1>1, <2>2, CoveredPayouts DEF ReviewCover, Covers
<1>2. TypeInv /\ DeliveryInv /\ CoverInv => ReviewedIsNotPaid
      BY <1>1 DEF ReviewedIsNotPaid
<1>3. QED
      BY <1>2, TypeCorrect, DeliveryCorrect, OriginCorrect, PTL

-----------------------------------------------------------------------------
(* Node implements Settlement, step by step.                                *)

LEMMA InitSettles == Init => Promise!Init
BY DEF Init, StoreInit, HandlerInit, BotInit, Promise!Init, StageOf

\* Nothing happens to what Settlement speaks of.
LEMMA StutterSettles ==
  ASSUME UNCHANGED <<exchanges, arrived, payouts, touched>>
  PROVE  UNCHANGED Promise!vars
BY DEF Promise!vars

\* One record is written, and nothing else Settlement speaks of changes.
LEMMA WriteSettles ==
  ASSUME TypeInv, NEW x \in Exchanges, exchanges' \in [Exchanges -> ExchangeRecord],
         \A f \in Exchanges \ {x} : exchanges'[f] = exchanges[f],
         UNCHANGED <<arrived, payouts>>,
         \/ x \in touched'
         \/ StageOf(exchanges'[x].status) = StageOf(exchanges[x].status)
         \/ exchanges[x].status = "absent" /\ exchanges'[x].status = "pending"
         \/ exchanges[x].status = "pending" /\ exchanges'[x].status = "deposit_detected"
         \/ exchanges[x].status = "sending" /\ exchanges'[x].status \in {"sent", "error"},
         touched' = touched \/ touched' = touched \cup {x}
  PROVE  Promise!Next \/ UNCHANGED Promise!vars
<1> DEFINE stage == [e \in Exchanges |-> StageOf(exchanges[e].status)]
           s == StageOf(exchanges'[x].status)
<1>1. stage' = [stage EXCEPT ![x] = s]
      OBVIOUS
<1>2. s \in Promise!States
      BY DEF Promise!States, StageOf
<1>3. CASE x \in touched'
  <2>1. touched' = touched \cup {x}
        BY <1>3
  <2>2. Promise!Intervene(x)
        BY <1>1, <1>2, <2>1 DEF Promise!Intervene
  <2>3. QED
        BY <2>2 DEF Promise!Next
<1>4. CASE x \notin touched'
  <2>1. touched' = touched
        BY <1>4
  <2>2. CASE s = stage[x]
    <3>1. stage' = stage
          BY <1>1, <2>2
    <3>2. QED
          BY <2>1, <3>1 DEF Promise!vars
  <2>3. CASE \/ stage[x] = "none" /\ s = "open"
             \/ stage[x] = "open" /\ s = "claimed"
             \/ stage[x] = "claimed" /\ s = "closed"
    <3>1. \/ Promise!Move(x, "none", "open") \/ Promise!Move(x, "open", "claimed")
          \/ Promise!Move(x, "claimed", "closed")
          BY <1>1, <2>1, <2>3 DEF Promise!Move
    <3>2. QED
          BY <3>1 DEF Promise!Next
  <2>4. QED
        BY <1>4, <2>2, <2>3 DEF StageOf
<1>5. QED
      BY <1>3, <1>4

\* An exchange of which no payout is counted has none.
LEMMA ClaimedIsUnpaid ==
  ASSUME TypeInv, BudgetInv, NEW e \in Exchanges \ touched, Claims(e)
  PROVE  \A i \in 1..Len(payouts) : payouts[i].exchange # e
<1>1. Spent(e) >= 1 /\ Spent(e) \in Int
      BY DEF Spent, OneIf
<1>2. Cardinality(PayoutsOf(e)) + Spent(e) <= 1 /\ Cardinality(PayoutsOf(e)) \in Nat
      BY PayoutsFinite DEF BudgetInv, Budget
<1>3. Cardinality(PayoutsOf(e)) = 0
      BY <1>1, <1>2
<1>4. PayoutsOf(e) = {}
      BY <1>3, PayoutsFinite, FS_EmptySet
<1>5. QED
      BY <1>4 DEF PayoutsOf

LEMMA PaySettles ==
  ASSUME TypeInv, DeliveryInv, ClaimInv, BudgetInv, OriginInv, HandlerStep,
         NEW broadcast \in BOOLEAN, NEW ok \in BOOLEAN, Pay(broadcast, ok)
  PROVE  Promise!Next \/ UNCHANGED Promise!vars
<1> DEFINE x == handler.ex
           t == handler.event.transfer
           p == [exchange |-> x, transfer |-> t, src |-> handler.event.src]
<1>1. /\ UNCHANGED <<exchanges, arrived, touched>> /\ handler.pc = "pay" /\ x \in Exchanges
      /\ handler.event.src \in {"monitor", "bot"} /\ t \in Transfers \cup {NoTransfer}
      BY ClaimTypes DEF Pay, database, world, HandlerStep, botVars, HandlerRecord, Event
<1>2. CASE payouts' = payouts
      BY <1>1, <1>2, StutterSettles
<1>3. ASSUME x \notin touched
      PROVE  /\ StageOf(exchanges[x].status) = "claimed"
             /\ \A q \in Promise!Entries : q.exchange # x
  <2>1. exchanges[x].status = "sending"
        BY <1>1, <1>3 DEF ClaimInv, ClaimOf
  <2>2. \A i \in 1..Len(payouts) : payouts[i].exchange # x
        BY <1>1, <1>3, ClaimedIsUnpaid DEF Claims
  <2>3. QED
        BY <2>1, <2>2 DEF StageOf, Promise!Entries
<1>4. CASE payouts' = Append(payouts, p) /\ handler.event.src = "monitor"
  <2>1. HoldsUnpaid
        BY <1>1, <1>4 DEF HoldsUnpaid, ClaimInv, HandsInv
  <2>2. t \in sent /\ ~Paid(HashOf[t])
        BY <2>1 DEF DeliveryInv, EventDelivery
  <2>3. t \in arrived /\ t \in Transfers
        BY <2>2 DEF OriginInv, TypeInv, StoreTypeOK
  <2>4. TransferTo[t] = DepositAddress[x]
    <3>1. FromTransfer(handler.event) /\ DepositAddress[x] = handler.event.to
          BY <1>1 DEF OriginInv
    <3>2. DepositAddress[x] # NoAddress
          BY <1>1, ExchangeAssumption
    <3>3. QED
          BY <1>4, <3>1, <3>2 DEF FromTransfer
  <2>5. \A q \in Promise!Entries : q.src = "monitor" => ~OfOneTransaction(q.transfer, t)
        BY <2>2 DEF Paid, Promise!Entries, OfOneTransaction
  <2>6. Promise!PayOut(x, t)
        BY <1>1, <1>3, <1>4, <2>3, <2>4, <2>5 DEF Promise!PayOut, IsDepositFor
  <2>7. QED
        BY <1>1, <2>3, <2>6 DEF Promise!Next
<1>5. CASE payouts' = Append(payouts, p) /\ handler.event.src = "bot"
  <2>1. Promise!PayOutByHand(x)
        BY <1>1, <1>3, <1>5 DEF Promise!PayOutByHand
  <2>2. QED
        BY <1>1, <2>1 DEF Promise!Next
<1>6. QED
      BY <1>1, <1>2, <1>4, <1>5 DEF Pay

LEMMA HandlerSettles ==
  ASSUME TypeInv, DeliveryInv, ClaimInv, BudgetInv, OriginInv, HandlerStep
  PROVE  Promise!Next \/ UNCHANGED Promise!vars
<1>1. UNCHANGED touched /\ exchanges' \in [Exchanges -> ExchangeRecord]
  <2>1. TypeInv'
        BY StepType DEF Next
  <2>2. QED
        BY <2>1 DEF HandlerStep, botVars, TypeInv, StoreTypeOK
<1>2. CASE StatusPut
  <2> DEFINE x == handler.ex
  <2>1. /\ handler.pc = "put" /\ x \in Exchanges /\ UNCHANGED <<arrived, payouts>>
        /\ handler.goal \in {"deposit_detected", "sending", "sent", "error"}
        /\ exchanges'[x].status = handler.goal
        /\ \A f \in Exchanges \ {x} : exchanges'[f] = exchanges[f]
        BY <1>2, ClaimTypes DEF StatusPut, PutExchange, Goals, HandlerRecord, ExchangeRecord, world
  <2>2. x \notin touched => exchanges[x].status = Before(handler.goal)
        BY <2>1 DEF ClaimInv, ClaimOf
  <2>3. x \in touched \/ StageOf(exchanges'[x].status) = StageOf(exchanges[x].status)
          \/ (exchanges[x].status = "pending" /\ exchanges'[x].status = "deposit_detected")
          \/ (exchanges[x].status = "sending" /\ exchanges'[x].status \in {"sent", "error"})
        BY <2>1, <2>2 DEF Before, StageOf
  <2>4. QED
        BY <1>1, <2>1, <2>3, WriteSettles
<1>3. ASSUME NEW broadcast \in BOOLEAN, NEW ok \in BOOLEAN, Pay(broadcast, ok)
      PROVE  Promise!Next \/ UNCHANGED Promise!vars
      BY <1>3, PaySettles
<1>4. CASE Receive \/ FindNone \/ StatusGet \/ AddDeposit \/ \E e \in Exchanges : Find(e)
  <2>1. UNCHANGED <<exchanges, arrived, payouts>>
        BY <1>4 DEF Receive, FindNone, StatusGet, AddDeposit, Find, database, world
  <2>2. QED
        BY <1>1, <2>1, StutterSettles
<1>5. QED
      BY <1>2, <1>3, <1>4 DEF HandlerStep, HandlerNext

LEMMA BotSettles ==
  ASSUME TypeInv, ClaimInv, BotStep PROVE Promise!Next \/ UNCHANGED Promise!vars
<1>1. /\ UNCHANGED <<payouts, arrived>> /\ exchanges' \in [Exchanges -> ExchangeRecord]
  <2>1. TypeInv'
        BY StepType DEF Next
  <2>2. UNCHANGED arrived
        BY DEF BotStep, BotNext, ResolveReview, ResolveExchange, Accept, AmountsGet, AmountsPut,
               BotStatusGet, BotStatusPut, BotSend, world
  <2>3. QED
        BY <2>1, <2>2 DEF BotStep, handlerVars, TypeInv, StoreTypeOK
<1>2. CASE AmountsPut \/ BotStatusPut
  <2> DEFINE x == bot.ex
  <2>1. /\ x \in touched /\ UNCHANGED touched /\ x \in Exchanges
        BY <1>2, ClaimTypes DEF AmountsPut, BotStatusPut, BotLocal, ClaimInv, HandsInv
  <2>2. \A f \in Exchanges \ {x} : exchanges'[f] = exchanges[f]
        BY <1>2, ClaimTypes DEF AmountsPut, BotStatusPut, PutExchange
  <2>3. QED
        BY <1>1, <2>1, <2>2, WriteSettles
<1>3. CASE AmountsGet \/ BotStatusGet \/ BotSend
  <2>1. UNCHANGED <<exchanges, touched>>
        BY <1>3 DEF AmountsGet, BotStatusGet, BotSend, BotLocal, database
  <2>2. QED
        BY <1>1, <2>1, StutterSettles
<1>4. ASSUME NEW e \in Exchanges, UNCHANGED exchanges, touched' = touched \cup {e}
      PROVE  Promise!Next \/ UNCHANGED Promise!vars
      BY <1>1, <1>4, WriteSettles
<1>5. ASSUME NEW h \in Hashes, NEW e \in Exchanges, ResolveReview(h, e)
      PROVE  Promise!Next \/ UNCHANGED Promise!vars
  <2>1. UNCHANGED exchanges /\ touched' = touched \cup {e}
        BY <1>5 DEF ResolveReview, Accept, database, IdleBot
  <2>2. QED
        BY <1>4, <2>1
<1>6. ASSUME NEW e \in Exchanges, ResolveExchange(e)
      PROVE  Promise!Next \/ UNCHANGED Promise!vars
      BY <1>4, <1>6 DEF ResolveExchange, Accept, database, IdleBot
<1>7. QED
      BY <1>2, <1>3, <1>5, <1>6 DEF BotStep, BotNext

LEMMA WorldSettles ==
  ASSUME TypeInv, WorldStep PROVE Promise!Next \/ UNCHANGED Promise!vars
<1>1. UNCHANGED <<payouts, touched>>
      BY DEF WorldStep, handlerVars, botVars
<1>2. ASSUME NEW e \in Exchanges, CreateExchange(e) PROVE Promise!Next \/ UNCHANGED Promise!vars
  <2>1. /\ exchanges[e].status = "absent" /\ exchanges'[e].status = "pending"
        /\ \A f \in Exchanges \ {e} : exchanges'[f] = exchanges[f]
        /\ UNCHANGED arrived
        BY <1>2, ClaimTypes DEF CreateExchange, PutExchange, world
  <2>2. exchanges' \in [Exchanges -> ExchangeRecord]
    <3>1. TypeInv'
          BY StepType DEF Next
    <3>2. QED
          BY <3>1 DEF TypeInv, StoreTypeOK
  <2>3. QED
        BY <1>1, <2>1, <2>2, WriteSettles
<1>3. ASSUME NEW t \in Transfers, Transfer(t) PROVE Promise!Next \/ UNCHANGED Promise!vars
  <2>1. arrived' = arrived \cup {t} /\ UNCHANGED exchanges
        BY <1>3 DEF Transfer, database
  <2>2. Promise!Arrive(t)
        BY <1>1, <2>1 DEF Promise!Arrive
  <2>3. QED
        BY <2>2 DEF Promise!Next
<1>4. ASSUME NEW e, Expire(e) \/ Mature(e) PROVE Promise!Next \/ UNCHANGED Promise!vars
      BY <1>1, <1>4, StutterSettles DEF Expire, Mature, database
<1>5. QED
      BY <1>2, <1>3, <1>4 DEF WorldStep, WorldNext

LEMMA StepSettles ==
  ASSUME TypeInv, DeliveryInv, ClaimInv, BudgetInv, OriginInv, [Next]_vars
  PROVE  [Promise!Next]_(Promise!vars)
<1>1. CASE MonitorStep
      BY <1>1, MonitorFrames, StutterSettles
<1>2. CASE Crash \/ UNCHANGED vars
  <2>1. UNCHANGED <<exchanges, arrived, payouts, touched>>
        BY <1>2 DEF Crash, vars, store, database, world, handlerVars, botVars
  <2>2. QED
        BY <2>1, StutterSettles
<1>3. QED
      BY <1>1, <1>2, HandlerSettles, BotSettles, WorldSettles DEF Next

\* Node implements Settlement: in every behaviour BTC leaves for an exchange
\* only while it is claimed, once, against a deposit to its address whose
\* transaction paid for nothing else, unless a command has touched it.
THEOREM NodeSettles == Spec => Settles
<1>1. /\ TypeInv /\ DeliveryInv /\ ClaimInv /\ BudgetInv /\ OriginInv /\ [Next]_vars
      => [Promise!Next]_(Promise!vars)
      BY StepSettles
<1>2. QED
      BY <1>1, InitSettles, TypeCorrect, DeliveryCorrect, ClaimCorrect, BudgetCorrect,
         OriginCorrect, PTL DEF Spec, Settles, Promise!Spec
=============================================================================
