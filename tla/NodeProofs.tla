----------------------------- MODULE NodeProofs -----------------------------
(***************************************************************************)
(* Proofs about Node, for every value of its constants: its types, how a   *)
(* transaction reaches its payout, how the statuses of the exchanges move, *)
(* and how often each exchange can be paid, whatever deposits, stops and   *)
(* commands there are.  SettlementProofs goes on from here.                *)
(***************************************************************************)
EXTENDS NodeInvariants, FiniteSetTheorems, TLAPS

-----------------------------------------------------------------------------
(* Frames: a component whose variables do not change keeps its invariant.   *)

LEMMA StoreFrame == StoreTypeOK /\ UNCHANGED store => StoreTypeOK'
BY DEF store, database, world, StoreTypeOK

LEMMA MonitorFrame == MonitorInv /\ UNCHANGED monitorVars => MonitorInv'
BY DEF monitorVars, MonitorInv, MonitorTypeOK, MonitorCursor

LEMMA HandlerFrame == HandlerInv /\ UNCHANGED handlerVars => HandlerInv'
BY DEF handlerVars, HandlerInv, HandlerTypeOK

LEMMA BotFrame == BotInv /\ UNCHANGED botVars => BotInv'
BY DEF botVars, BotInv, BotTypeOK

-----------------------------------------------------------------------------
LEMMA IdleMonitorType ==
  IdleMonitor \in MonitorRecord
BY DEF IdleMonitor, MonitorRecord, MonitorPcs, NoExchange, NoTransfer

LEMMA IdleHandlerType ==
  IdleHandler \in HandlerRecord
BY DEF IdleHandler, HandlerRecord, HandlerPcs, Goals, NoEvent, NoRecord, Event,
       ExchangeRecord, Statuses, NoExchange, NoTransfer

LEMMA IdleBotType ==
  IdleBot \in BotRecord
BY DEF IdleBot, BotRecord, BotPcs, ExchangeRecord, Statuses, NoExchange, NoTransfer

LEMMA StoreInitType == StoreInit => StoreTypeOK
BY DEF StoreInit, StoreTypeOK, ExchangeRecord, Statuses

LEMMA IdleTypes ==
  ASSUME monitor = [c \in Chains |-> IdleMonitor], sent \subseteq Transfers,
         handler = IdleHandler, accumulated \in Nat, payouts \in Seq(Payout),
         bot = IdleBot, resolves \in Nat, touched \subseteq Exchanges
  PROVE  MonitorInv /\ HandlerInv /\ BotInv
<1>1. MonitorInv
      BY IdleMonitorType DEF MonitorInv, MonitorTypeOK, MonitorCursor, IdleMonitor
<1>2. HandlerInv
      BY IdleHandlerType DEF HandlerInv, HandlerTypeOK, IdleHandler
<1>3. BotInv
      BY IdleBotType DEF BotInv, BotTypeOK, IdleBot
<1>4. QED
      BY <1>1, <1>2, <1>3

LEMMA InitType == Init => TypeInv
<1> SUFFICES ASSUME Init PROVE TypeInv
    OBVIOUS
<1>1. StoreTypeOK
      BY StoreInitType DEF Init
<1>2. MonitorInv /\ HandlerInv /\ BotInv
      BY IdleTypes DEF Init, MonitorInit, HandlerInit, BotInit
<1>3. QED
      BY <1>1, <1>2 DEF TypeInv, Init

-----------------------------------------------------------------------------
LEMMA WorldType ==
  ASSUME StoreTypeOK, WorldNext PROVE StoreTypeOK'
<1> USE DEF StoreTypeOK, database, world
<1>1. ASSUME NEW e \in Exchanges, CreateExchange(e) PROVE StoreTypeOK'
  <2>1. PICK quoted \in BOOLEAN :
          exchanges' = [exchanges EXCEPT ![e] =
                          [status |-> "pending", usdt |-> Asked[e], btc |-> quoted]]
        BY <1>1 DEF CreateExchange, PutExchange
  <2>2. [status |-> "pending", usdt |-> Asked[e], btc |-> quoted] \in ExchangeRecord
        BY ExchangeAssumption DEF ExchangeRecord, Statuses
  <2>3. QED
        BY <1>1, <2>1, <2>2 DEF CreateExchange
<1>2. ASSUME NEW e \in Exchanges, Expire(e) PROVE StoreTypeOK'
      BY <1>2 DEF Expire
<1>3. ASSUME NEW t \in Transfers, Transfer(t) PROVE StoreTypeOK'
      BY <1>3 DEF Transfer
<1>4. ASSUME NEW t \in Transfers, Mature(t) PROVE StoreTypeOK'
      BY <1>4 DEF Mature
<1>5. QED
      BY <1>1, <1>2, <1>3, <1>4 DEF WorldNext

-----------------------------------------------------------------------------
(* The monitors.  A step replaces the locals of one of them.                *)

LEMMA LocalInv ==
  ASSUME MonitorInv, NEW c \in Chains, NEW m \in MonitorRecord, Local(c, m),
         MonitorCursor(c, m), sent' \subseteq Transfers
  PROVE  MonitorInv'
<1>1. monitor' = [monitor EXCEPT ![c] = m]
      BY DEF Local
<1>2. monitor \in [Chains -> MonitorRecord] /\ \A d \in Chains : MonitorCursor(d, monitor[d])
      BY DEF MonitorInv, MonitorTypeOK
<1>3. monitor' \in [Chains -> MonitorRecord]
      BY <1>1, <1>2
<1>4. \A d \in Chains : MonitorCursor(d, monitor'[d])
      BY <1>1, <1>2
<1>5. QED
      BY <1>3, <1>4 DEF MonitorInv, MonitorTypeOK, MonitorCursor

LEMMA SharedType ==
  ASSUME StoreTypeOK, MonitorInv, NEW c \in Chains, SharedStep(c)
  PROVE  StoreTypeOK' /\ MonitorInv'
<1> DEFINE m == monitor[c]
<1>1. m \in MonitorRecord /\ MonitorCursor(c, m) /\ sent \subseteq Transfers
      BY DEF MonitorInv, MonitorTypeOK
<1>2. CASE BeginPass(c)
  <2>1. PICK ripe \in {mature} \cup (IF c = "bsc" THEN {{}} ELSE {}) :
          Local(c, [IdleMonitor EXCEPT !.pc = "emit", !.ripe = ripe, !.ready = Ready(c, ripe)])
        BY <1>2 DEF BeginPass
  <2>2. ripe \subseteq Transfers /\ Ready(c, ripe) \subseteq Transfers
        BY <2>1 DEF StoreTypeOK, Ready
  <2> DEFINE n == [IdleMonitor EXCEPT !.pc = "emit", !.ripe = ripe, !.ready = Ready(c, ripe)]
  <2>3. n \in MonitorRecord
        BY <2>2, IdleMonitorType DEF MonitorRecord, MonitorPcs
  <2>4. MonitorCursor(c, n)
        BY DEF MonitorCursor, IdleMonitor, Ready
  <2>5. MonitorInv'
        BY <2>1, <2>3, <2>4, <1>1, <1>2, LocalInv DEF BeginPass
  <2>6. QED
        BY <2>5, <1>2, StoreFrame DEF BeginPass, store
<1>3. ASSUME NEW t \in Transfers, EmitPending(c, t) PROVE StoreTypeOK' /\ MonitorInv'
  <2> DEFINE n == [m EXCEPT !.pc = "mark", !.cur = t, !.known = FALSE, !.ready = @ \ {t}]
  <2>1. n \in MonitorRecord
        BY <1>1 DEF MonitorRecord, MonitorPcs
  <2>2. MonitorCursor(c, n)
        BY <1>1, <1>3 DEF MonitorCursor, EmitPending, MonitorRecord
  <2>3. Local(c, n) /\ sent' \subseteq Transfers
        BY <1>1, <1>3 DEF EmitPending
  <2>4. MonitorInv'
        BY <2>1, <2>2, <2>3, LocalInv
  <2>5. StoreTypeOK'
        BY <1>3, TransferAssumption DEF EmitPending, MarkConfirmed, StoreTypeOK, world
  <2>6. QED
        BY <2>4, <2>5
<1>4. CASE EmitDirect(c)
  <2> DEFINE n == [m EXCEPT !.pc = "mark", !.known = TRUE]
  <2>1. n \in MonitorRecord
        BY <1>1 DEF MonitorRecord, MonitorPcs
  <2>2. m.cur \in Transfers /\ MonitorCursor(c, n)
        BY <1>1, <1>4 DEF MonitorCursor, EmitDirect, At, MonitorRecord
  <2>3. Local(c, n) /\ sent' \subseteq Transfers
        BY <1>1, <1>4 DEF EmitDirect
  <2>4. MonitorInv'
        BY <2>1, <2>2, <2>3, LocalInv
  <2>5. StoreTypeOK'
        BY <1>4, <2>2, TransferAssumption DEF EmitDirect, MarkConfirmed, StoreTypeOK, world
  <2>6. QED
        BY <2>4, <2>5
<1>5. CASE MarkStep(c)
  <2> DEFINE n == [m EXCEPT !.pc = "send"]
  <2>1. n \in MonitorRecord
        BY <1>1 DEF MonitorRecord, MonitorPcs
  <2>2. m.cur \in Transfers /\ MonitorCursor(c, n)
        BY <1>1, <1>5 DEF MonitorCursor, MarkStep, At, MonitorRecord
  <2>3. Local(c, n) /\ sent' \subseteq Transfers
        BY <1>1, <1>5 DEF MarkStep
  <2>4. MonitorInv'
        BY <2>1, <2>2, <2>3, LocalInv
  <2>5. StoreTypeOK'
        BY <1>5, <2>2, TransferAssumption DEF MarkStep, MarkProcessed, StoreTypeOK, world
  <2>6. QED
        BY <2>4, <2>5
<1>6. CASE SendStep(c)
  <2> DEFINE n == [m EXCEPT !.pc = IF m.known THEN "scan" ELSE "emit", !.cur = NoTransfer]
  <2>1. n \in MonitorRecord
        BY <1>1 DEF MonitorRecord, MonitorPcs
  <2>2. m.cur \in Transfers /\ MonitorCursor(c, n)
        BY <1>1, <1>6 DEF MonitorCursor, SendStep, At, MonitorRecord
  <2>3. Local(c, n) /\ sent' \subseteq Transfers
        BY <1>1, <1>6, <2>2 DEF SendStep
  <2>4. MonitorInv'
        BY <2>1, <2>2, <2>3, LocalInv
  <2>5. DepositOf(m.cur, m.known) \in Event
        BY <2>2, TransferAssumption DEF DepositOf, Event
  <2>6. StoreTypeOK'
        BY <1>6, <2>5 DEF SendStep, Enqueue, StoreTypeOK, database, world
  <2>7. QED
        BY <2>4, <2>6
<1>7. CASE ReviewedStep(c)
  <2> DEFINE n == [m EXCEPT !.pc = "scan", !.cur = NoTransfer]
  <2>1. n \in MonitorRecord
        BY <1>1 DEF MonitorRecord, MonitorPcs
  <2>2. m.cur \in Transfers /\ MonitorCursor(c, n)
        BY <1>1, <1>7 DEF MonitorCursor, ReviewedStep, At, MonitorRecord
  <2>3. Local(c, n) /\ sent' \subseteq Transfers
        BY <1>1, <1>7 DEF ReviewedStep
  <2>4. MonitorInv'
        BY <2>1, <2>2, <2>3, LocalInv
  <2>5. StoreTypeOK'
        BY <1>7, <2>2, TransferAssumption DEF ReviewedStep, MarkProcessed, StoreTypeOK, world
  <2>6. QED
        BY <2>4, <2>5
<1>8. QED
      BY <1>2, <1>3, <1>4, <1>5, <1>6, <1>7 DEF SharedStep

\* A reply of the Tron node holds the newest transfers to the address, or none.
LEMMA TronReplies ==
  ASSUME NEW e \in Exchanges, TronQuery(e) \/ TronNoData(e)
  PROVE  \E reply \in SUBSET Page(DepositAddress[e]) : TronReply(e, reply)
      BY DEF TronQuery, TronNoData

LEMMA TronType ==
  ASSUME StoreTypeOK, MonitorInv, TronNextStep
  PROVE  StoreTypeOK' /\ MonitorInv'
<1> DEFINE m == monitor["tron"]
<1>1. "tron" \in Chains /\ m \in MonitorRecord /\ MonitorCursor("tron", m)
      /\ sent \subseteq Transfers
      BY DEF TronNextStep, TronList, TronQuery, TronNoData, TronReply, TronQueryFails, TronSkip,
             TronReview, TronRecord, TronNext, TronEnd, At, MonitorInv, MonitorTypeOK
<1>2. CASE TronList
  <2> DEFINE listed == FirstN(PendingExchanges("tron"), MaxPending)
             amount == [e \in Exchanges |-> IF e \in listed THEN exchanges[e].usdt ELSE 0]
             n == [m EXCEPT !.pc = "scan", !.visit = listed, !.expected = amount]
  <2>1. listed \subseteq Exchanges
        BY DEF FirstN, PendingExchanges
  <2>2. amount \in [Exchanges -> Nat]
        BY DEF StoreTypeOK, ExchangeRecord
  <2>3. n \in MonitorRecord
        BY <1>1, <2>1, <2>2 DEF MonitorRecord, MonitorPcs
  <2>4. MonitorCursor("tron", n)
        BY <1>1 DEF MonitorCursor, MonitorRecord
  <2>5. Local("tron", n) /\ sent' \subseteq Transfers
        BY <1>1, <1>2 DEF TronList
  <2>6. MonitorInv'
        BY <1>1, <2>3, <2>4, <2>5, LocalInv
  <2>7. QED
        BY <2>6, <1>2, StoreFrame DEF TronList, store
<1>3. ASSUME NEW e \in Exchanges, NEW reply \in SUBSET Page(DepositAddress[e]),
            TronReply(e, reply)
     PROVE  StoreTypeOK' /\ MonitorInv'
  <2> DEFINE n == [m EXCEPT !.at = e, !.visit = @ \ {e}, !.todo = reply]
  <2>1. n \in MonitorRecord
        BY <1>1, <1>3 DEF TronReply, MonitorRecord, MonitorPcs, Page, OnChain, StoreTypeOK
  <2>2. MonitorCursor("tron", n)
        BY <1>1, <1>3 DEF MonitorCursor, TronReply, MonitorRecord, Page, OnChain, StoreTypeOK
  <2>3. Local("tron", n) /\ "tron" \in Chains /\ sent' \subseteq Transfers
        BY <1>1, <1>3 DEF TronReply, Page, OnChain, StoreTypeOK
  <2>4. MonitorInv'
        BY <2>1, <2>2, <2>3, LocalInv
  <2>5. StoreTypeOK'
        BY <1>3, StoreFrame DEF TronReply, store
  <2>6. QED
        BY <2>4, <2>5
<1>4. ASSUME NEW t \in Transfers, TronSkip(t) PROVE StoreTypeOK' /\ MonitorInv'
  <2> DEFINE n == [m EXCEPT !.todo = @ \ {t}]
  <2>1. n \in MonitorRecord
        BY <1>1, <1>4 DEF TronSkip, MonitorRecord, MonitorPcs
  <2>2. MonitorCursor("tron", n)
        BY <1>1, <1>4 DEF MonitorCursor, TronSkip, MonitorRecord
  <2>3. Local("tron", n) /\ "tron" \in Chains /\ sent' \subseteq Transfers
        BY <1>1, <1>4 DEF TronSkip
  <2>4. MonitorInv'
        BY <2>1, <2>2, <2>3, LocalInv
  <2>5. StoreTypeOK'
        BY <1>4, StoreFrame DEF TronSkip, store
  <2>6. QED
        BY <2>4, <2>5
<1>5. ASSUME NEW t \in Transfers, TronReview(t) PROVE StoreTypeOK' /\ MonitorInv'
  <2> DEFINE n == [m EXCEPT !.todo = @ \ {t}, !.pc = "reviewed", !.cur = t]
  <2>1. n \in MonitorRecord
        BY <1>1, <1>5 DEF TronReview, MonitorRecord, MonitorPcs, TronNext
  <2>2. MonitorCursor("tron", n)
        BY <1>1, <1>5 DEF MonitorCursor, TronReview, MonitorRecord, TronNext
  <2>3. Local("tron", n) /\ "tron" \in Chains /\ sent' \subseteq Transfers
        BY <1>1, <1>5 DEF TronReview, TronNext
  <2>4. MonitorInv'
        BY <2>1, <2>2, <2>3, LocalInv
  <2>5. [transfer |-> t, expected |-> m.expected[m.at]] \in ReviewRecord
        BY <1>1, <1>5 DEF ReviewRecord, MonitorCursor, TronReview, TronNext, MonitorRecord
  <2>6. StoreTypeOK'
        BY <1>5, <2>5, TransferAssumption DEF TronReview, AddManualReview, StoreTypeOK, world
  <2>7. QED
        BY <2>4, <2>6
<1>6. ASSUME NEW t \in Transfers, TronRecord(t) PROVE StoreTypeOK' /\ MonitorInv'
  <2> DEFINE n == IF t \in m.ripe
                 THEN [m EXCEPT !.todo = @ \ {t}, !.pc = "confirm", !.cur = t]
                 ELSE [m EXCEPT !.todo = @ \ {t}]
  <2>1. n \in MonitorRecord
        BY <1>1, <1>6 DEF TronRecord, MonitorRecord, MonitorPcs, TronNext, At
  <2>2. MonitorCursor("tron", n)
        BY <1>1, <1>6 DEF MonitorCursor, TronRecord, MonitorRecord, TronNext, At
  <2>3. Local("tron", n) /\ "tron" \in Chains /\ sent' \subseteq Transfers
        BY <1>1, <1>6 DEF TronRecord, TronNext, At
  <2>4. MonitorInv'
        BY <2>1, <2>2, <2>3, LocalInv
  <2>5. StoreTypeOK'
        BY <1>6, TransferAssumption DEF TronRecord, AddPendingTx, StoreTypeOK, world
  <2>6. QED
        BY <2>4, <2>5
<1>7. CASE TronQueryFails \/ TronEnd
  <2>1. MonitorCursor("tron", IdleMonitor)
        BY DEF MonitorCursor, IdleMonitor
  <2>2. MonitorInv'
        BY <1>1, <1>7, <2>1, IdleMonitorType, LocalInv DEF TronQueryFails, TronEnd, EndPass
  <2>3. QED
        BY <2>2, <1>7, StoreFrame DEF TronQueryFails, TronEnd, store
<1>8. QED
      BY <1>2, <1>3, <1>4, <1>5, <1>6, <1>7, TronReplies DEF TronNextStep

LEMMA BscType ==
  ASSUME StoreTypeOK, MonitorInv, BscNextStep
  PROVE  StoreTypeOK' /\ MonitorInv'
<1> DEFINE m == monitor["bsc"]
<1>1. "bsc" \in Chains /\ m \in MonitorRecord /\ MonitorCursor("bsc", m)
      /\ sent \subseteq Transfers
      BY DEF BscNextStep, BscLogs, BscLogsFail, BscSkip, BscFound, BscNext, BscReview, BscRecord,
             BscDeep, BscShallow, BscEnd, At, MonitorInv, MonitorTypeOK
<1>2. CASE BscLogs
  <2> DEFINE n == [IdleMonitor EXCEPT !.pc = "scan", !.todo = OnChain("bsc")]
  <2>1. n \in MonitorRecord
        BY <1>1, <1>2, IdleMonitorType DEF BscLogs, MonitorRecord, MonitorPcs, OnChain, IdleMonitor, StoreTypeOK
  <2>2. MonitorCursor("bsc", n)
        BY <1>1, <1>2 DEF MonitorCursor, BscLogs, MonitorRecord, OnChain, IdleMonitor, StoreTypeOK
  <2>3. Local("bsc", n) /\ "bsc" \in Chains /\ sent' \subseteq Transfers
        BY <1>1, <1>2 DEF BscLogs, OnChain, IdleMonitor, StoreTypeOK
  <2>4. MonitorInv'
        BY <2>1, <2>2, <2>3, LocalInv
  <2>5. StoreTypeOK'
        BY <1>2, StoreFrame DEF BscLogs, store
  <2>6. QED
        BY <2>4, <2>5
<1>3. ASSUME NEW t \in Transfers, BscSkip(t) PROVE StoreTypeOK' /\ MonitorInv'
  <2> DEFINE n == [m EXCEPT !.todo = @ \ {t}]
  <2>1. n \in MonitorRecord
        BY <1>1, <1>3 DEF BscSkip, MonitorRecord, MonitorPcs
  <2>2. MonitorCursor("bsc", n)
        BY <1>1, <1>3 DEF MonitorCursor, BscSkip, MonitorRecord
  <2>3. Local("bsc", n) /\ "bsc" \in Chains /\ sent' \subseteq Transfers
        BY <1>1, <1>3 DEF BscSkip
  <2>4. MonitorInv'
        BY <2>1, <2>2, <2>3, LocalInv
  <2>5. StoreTypeOK'
        BY <1>3, StoreFrame DEF BscSkip, store
  <2>6. QED
        BY <2>4, <2>5
<1>4. ASSUME NEW t \in Transfers, BscFound(t) PROVE StoreTypeOK' /\ MonitorInv'
  <2> DEFINE n == [m EXCEPT !.todo = @ \ {t}, !.pc = "check", !.cur = t]
  <2>1. n \in MonitorRecord
        BY <1>1, <1>4 DEF BscFound, MonitorRecord, MonitorPcs, BscNext, First
  <2>2. MonitorCursor("bsc", n)
        BY <1>1, <1>4 DEF MonitorCursor, BscFound, MonitorRecord, BscNext, First
  <2>3. Local("bsc", n) /\ "bsc" \in Chains /\ sent' \subseteq Transfers
        BY <1>1, <1>4 DEF BscFound, BscNext, First
  <2>4. MonitorInv'
        BY <2>1, <2>2, <2>3, LocalInv
  <2>5. StoreTypeOK'
        BY <1>4, StoreFrame DEF BscFound, store
  <2>6. QED
        BY <2>4, <2>5
<1>5. ASSUME NEW e \in Exchanges, BscReview(e) PROVE StoreTypeOK' /\ MonitorInv'
  <2> DEFINE n == [m EXCEPT !.pc = "reviewed"]
  <2>1. n \in MonitorRecord
        BY <1>1, <1>5 DEF BscReview, MonitorRecord, MonitorPcs, At
  <2>2. MonitorCursor("bsc", n)
        BY <1>1, <1>5 DEF MonitorCursor, BscReview, MonitorRecord, At
  <2>3. Local("bsc", n) /\ "bsc" \in Chains /\ sent' \subseteq Transfers
        BY <1>1, <1>5 DEF BscReview, At
  <2>4. MonitorInv'
        BY <2>1, <2>2, <2>3, LocalInv
  <2>5. m.cur \in Transfers
        BY <1>1, <1>5 DEF MonitorCursor, BscReview, At
  <2>6. [transfer |-> m.cur, expected |-> exchanges[e].usdt] \in ReviewRecord
        BY <2>5 DEF ReviewRecord, StoreTypeOK, ExchangeRecord
  <2>7. StoreTypeOK'
        BY <1>5, <2>5, <2>6, TransferAssumption DEF BscReview, AddManualReview, StoreTypeOK, world
  <2>8. QED
        BY <2>4, <2>7
<1>6. CASE BscRecord
  <2> DEFINE n == [m EXCEPT !.pc = "height"]
  <2>1. n \in MonitorRecord
        BY <1>1, <1>6 DEF BscRecord, MonitorRecord, MonitorPcs, At
  <2>2. MonitorCursor("bsc", n)
        BY <1>1, <1>6 DEF MonitorCursor, BscRecord, MonitorRecord, At
  <2>3. Local("bsc", n) /\ "bsc" \in Chains /\ sent' \subseteq Transfers
        BY <1>1, <1>6 DEF BscRecord, At
  <2>4. MonitorInv'
        BY <2>1, <2>2, <2>3, LocalInv
  <2>5. m.cur \in Transfers
        BY <1>1, <1>6 DEF MonitorCursor, BscRecord, At
  <2>6. StoreTypeOK'
        BY <1>6, <2>5, TransferAssumption DEF BscRecord, AddPendingTx, StoreTypeOK, world
  <2>7. QED
        BY <2>4, <2>6
<1>7. CASE BscDeep
  <2> DEFINE n == [m EXCEPT !.pc = "confirm", !.matched = @ + 1]
  <2>0. m.matched + 1 \in Nat
        BY <1>1 DEF MonitorRecord
  <2>1. n \in MonitorRecord
        BY <1>1, <2>0 DEF MonitorRecord, MonitorPcs
  <2>2. MonitorCursor("bsc", n)
        BY <1>1, <1>7 DEF MonitorCursor, BscDeep, MonitorRecord, At
  <2>3. Local("bsc", n) /\ "bsc" \in Chains /\ sent' \subseteq Transfers
        BY <1>1, <1>7 DEF BscDeep, At
  <2>4. MonitorInv'
        BY <2>1, <2>2, <2>3, LocalInv
  <2>5. StoreTypeOK'
        BY <1>7, StoreFrame DEF BscDeep, store
  <2>6. QED
        BY <2>4, <2>5
<1>8. CASE BscShallow
  <2> DEFINE n == [m EXCEPT !.pc = "scan", !.cur = NoTransfer, !.matched = @ + 1]
  <2>0. m.matched + 1 \in Nat
        BY <1>1 DEF MonitorRecord
  <2>1. n \in MonitorRecord
        BY <1>1, <2>0 DEF MonitorRecord, MonitorPcs
  <2>2. MonitorCursor("bsc", n)
        BY <1>1, <1>8 DEF MonitorCursor, BscShallow, MonitorRecord, At, NoTransfer
  <2>3. Local("bsc", n) /\ "bsc" \in Chains /\ sent' \subseteq Transfers
        BY <1>1, <1>8 DEF BscShallow, At, NoTransfer
  <2>4. MonitorInv'
        BY <2>1, <2>2, <2>3, LocalInv
  <2>5. StoreTypeOK'
        BY <1>8, StoreFrame DEF BscShallow, store
  <2>6. QED
        BY <2>4, <2>5
<1>9. CASE BscLogsFail \/ BscEnd
  <2>1. MonitorCursor("bsc", IdleMonitor)
        BY DEF MonitorCursor, IdleMonitor
  <2>2. MonitorInv'
        BY <1>1, <1>9, <2>1, IdleMonitorType, LocalInv DEF BscLogsFail, BscEnd, EndPass
  <2>3. QED
        BY <2>2, <1>9, StoreFrame DEF BscLogsFail, BscEnd, store
<1>10. QED
      BY <1>2, <1>3, <1>4, <1>5, <1>6, <1>7, <1>8, <1>9 DEF BscNextStep

LEMMA MonitorType ==
  ASSUME TypeInv, MonitorStep PROVE TypeInv'
<1>1. StoreTypeOK' /\ MonitorInv'
      BY SharedType, TronType, BscType DEF TypeInv, MonitorStep, MonitorNext
<1>2. QED
      BY <1>1, HandlerFrame, BotFrame DEF TypeInv, MonitorStep

-----------------------------------------------------------------------------
(* The deposit handler.                                                     *)

LEMMA HandlerType ==
  ASSUME StoreTypeOK, HandlerInv, HandlerNext
  PROVE  StoreTypeOK' /\ HandlerInv'
<1> USE DEF HandlerInv, HandlerTypeOK
<1>1. CASE Receive
  <2>1. Head(queue) \in Event /\ Tail(queue) \in Seq(Event)
        BY <1>1 DEF Receive, StoreTypeOK
  <2>2. [IdleHandler EXCEPT !.pc = "find", !.event = Head(queue)] \in HandlerRecord
        BY <2>1, IdleHandlerType DEF HandlerRecord, HandlerPcs
  <2>3. handler' \in HandlerRecord /\ handler'.pc \in {"idle", "find"}
        BY <1>1, <2>2, IdleHandlerType DEF Receive, IdleHandler
  <2>4. HandlerInv'
        BY <1>1, <2>3 DEF Receive
  <2>5. StoreTypeOK'
        BY <1>1, <2>1 DEF Receive, StoreTypeOK, database, world
  <2>6. QED
        BY <2>4, <2>5
<1>2. ASSUME NEW e \in Exchanges, Find(e) PROVE StoreTypeOK' /\ HandlerInv'
  <2>1. exchanges[e].btc \in BOOLEAN
        BY DEF StoreTypeOK, ExchangeRecord
  <2>2. HandlerInv'
        BY <1>2, <2>1 DEF Find, HandlerRecord, HandlerPcs, Goals
  <2>3. QED
        BY <1>2, <2>2, StoreFrame DEF Find, store
<1>3. CASE FindNone
  <2>1. HandlerInv'
        BY <1>3 DEF FindNone, HandlerRecord, HandlerPcs
  <2>2. QED
        BY <1>3, <2>1, StoreFrame DEF FindNone, store
<1>4. CASE StatusGet
  <2>1. exchanges[handler.ex] \in ExchangeRecord
        BY <1>4 DEF StatusGet, StoreTypeOK
  <2>2. HandlerInv'
        BY <1>4, <2>1 DEF StatusGet, HandlerRecord, HandlerPcs
  <2>3. QED
        BY <1>4, <2>2, StoreFrame DEF StatusGet, store
<1>5. CASE StatusPut
  <2>1. handler.ex \in Exchanges /\ handler.goal \in Statuses
        BY <1>5 DEF StatusPut, HandlerRecord, Goals, Statuses
  <2>2. [handler.copy EXCEPT !.status = handler.goal] \in ExchangeRecord
        BY <2>1 DEF HandlerRecord, ExchangeRecord
  <2>3. StoreTypeOK'
        BY <1>5, <2>1, <2>2 DEF StatusPut, PutExchange, StoreTypeOK, world
  <2>4. NoRecord \in ExchangeRecord
        BY DEF NoRecord, ExchangeRecord, Statuses
  <2>5. HandlerInv'
        BY <1>5, <2>1, <2>4 DEF StatusPut, HandlerRecord, HandlerPcs, Goals
  <2>6. QED
        BY <2>3, <2>5
<1>6. ASSUME NEW broadcast \in BOOLEAN, NEW ok \in BOOLEAN, Pay(broadcast, ok)
      PROVE  StoreTypeOK' /\ HandlerInv'
  <2>1. handler.ex \in Exchanges
        BY <1>6 DEF Pay
  <2>2. [exchange |-> handler.ex, transfer |-> handler.event.transfer,
         src |-> handler.event.src] \in Payout
        BY <2>1 DEF Payout, HandlerRecord, Event
  <2>3. payouts' \in Seq(Payout)
        BY <1>6, <2>2 DEF Pay
  <2>4. HandlerInv'
        BY <1>6, <2>1, <2>3 DEF Pay, HandlerRecord, HandlerPcs, Goals
  <2>5. QED
        BY <1>6, <2>4, StoreFrame DEF Pay, store
<1>7. CASE AddDeposit
  <2>1. handler.event.amount \in Nat
        BY DEF HandlerRecord, Event
  <2>2. accumulated' \in Nat
        BY <1>7, <2>1 DEF AddDeposit
  <2>3. HandlerInv'
        BY <1>7, <2>2, IdleHandlerType DEF AddDeposit, IdleHandler
  <2>4. QED
        BY <1>7, <2>3, StoreFrame DEF AddDeposit, store
<1>8. QED
      BY <1>1, <1>2, <1>3, <1>4, <1>5, <1>6, <1>7 DEF HandlerNext

-----------------------------------------------------------------------------
(* The bot.                                                                 *)

LEMMA AcceptType ==
  ASSUME StoreTypeOK, BotInv, NEW b \in BotRecord, b.ex \in Exchanges, Accept(b)
  PROVE  StoreTypeOK' /\ BotInv'
<1>1. BotInv'
      BY DEF Accept, BotInv, BotTypeOK
<1>2. QED
      BY <1>1, StoreFrame DEF Accept, store

LEMMA BotType ==
  ASSUME StoreTypeOK, BotInv, BotNext
  PROVE  StoreTypeOK' /\ BotInv'
<1>1. ASSUME NEW h \in Hashes, NEW e \in Exchanges, ResolveReview(h, e)
      PROVE  StoreTypeOK' /\ BotInv'
  <2>1. PICK r \in reviews[h] :
          Accept([IdleBot EXCEPT !.pc = "amountsGet", !.ex = e, !.transfer = r.transfer,
                                 !.amount = TransferAmount[r.transfer]])
        BY <1>1 DEF ResolveReview
  <2>2. r.transfer \in Transfers /\ TransferAmount[r.transfer] \in Nat
        BY TransferAssumption DEF StoreTypeOK, ReviewRecord
  <2> DEFINE b == [IdleBot EXCEPT !.pc = "amountsGet", !.ex = e, !.transfer = r.transfer,
                                  !.amount = TransferAmount[r.transfer]]
  <2>3. b \in BotRecord
        BY <2>2, IdleBotType DEF BotRecord, BotPcs
  <2>4. b.ex \in Exchanges
        BY DEF IdleBot
  <2>5. QED
        BY <2>1, <2>3, <2>4, AcceptType
<1>2. ASSUME NEW e \in Exchanges, ResolveExchange(e) PROVE StoreTypeOK' /\ BotInv'
  <2> DEFINE b == [IdleBot EXCEPT !.pc = "statusGet", !.ex = e, !.amount = exchanges[e].usdt]
  <2>1. b \in BotRecord
        BY IdleBotType DEF BotRecord, BotPcs, StoreTypeOK, ExchangeRecord
  <2>2. b.ex \in Exchanges
        BY DEF IdleBot
  <2>3. QED
        BY <1>2, <2>1, <2>2, AcceptType DEF ResolveExchange
<1>3. CASE AmountsGet \/ BotStatusGet
  <2>1. exchanges[bot.ex] \in ExchangeRecord
        BY <1>3 DEF AmountsGet, BotStatusGet, BotInv, StoreTypeOK
  <2>2. BotInv'
        BY <1>3, <2>1 DEF AmountsGet, BotStatusGet, BotLocal, BotInv, BotTypeOK, BotRecord, BotPcs
  <2>3. QED
        BY <1>3, <2>2, StoreFrame DEF AmountsGet, BotStatusGet, store
<1>4. CASE AmountsPut \/ BotStatusPut
  <2>1. bot.ex \in Exchanges /\ bot \in BotRecord
        BY <1>4 DEF AmountsPut, BotStatusPut, BotInv, BotTypeOK
  <2>2. /\ [bot.copy EXCEPT !.usdt = bot.amount] \in ExchangeRecord
        /\ [bot.copy EXCEPT !.status = "deposit_detected"] \in ExchangeRecord
        BY <2>1 DEF BotRecord, ExchangeRecord, Statuses
  <2>3. StoreTypeOK'
        BY <1>4, <2>1, <2>2 DEF AmountsPut, BotStatusPut, PutExchange, StoreTypeOK, world
  <2>4. IdleBot.copy \in ExchangeRecord
        BY IdleBotType DEF BotRecord
  <2>5. BotInv'
        BY <1>4, <2>1, <2>4
        DEF AmountsPut, BotStatusPut, BotLocal, BotInv, BotTypeOK, BotRecord, BotPcs
  <2>6. QED
        BY <2>3, <2>5
<1>5. CASE BotSend
  <2>1. bot.ex \in Exchanges /\ bot \in BotRecord
        BY <1>5 DEF BotSend, BotInv, BotTypeOK
  <2>2. [transfer |-> bot.transfer, to |-> DepositAddress[bot.ex],
         amount |-> bot.amount, src |-> "bot"] \in Event
        BY <2>1, ExchangeAssumption DEF BotRecord, Event
  <2>3. StoreTypeOK'
        BY <1>5, <2>2 DEF BotSend, Enqueue, StoreTypeOK, database, world
  <2>4. BotInv'
        BY <1>5, IdleBotType DEF BotSend, BotLocal, BotInv, BotTypeOK, IdleBot
  <2>5. QED
        BY <2>3, <2>4
<1>6. QED
      BY <1>1, <1>2, <1>3, <1>4, <1>5 DEF BotNext

-----------------------------------------------------------------------------
LEMMA CrashType ==
  ASSUME TypeInv, Crash PROVE TypeInv'
<1>1. MonitorInv'
      BY IdleMonitorType
      DEF TypeInv, Crash, MonitorInv, MonitorTypeOK, MonitorCursor, IdleMonitor
<1>2. HandlerInv'
      BY IdleHandlerType DEF TypeInv, Crash, HandlerInv, HandlerTypeOK, IdleHandler
<1>3. BotInv'
      BY IdleBotType DEF TypeInv, Crash, BotInv, BotTypeOK, IdleBot
<1>4. StoreTypeOK' /\ crashes' \in Nat
      BY DEF TypeInv, Crash, StoreTypeOK, database, world
<1>5. QED
      BY <1>1, <1>2, <1>3, <1>4 DEF TypeInv

LEMMA StepType ==
  ASSUME TypeInv, [Next]_vars PROVE TypeInv'
<1>1. CASE WorldStep
      BY <1>1, WorldType, MonitorFrame, HandlerFrame, BotFrame DEF TypeInv, WorldStep
<1>2. CASE MonitorStep
      BY <1>2, MonitorType
<1>3. CASE HandlerStep
      BY <1>3, HandlerType, MonitorFrame, BotFrame DEF TypeInv, HandlerStep
<1>4. CASE BotStep
      BY <1>4, BotType, MonitorFrame, HandlerFrame DEF TypeInv, BotStep
<1>5. CASE Crash
      BY <1>5, CrashType
<1>6. CASE UNCHANGED vars
      BY <1>6, StoreFrame, MonitorFrame, HandlerFrame, BotFrame DEF TypeInv, vars
<1>7. QED
      BY <1>1, <1>2, <1>3, <1>4, <1>5, <1>6 DEF Next

\* Every variable keeps its type, and the tasks' locals hold an identifier
\* wherever the code uses one, in every behaviour of the node.
THEOREM TypeCorrect == Spec => []TypeInv
BY InitType, StepType, PTL DEF Spec

\* The type invariant of the runs.
COROLLARY TypeOKCorrect == Spec => []TypeOK
<1>1. TypeInv => TypeOK
      BY DEF TypeInv, TypeOK, MonitorInv, HandlerInv, BotInv
<1>2. QED
      BY <1>1, TypeCorrect, PTL

-----------------------------------------------------------------------------
(* A transaction is paid for at most once.                                  *)

LEMMA EventFrame ==
  ASSUME EventDelivery, UNCHANGED <<queue, sent>>, UNCHANGED handlerVars
  PROVE  EventDelivery'
BY DEF EventDelivery, Queued, Paid, HoldsUnpaid, PaidOncePerTransaction, handlerVars

LEMMA TreeFrame ==
  ASSUME DeliveryInv, UNCHANGED monitorVars, UNCHANGED <<pendingTx, confirmed, processed>>
  PROVE  StoreDelivery' /\ \A c \in Chains : MonitorDelivery(monitor[c])'
BY DEF DeliveryInv, StoreDelivery, MonitorDelivery, Delivered, monitorVars

LEMMA InitDelivery == Init => DeliveryInv
<1> SUFFICES ASSUME Init PROVE DeliveryInv
    OBVIOUS
<1>1. StoreDelivery
      BY DEF Init, StoreInit, MonitorInit, StoreDelivery
<1>2. \A c \in Chains : MonitorDelivery(monitor[c])
      BY DEF Init, MonitorInit, IdleMonitor, MonitorDelivery
<1>3. EventDelivery
      BY DEF Init, StoreInit, HandlerInit, IdleHandler, NoEvent, EventDelivery, Queued, Paid,
             HoldsUnpaid, PaidOncePerTransaction
<1>4. QED
      BY <1>1, <1>2, <1>3 DEF DeliveryInv

LEMMA WorldDelivery ==
  ASSUME DeliveryInv, WorldStep PROVE DeliveryInv'
<1>1. UNCHANGED <<pendingTx, confirmed, processed, queue>>
      BY DEF WorldStep, WorldNext, CreateExchange, Expire, Transfer, Mature, database
<1>2. QED
      BY <1>1, TreeFrame, EventFrame DEF DeliveryInv, WorldStep, monitorVars

LEMMA CrashDelivery ==
  ASSUME DeliveryInv, Crash PROVE DeliveryInv'
<1>1. StoreDelivery'
      BY DEF Crash, DeliveryInv, StoreDelivery, database
<1>2. \A c \in Chains : MonitorDelivery(monitor[c])'
      BY DEF Crash, IdleMonitor, MonitorDelivery
<1>3. EventDelivery'
      BY DEF Crash, DeliveryInv, EventDelivery, Queued, Paid, HoldsUnpaid, IdleHandler,
             PaidOncePerTransaction
<1>4. QED
      BY <1>1, <1>2, <1>3 DEF DeliveryInv

\* The bot only adds events of its own to the channel.
LEMMA BotDelivery ==
  ASSUME TypeInv, DeliveryInv, BotStep PROVE DeliveryInv'
<1>1. UNCHANGED <<pendingTx, confirmed, processed>>
      BY DEF BotStep, BotNext, ResolveReview, ResolveExchange, Accept, AmountsGet, AmountsPut,
             BotStatusGet, BotStatusPut, BotSend, database
<1>2. StoreDelivery' /\ \A c \in Chains : MonitorDelivery(monitor[c])'
      BY <1>1, TreeFrame DEF BotStep
<1>3. CASE BotSend
  <2> DEFINE ev == [transfer |-> bot.transfer, to |-> DepositAddress[bot.ex],
                    amount |-> bot.amount, src |-> "bot"]
  <2>1. queue \in Seq(Event) /\ queue' = Append(queue, ev) /\ ev.src = "bot"
        BY <1>3 DEF BotSend, Enqueue, TypeInv, StoreTypeOK
  <2>2. /\ Len(queue') = Len(queue) + 1
        /\ \A i \in 1..Len(queue) : queue'[i] = queue[i]
        /\ queue'[Len(queue')].src = "bot"
        /\ Len(queue) \in Nat
        BY <2>1
  <2>3. \A i \in 1..Len(queue') : queue'[i].src = "monitor"
          => i \in 1..Len(queue) /\ queue'[i] = queue[i]
        BY <2>2
  <2>4. \A h \in Hashes : Queued(h)' => Queued(h)
        BY <2>3 DEF Queued
  <2>5. UNCHANGED <<handler, payouts, sent>>
        BY DEF BotStep, monitorVars, handlerVars
  <2>6. \A t \in sent : HashOf[t] \in Hashes
        BY TransferAssumption DEF TypeInv, MonitorInv, MonitorTypeOK
  <2>7. EventDelivery'
        BY <2>3, <2>4, <2>5, <2>6
        DEF DeliveryInv, EventDelivery, Paid, HoldsUnpaid, PaidOncePerTransaction
  <2>8. QED
        BY <1>2, <2>7 DEF DeliveryInv
<1>4. CASE UNCHANGED queue
      BY <1>2, <1>4, EventFrame DEF BotStep, DeliveryInv, monitorVars
<1>5. QED
      BY <1>3, <1>4 DEF BotStep, BotNext, ResolveReview, ResolveExchange, Accept, AmountsGet,
                        AmountsPut, BotStatusGet, BotStatusPut

\* The handler moves an event from the channel to its hands, and from there to
\* the payouts.
LEMMA HandlerDelivery ==
  ASSUME TypeInv, DeliveryInv, HandlerStep PROVE DeliveryInv'
<1>1. UNCHANGED <<pendingTx, confirmed, processed, sent>>
      BY DEF HandlerStep, HandlerNext, Receive, Find, FindNone, StatusGet, StatusPut, Pay,
             AddDeposit, database, monitorVars
<1>2. StoreDelivery' /\ \A c \in Chains : MonitorDelivery(monitor[c])'
      BY <1>1, TreeFrame DEF HandlerStep
<1>3. queue \in Seq(Event) /\ handler \in HandlerRecord /\ payouts \in Seq(Payout)
      /\ sent \subseteq Transfers
      BY DEF TypeInv, StoreTypeOK, HandlerInv, HandlerTypeOK, MonitorInv, MonitorTypeOK
<1>4. \A t \in sent : HashOf[t] \in Hashes
      BY <1>3, TransferAssumption
<1>5. EventDelivery
      BY DEF DeliveryInv
<1>6. CASE Receive
  <2> DEFINE n == Len(queue)
  <2>1. /\ queue' = Tail(queue) /\ queue # <<>> /\ UNCHANGED payouts
        /\ handler'.pc \in {"idle", "find"}
        /\ handler'.pc = "find" => handler'.event = queue[1]
        BY <1>3, <1>6, IdleHandlerType DEF Receive, HandlerRecord, IdleHandler
  <2>2. /\ n \in Nat /\ n >= 1 /\ Len(queue') = n - 1
        /\ \A i \in 1..Len(queue') : i + 1 \in 2..n /\ queue'[i] = queue[i + 1]
        BY <1>3, <2>1
  <2>3. \A h \in Hashes : Queued(h)' => Queued(h)
        BY <2>2 DEF Queued
  <2>4. \A h \in Hashes : Paid(h)' <=> Paid(h)
        BY <2>1 DEF Paid
  <2>5. \A i \in 1..Len(queue') : queue'[i].src = "monitor" => queue'[i].transfer \in sent
        BY <1>5, <2>2 DEF EventDelivery
  <2>6. \A i, j \in 1..Len(queue') :
          /\ queue'[i].src = "monitor" /\ queue'[j].src = "monitor"
          /\ HashOf[queue'[i].transfer] = HashOf[queue'[j].transfer]
          => i = j
    <3>1. SUFFICES ASSUME NEW i \in 1..Len(queue'), NEW j \in 1..Len(queue'),
                          queue'[i].src = "monitor", queue'[j].src = "monitor",
                          HashOf[queue'[i].transfer] = HashOf[queue'[j].transfer]
                   PROVE  i = j
          OBVIOUS
    <3>2. /\ i + 1 \in 1..n /\ j + 1 \in 1..n
          /\ queue'[i] = queue[i + 1] /\ queue'[j] = queue[j + 1]
          BY <2>2
    <3>3. i + 1 = j + 1
          BY <1>5, <3>1, <3>2 DEF EventDelivery
    <3>4. QED
          BY <2>2, <3>3
  <2>7. ASSUME HoldsUnpaid'
        PROVE  \E t \in sent : /\ t = handler'.event.transfer
                               /\ ~Queued(HashOf[t])' /\ ~Paid(HashOf[t])'
    <3>1. handler'.event = queue[1] /\ queue[1].src = "monitor" /\ 1 \in 1..n
          BY <2>1, <2>2, <2>7 DEF HoldsUnpaid
    <3>2. PICK t \in sent : t = queue[1].transfer
          BY <1>5, <3>1 DEF EventDelivery
    <3>3. ASSUME NEW i \in 1..Len(queue'), queue'[i].src = "monitor",
                 HashOf[queue'[i].transfer] = HashOf[t]
          PROVE  FALSE
      <4>1. i + 1 \in 1..n /\ queue'[i] = queue[i + 1] /\ i + 1 # 1
            BY <2>2
      <4>2. i + 1 = 1
            BY <1>5, <3>1, <3>2, <3>3, <4>1 DEF EventDelivery
      <4>3. QED
            BY <4>1, <4>2
    <3>4. ~Queued(HashOf[t])'
          BY <3>3 DEF Queued
    <3>5. Queued(HashOf[t]) /\ HashOf[t] \in Hashes
          BY <1>4, <3>1, <3>2 DEF Queued
    <3>6. ~Paid(HashOf[t])'
          BY <1>5, <2>4, <3>5 DEF EventDelivery
    <3>7. QED
          BY <3>1, <3>2, <3>4, <3>6
  <2>8. handler'.pc # "pay"
        BY <2>1
  <2>9. \A h \in Hashes : ~(Queued(h)' /\ Paid(h)')
        BY <1>5, <2>3, <2>4 DEF EventDelivery
  <2>10. /\ \A i \in 1..Len(payouts') :
              payouts'[i].src = "monitor" => payouts'[i].transfer \in sent'
         /\ PaidOncePerTransaction'
        BY <1>1, <1>5, <2>1 DEF EventDelivery, PaidOncePerTransaction
  <2>11. EventDelivery'
        BY <1>1, <2>5, <2>6, <2>7, <2>8, <2>9, <2>10 DEF EventDelivery
  <2>12. QED
        BY <1>2, <2>11 DEF DeliveryInv
<1>7. ASSUME NEW broadcast \in BOOLEAN, NEW ok \in BOOLEAN, Pay(broadcast, ok)
      PROVE  DeliveryInv'
  <2> DEFINE n == Len(payouts)
             p == [exchange |-> handler.ex, transfer |-> handler.event.transfer,
                   src |-> handler.event.src]
  <2>1. /\ UNCHANGED queue /\ handler.pc = "pay" /\ n \in Nat
        /\ handler'.goal \in {"sent", "error"} /\ handler'.pc = "get"
        BY <1>3, <1>7 DEF Pay, HandlerRecord
  <2>2. ~HoldsUnpaid' /\ handler'.pc # "pay"
        BY <2>1 DEF HoldsUnpaid
  <2>3. CASE UNCHANGED payouts
        BY <1>1, <1>2, <1>5, <2>1, <2>2, <2>3
        DEF DeliveryInv, EventDelivery, Queued, Paid, PaidOncePerTransaction
  <2>4. CASE payouts' = Append(payouts, p)
    <3>1. /\ Len(payouts') = n + 1
          /\ \A i \in 1..n : payouts'[i] = payouts[i]
          /\ payouts'[n + 1] = p
          BY <1>3, <2>4
    <3>2. p.src = "monitor" =>
            p.transfer \in sent /\ ~Queued(HashOf[p.transfer]) /\ ~Paid(HashOf[p.transfer])
          BY <1>5, <2>1 DEF EventDelivery, HoldsUnpaid
    <3>3. \A i \in 1..Len(payouts') : i \in 1..n \/ i = n + 1
          BY <2>1, <3>1
    <3>4. \A i \in 1..Len(payouts') :
            payouts'[i].src = "monitor" => payouts'[i].transfer \in sent
          BY <1>5, <3>1, <3>2, <3>3 DEF EventDelivery
    <3>5. \A h \in Hashes : Queued(h)' <=> Queued(h)
          BY <2>1 DEF Queued
    <3>6. \A h \in Hashes : Paid(h)' => Paid(h) \/ (p.src = "monitor" /\ HashOf[p.transfer] = h)
          BY <3>1, <3>3 DEF Paid
    <3>7. \A h \in Hashes : ~(Queued(h)' /\ Paid(h)')
          BY <1>5, <3>2, <3>5, <3>6 DEF EventDelivery
    <3>8. PaidOncePerTransaction'
      <4>1. SUFFICES ASSUME NEW i \in 1..Len(payouts'), NEW j \in 1..Len(payouts'),
                            payouts'[i].src = "monitor", payouts'[j].src = "monitor",
                            HashOf[payouts'[i].transfer] = HashOf[payouts'[j].transfer]
                     PROVE  i = j
            BY DEF PaidOncePerTransaction
      <4>2. CASE i \in 1..n /\ j \in 1..n
            BY <1>5, <3>1, <4>1, <4>2 DEF EventDelivery, PaidOncePerTransaction
      <4>3. CASE i \in 1..n /\ j = n + 1
            BY <3>1, <3>2, <4>1, <4>3 DEF Paid
      <4>4. CASE i = n + 1 /\ j \in 1..n
            BY <3>1, <3>2, <4>1, <4>4 DEF Paid
      <4>5. QED
            BY <3>3, <4>2, <4>3, <4>4
    <3>9. EventDelivery'
          BY <1>1, <1>5, <2>1, <2>2, <3>4, <3>7, <3>8 DEF EventDelivery
    <3>10. QED
          BY <1>2, <3>9 DEF DeliveryInv
  <2>5. QED
        BY <1>7, <2>3, <2>4 DEF Pay
<1>8. CASE (\E e \in Exchanges : Find(e)) \/ FindNone \/ StatusGet \/ StatusPut \/ AddDeposit
  <2>1. UNCHANGED <<queue, payouts>>
        BY <1>8 DEF Find, FindNone, StatusGet, StatusPut, AddDeposit
  <2>2. HoldsUnpaid' => HoldsUnpaid /\ handler'.event = handler.event
    <3>1. CASE \E e \in Exchanges : Find(e)
          BY <1>3, <3>1 DEF HoldsUnpaid, HandlerRecord, Find, IdleHandler
    <3>2. CASE FindNone \/ AddDeposit
          BY <1>3, <3>2 DEF HoldsUnpaid, HandlerRecord, FindNone, AddDeposit, IdleHandler
    <3>3. CASE StatusGet
          BY <1>3, <3>3 DEF HoldsUnpaid, HandlerRecord, StatusGet
    <3>4. CASE StatusPut
          BY <1>3, <3>4 DEF HoldsUnpaid, HandlerRecord, StatusPut
    <3>5. QED
          BY <1>8, <3>1, <3>2, <3>3, <3>4
  <2>3. handler'.pc = "pay" => handler'.goal = "sending"
    <3>1. CASE \E e \in Exchanges : Find(e)
          BY <1>3, <3>1 DEF HandlerRecord, Find
    <3>2. CASE FindNone \/ StatusGet
          BY <1>3, <3>2 DEF HandlerRecord, FindNone, StatusGet
    <3>3. CASE AddDeposit
          BY <3>3 DEF AddDeposit, IdleHandler
    <3>4. CASE StatusPut
          BY <1>3, <3>4 DEF HandlerRecord, StatusPut
    <3>5. QED
          BY <1>8, <3>1, <3>2, <3>3, <3>4
  <2>4. EventDelivery'
        BY <1>1, <1>5, <2>1, <2>2, <2>3
        DEF EventDelivery, Queued, Paid, PaidOncePerTransaction
  <2>5. QED
        BY <1>2, <2>4 DEF DeliveryInv
<1>9. QED
      BY <1>6, <1>7, <1>8 DEF HandlerStep, HandlerNext

-----------------------------------------------------------------------------
(* The monitors.  What one of them does to its own locals leaves the other  *)
(* alone, as their transactions never share a hash.                         *)

LEMMA LocalOnly ==
  ASSUME MonitorInv, NEW c \in Chains, NEW n, Local(c, n)
  PROVE  monitor'[c] = n /\ \A d \in Chains \ {c} : monitor'[d] = monitor[d]
BY DEF Local, MonitorInv, MonitorTypeOK

\* A step that sends nothing and records nothing.
LEMMA LocalDelivery ==
  ASSUME DeliveryInv, NEW c \in Chains,
         \A d \in Chains \ {c} : monitor'[d] = monitor[d],
         UNCHANGED <<pendingTx, sent, queue, handlerVars>>,
         confirmed \subseteq confirmed', processed \subseteq processed',
         MonitorDelivery(monitor[c])'
  PROVE  DeliveryInv'
<1>1. StoreDelivery'
      BY DEF DeliveryInv, StoreDelivery
<1>2. ASSUME NEW d \in Chains PROVE MonitorDelivery(monitor[d])'
  <2>1. CASE d = c
        BY <2>1
  <2>2. CASE d # c
    <3>1. monitor'[d] = monitor[d] /\ MonitorDelivery(monitor[d])
          BY <2>2 DEF DeliveryInv
    <3>2. QED
          BY <3>1 DEF MonitorDelivery, Delivered
  <2>3. QED
        BY <2>1, <2>2
<1>3. EventDelivery'
      BY EventFrame DEF DeliveryInv
<1>4. QED
      BY <1>1, <1>2, <1>3 DEF DeliveryInv

\* A monitor that has nothing in its hands and nothing on its list.
LEMMA QuietDelivery ==
  ASSUME NEW c \in Chains,
         monitor'[c].pc \in {"idle", "emit", "scan", "reviewed"}, monitor'[c].ready = {}
  PROVE  MonitorDelivery(monitor[c])'
BY DEF MonitorDelivery

\* add_pending_tx of a transaction that was never sent.
LEMMA RecordDelivery ==
  ASSUME TypeInv, DeliveryInv, NEW c \in Chains, NEW t \in Transfers,
         TransferChain[t] = c, ~Delivered(HashOf[t]), AddPendingTx(t),
         \A d \in Chains \ {c} : monitor'[d] = monitor[d],
         UNCHANGED <<processed, sent, queue, handlerVars>>,
         MonitorDelivery(monitor[c])'
  PROVE  DeliveryInv'
<1> DEFINE h == HashOf[t]
<1>1. /\ h \in Hashes /\ pendingTx \in [Hashes -> SUBSET Transfers]
      /\ pendingTx' = [pendingTx EXCEPT ![h] = {t}]
      /\ confirmed' = confirmed \ {h}
      BY TransferAssumption DEF TypeInv, StoreTypeOK, AddPendingTx
<1>2. sent \subseteq Transfers
      BY DEF TypeInv, MonitorInv, MonitorTypeOK
<1>3. StoreDelivery'
      BY <1>1, <1>2 DEF DeliveryInv, StoreDelivery, Delivered
<1>4. ASSUME NEW d \in Chains PROVE MonitorDelivery(monitor[d])'
  <2>1. CASE d = c
        BY <2>1
  <2>2. CASE d # c
    <3> DEFINE m == monitor[d]
    <3>1. monitor'[d] = m /\ MonitorDelivery(m) /\ MonitorCursor(d, m) /\ m \in MonitorRecord
          BY <2>2 DEF DeliveryInv, TypeInv, MonitorInv, MonitorTypeOK
    <3>2. \A u \in Transfers : TransferChain[u] = d => HashOf[u] # h /\ HashOf[u] \in Hashes
          BY <2>2, TransferAssumption
    <3>3. m.pc \in {"check", "height", "confirm", "mark", "send"}
            => HashOf[m.cur] # h /\ HashOf[m.cur] \in Hashes
          BY <3>1, <3>2 DEF MonitorCursor
    <3>4. \A u \in m.ready : HashOf[u] # h /\ HashOf[u] \in Hashes
          BY <3>1, <3>2 DEF MonitorCursor, MonitorRecord
    <3>5. QED
          BY <1>1, <3>1, <3>3, <3>4 DEF MonitorDelivery, Delivered
  <2>3. QED
        BY <2>1, <2>2
<1>5. EventDelivery'
      BY EventFrame DEF DeliveryInv
<1>6. QED
      BY <1>3, <1>4, <1>5 DEF DeliveryInv

\* The event is new on the channel: nothing with its hash was sent before.
LEMMA SendDelivery ==
  ASSUME TypeInv, DeliveryInv, NEW c \in Chains, SendStep(c), UNCHANGED handlerVars
  PROVE  DeliveryInv'
<1> DEFINE m == monitor[c]
           t == m.cur
           h == HashOf[t]
           ev == DepositOf(t, m.known)
           n == Len(queue)
<1>1. /\ m \in MonitorRecord /\ MonitorCursor(c, m) /\ MonitorDelivery(m) /\ m.pc = "send"
      /\ sent \subseteq Transfers /\ queue \in Seq(Event)
      BY DEF TypeInv, DeliveryInv, MonitorInv, MonitorTypeOK, SendStep, At, StoreTypeOK
<1>2. /\ t \in Transfers /\ TransferChain[t] = c /\ h \in Hashes
      /\ ~Delivered(h) /\ h \in processed /\ h \in confirmed
      BY <1>1, TransferAssumption DEF MonitorCursor, MonitorDelivery
<1>3. /\ sent' = sent \cup {t} /\ queue' = Append(queue, ev)
      /\ UNCHANGED <<pendingTx, confirmed, processed, handler, payouts>>
      BY DEF SendStep, Enqueue, database, handlerVars
<1>4. /\ monitor'[c] = [m EXCEPT !.pc = IF m.known THEN "scan" ELSE "emit", !.cur = NoTransfer]
      /\ \A d \in Chains \ {c} : monitor'[d] = monitor[d]
      BY LocalOnly DEF SendStep, TypeInv
<1>5. StoreDelivery'
      BY <1>2, <1>3 DEF DeliveryInv, StoreDelivery
<1>6. \A g \in Hashes : g # h => (Delivered(g)' <=> Delivered(g))
      BY <1>3 DEF Delivered
<1>7. \A d \in Chains : MonitorDelivery(monitor[d])'
  <2>1. ASSUME NEW d \in Chains \ {c} PROVE MonitorDelivery(monitor[d])'
    <3> DEFINE o == monitor[d]
    <3>1. monitor'[d] = o /\ MonitorDelivery(o) /\ MonitorCursor(d, o) /\ o \in MonitorRecord
          BY <1>4 DEF DeliveryInv, TypeInv, MonitorInv, MonitorTypeOK
    <3>2. \A u \in Transfers : TransferChain[u] = d => HashOf[u] # h /\ HashOf[u] \in Hashes
          BY <1>2, TransferAssumption
    <3>3. o.pc \in {"check", "height", "confirm", "mark", "send"} => ~Delivered(HashOf[o.cur])'
          BY <1>6, <3>1, <3>2 DEF MonitorCursor, MonitorDelivery
    <3>4. \A u \in o.ready : u \in pendingTx[HashOf[u]] /\ ~Delivered(HashOf[u])'
          BY <1>6, <3>1, <3>2 DEF MonitorCursor, MonitorDelivery, MonitorRecord
    <3>5. QED
          BY <1>3, <3>1, <3>3, <3>4 DEF MonitorDelivery
  <2>2. MonitorDelivery(monitor[c])'
    <3>1. /\ monitor'[c].pc = IF m.known THEN "scan" ELSE "emit"
          /\ monitor'[c].ready = m.ready
          BY <1>1, <1>4 DEF MonitorRecord
    <3>2. m.known => m.ready = {}
          BY <1>1 DEF MonitorDelivery
    <3>3. \A u \in m.ready : /\ u \in pendingTx[HashOf[u]] /\ ~Delivered(HashOf[u])
                             /\ HashOf[u] # h /\ HashOf[u] \in Hashes
          BY <1>1, TransferAssumption DEF MonitorDelivery, MonitorRecord
    <3>4. \A u \in m.ready : ~Delivered(HashOf[u])'
          BY <1>6, <3>3
    <3>5. QED
          BY <1>3, <3>1, <3>2, <3>3, <3>4 DEF MonitorDelivery
  <2>3. QED
        BY <2>1, <2>2
<1>8. EventDelivery'
  <2>1. /\ n \in Nat /\ Len(queue') = n + 1
        /\ \A i \in 1..n : queue'[i] = queue[i]
        /\ queue'[n + 1] = ev /\ ev.src = "monitor" /\ ev.transfer = t
        BY <1>1, <1>3 DEF DepositOf
  <2>2. \A i \in 1..Len(queue') : i \in 1..n \/ i = n + 1
        BY <2>1
  <2>3. EventDelivery /\ ~Queued(h) /\ ~Paid(h)
        BY <1>2 DEF DeliveryInv, EventDelivery, Queued, Paid, Delivered
  <2>4. HoldsUnpaid => /\ handler.event.transfer \in sent
                       /\ HashOf[handler.event.transfer] # h
                       /\ HashOf[handler.event.transfer] \in Hashes
        BY <1>1, <1>2, <2>3, TransferAssumption DEF EventDelivery, Delivered
  <2>5. \A g \in Hashes : Queued(g)' => Queued(g) \/ g = h
        BY <2>1, <2>2 DEF Queued
  <2>6. \A g \in Hashes : Paid(g)' <=> Paid(g)
        BY <1>3 DEF Paid
  <2>7. \A i \in 1..Len(queue') : queue'[i].src = "monitor" => queue'[i].transfer \in sent'
        BY <1>3, <2>1, <2>2, <2>3 DEF EventDelivery
  <2>8. \A i, j \in 1..Len(queue') :
          /\ queue'[i].src = "monitor" /\ queue'[j].src = "monitor"
          /\ HashOf[queue'[i].transfer] = HashOf[queue'[j].transfer]
          => i = j
    <3>1. SUFFICES ASSUME NEW i \in 1..Len(queue'), NEW j \in 1..Len(queue'),
                          queue'[i].src = "monitor", queue'[j].src = "monitor",
                          HashOf[queue'[i].transfer] = HashOf[queue'[j].transfer]
                   PROVE  i = j
          OBVIOUS
    <3>2. CASE i \in 1..n /\ j \in 1..n
          BY <2>1, <2>3, <3>1, <3>2 DEF EventDelivery
    <3>3. CASE i \in 1..n /\ j = n + 1
          BY <2>1, <2>3, <3>1, <3>3 DEF Queued
    <3>4. CASE i = n + 1 /\ j \in 1..n
          BY <2>1, <2>3, <3>1, <3>4 DEF Queued
    <3>5. QED
          BY <2>2, <3>2, <3>3, <3>4
  <2>9. \A g \in Hashes : ~(Queued(g)' /\ Paid(g)')
        BY <2>3, <2>5, <2>6 DEF EventDelivery
  <2>10. HoldsUnpaid => LET u == handler.event.transfer IN
                        u \in sent' /\ ~Queued(HashOf[u])' /\ ~Paid(HashOf[u])'
    <3>1. ASSUME HoldsUnpaid, NEW u \in sent, u = handler.event.transfer
          PROVE  ~Queued(HashOf[u])' /\ ~Paid(HashOf[u])'
          BY <2>3, <2>4, <2>5, <2>6, <3>1 DEF EventDelivery
    <3>2. QED
          BY <1>3, <2>4, <3>1 DEF Queued, Paid
  <2>11. \A i \in 1..Len(payouts) : payouts[i].src = "monitor" => payouts[i].transfer \in sent'
        BY <1>3, <2>3 DEF EventDelivery
  <2>12. PaidOncePerTransaction' /\ UNCHANGED <<handler, payouts>>
         /\ (handler.pc = "pay" => handler.goal = "sending")
        BY <1>3, <2>3 DEF EventDelivery, PaidOncePerTransaction
  <2>13. HoldsUnpaid' <=> HoldsUnpaid
        BY <1>3 DEF HoldsUnpaid
  <2>14. QED
        BY <2>7, <2>8, <2>9, <2>10, <2>11, <2>12, <2>13 DEF EventDelivery
<1>9. QED
      BY <1>5, <1>7, <1>8 DEF DeliveryInv

LEMMA SharedDelivery ==
  ASSUME TypeInv, DeliveryInv, NEW c \in Chains, SharedStep(c), UNCHANGED handlerVars
  PROVE  DeliveryInv'
<1> DEFINE m == monitor[c]
<1>1. /\ m \in MonitorRecord /\ MonitorCursor(c, m) /\ MonitorDelivery(m)
      /\ monitor \in [Chains -> MonitorRecord]
      /\ pendingTx \in [Hashes -> SUBSET Transfers] /\ confirmed \subseteq Hashes
      /\ \A t \in Transfers : HashOf[t] \in Hashes
      /\ StoreDelivery
      BY TransferAssumption DEF TypeInv, DeliveryInv, MonitorInv, MonitorTypeOK, StoreTypeOK
<1>2. CASE BeginPass(c)
  <2>1. PICK ripe \in {mature} \cup (IF c = "bsc" THEN {{}} ELSE {}) :
          Local(c, [IdleMonitor EXCEPT !.pc = "emit", !.ripe = ripe, !.ready = Ready(c, ripe)])
        BY <1>2 DEF BeginPass
  <2>2. /\ monitor'[c].pc = "emit" /\ monitor'[c].ready = Ready(c, ripe)
        /\ \A d \in Chains \ {c} : monitor'[d] = monitor[d]
        BY <1>1, <2>1 DEF Local, IdleMonitor
  <2>3. UNCHANGED <<pendingTx, confirmed, processed, sent, queue>>
        BY <1>2 DEF BeginPass, database
  <2>4. MonitorDelivery(monitor[c])'
        BY <1>1, <2>2, <2>3 DEF MonitorDelivery, Ready, StoreDelivery, Delivered
  <2>5. QED
        BY <2>2, <2>3, <2>4, LocalDelivery
<1>3. ASSUME NEW t \in Transfers, EmitPending(c, t) PROVE DeliveryInv'
  <2>1. /\ monitor'[c].pc = "mark" /\ monitor'[c].cur = t /\ ~monitor'[c].known
        /\ monitor'[c].ready = m.ready \ {t}
        /\ \A d \in Chains \ {c} : monitor'[d] = monitor[d]
        BY <1>1, <1>3 DEF Local, EmitPending, MonitorRecord
  <2>2. /\ UNCHANGED <<pendingTx, processed, sent, queue>> /\ t \in m.ready
        /\ t \in pendingTx[HashOf[t]] /\ ~Delivered(HashOf[t])
        BY <1>1, <1>3 DEF EmitPending, MonitorDelivery
  <2>3. confirmed' = confirmed \cup {HashOf[t]}
        BY <1>3, <2>2 DEF EmitPending, MarkConfirmed
  <2>4. \A u \in m.ready \ {t} : HashOf[u] # HashOf[t]
        BY <1>1, <2>2 DEF MonitorDelivery, StoreDelivery, MonitorRecord
  <2>5. MonitorDelivery(monitor[c])'
        BY <1>1, <2>1, <2>2, <2>3, <2>4 DEF MonitorDelivery, Delivered
  <2>6. QED
        BY <2>1, <2>2, <2>3, <2>5, LocalDelivery
<1>4. CASE EmitDirect(c)
  <2>1. /\ monitor'[c].pc = "mark" /\ monitor'[c].cur = m.cur
        /\ monitor'[c].ready = m.ready
        /\ \A d \in Chains \ {c} : monitor'[d] = monitor[d]
        BY <1>1, <1>4 DEF Local, EmitDirect, MonitorRecord
  <2>2. /\ UNCHANGED <<pendingTx, processed, sent, queue>> /\ m.ready = {}
        /\ pendingTx[HashOf[m.cur]] # {} /\ ~Delivered(HashOf[m.cur])
        BY <1>1, <1>4 DEF EmitDirect, At, MonitorDelivery
  <2>3. confirmed' = confirmed \cup {HashOf[m.cur]}
        BY <1>4, <2>2 DEF EmitDirect, MarkConfirmed
  <2>4. MonitorDelivery(monitor[c])'
        BY <2>1, <2>2, <2>3 DEF MonitorDelivery, Delivered
  <2>5. QED
        BY <2>1, <2>2, <2>3, <2>4, LocalDelivery
<1>5. CASE MarkStep(c)
  <2>1. /\ monitor'[c].pc = "send" /\ monitor'[c].cur = m.cur
        /\ monitor'[c].ready = m.ready /\ monitor'[c].known = m.known
        /\ \A d \in Chains \ {c} : monitor'[d] = monitor[d]
        BY <1>1, <1>5 DEF Local, MarkStep, MonitorRecord
  <2>2. /\ UNCHANGED <<pendingTx, confirmed, sent, queue>> /\ m.pc = "mark"
        /\ processed' = processed \cup {HashOf[m.cur]}
        BY <1>5 DEF MarkStep, MarkProcessed, At
  <2>3. MonitorDelivery(monitor[c])'
        BY <1>1, <2>1, <2>2 DEF MonitorDelivery, Delivered
  <2>4. QED
        BY <2>1, <2>2, <2>3, LocalDelivery
<1>6. CASE SendStep(c)
      BY <1>6, SendDelivery
<1>7. CASE ReviewedStep(c)
  <2>1. /\ monitor'[c].pc = "scan" /\ monitor'[c].ready = m.ready /\ m.ready = {}
        /\ \A d \in Chains \ {c} : monitor'[d] = monitor[d]
        BY <1>1, <1>7 DEF Local, ReviewedStep, At, MonitorDelivery, MonitorRecord
  <2>2. /\ UNCHANGED <<pendingTx, confirmed, sent, queue>>
        /\ processed' = processed \cup {HashOf[m.cur]}
        BY <1>7 DEF ReviewedStep, MarkProcessed
  <2>3. QED
        BY <2>1, <2>2, QuietDelivery, LocalDelivery
<1>8. QED
      BY <1>2, <1>3, <1>4, <1>5, <1>6, <1>7 DEF SharedStep

LEMMA TronDelivery ==
  ASSUME TypeInv, DeliveryInv, TronNextStep, UNCHANGED handlerVars
  PROVE  DeliveryInv'
<1> DEFINE m == monitor["tron"]
<1>1. "tron" \in Chains
      BY DEF TronNextStep, TronList, TronQuery, TronNoData, TronReply, TronQueryFails, TronSkip,
             TronReview, TronRecord, TronNext, TronEnd, At
<1>2. /\ m \in MonitorRecord /\ MonitorDelivery(m) /\ StoreDelivery
      /\ monitor \in [Chains -> MonitorRecord]
      /\ MonitorCursor("tron", m)
      BY <1>1 DEF TypeInv, DeliveryInv, MonitorInv, MonitorTypeOK
<1>3. CASE TronList \/ TronQueryFails \/ TronEnd
  <2>1. /\ monitor'["tron"].pc \in {"idle", "scan"} /\ monitor'["tron"].ready = {}
        /\ \A d \in Chains \ {"tron"} : monitor'[d] = monitor[d]
    <3>1. CASE TronList
          BY <1>1, <1>2, <3>1 DEF Local, TronList, MonitorRecord
    <3>2. CASE TronQueryFails \/ TronEnd
          BY <1>1, <1>2, <3>2 DEF Local, TronQueryFails, TronEnd, EndPass, IdleMonitor
    <3>3. QED
          BY <1>3, <3>1, <3>2
  <2>2. UNCHANGED <<pendingTx, confirmed, processed, sent, queue>>
        BY <1>3 DEF TronList, TronQueryFails, TronEnd, database
  <2>3. QED
        BY <1>1, <2>1, <2>2, QuietDelivery, LocalDelivery
<1>4. ASSUME NEW e \in Exchanges, NEW reply \in SUBSET Page(DepositAddress[e]),
            TronReply(e, reply)
     PROVE  DeliveryInv'
  <2>1. /\ monitor'["tron"].pc = "scan" /\ monitor'["tron"].ready = {}
        /\ \A d \in Chains \ {"tron"} : monitor'[d] = monitor[d]
        BY <1>1, <1>2, <1>4 DEF Local, TronReply, At, MonitorDelivery, MonitorRecord
  <2>2. UNCHANGED <<pendingTx, confirmed, processed, sent, queue>>
        BY <1>4 DEF TronReply, database
  <2>3. QED
        BY <1>1, <2>1, <2>2, QuietDelivery, LocalDelivery
<1>5. ASSUME NEW t \in Transfers, TronSkip(t) \/ TronReview(t) PROVE DeliveryInv'
  <2>1. /\ monitor'["tron"].pc \in {"scan", "reviewed"} /\ monitor'["tron"].ready = {}
        /\ \A d \in Chains \ {"tron"} : monitor'[d] = monitor[d]
    <3>1. m.ready = {} /\ m.pc = "scan"
          BY <1>2, <1>5 DEF TronSkip, TronReview, TronNext, At, MonitorDelivery
    <3>2. CASE TronSkip(t)
          BY <1>1, <1>2, <3>1, <3>2 DEF Local, TronSkip, MonitorRecord
    <3>3. CASE TronReview(t)
          BY <1>1, <1>2, <3>1, <3>3 DEF Local, TronReview, MonitorRecord
    <3>4. QED
          BY <1>5, <3>2, <3>3
  <2>2. UNCHANGED <<pendingTx, confirmed, processed, sent, queue>>
        BY <1>5 DEF TronSkip, TronReview, database
  <2>3. QED
        BY <1>1, <2>1, <2>2, QuietDelivery, LocalDelivery
<1>6. ASSUME NEW t \in Transfers, TronRecord(t) PROVE DeliveryInv'
  <2>1. /\ HashOf[t] \notin processed /\ AddPendingTx(t) /\ m.ready = {} /\ m.pc = "scan"
        /\ TransferChain[t] = "tron" /\ UNCHANGED <<processed, sent, queue>>
        BY <1>2, <1>6 DEF TronRecord, TronNext, At, MonitorDelivery, MonitorCursor, MonitorRecord
  <2>2. ~Delivered(HashOf[t])
        BY <1>2, <2>1 DEF Delivered, StoreDelivery
  <2>3. /\ \/ monitor'["tron"].pc = "scan"
           \/ monitor'["tron"].pc = "confirm" /\ monitor'["tron"].cur = t
        /\ monitor'["tron"].ready = {}
        /\ \A d \in Chains \ {"tron"} : monitor'[d] = monitor[d]
    <3>1. CASE t \in m.ripe
          BY <1>1, <1>2, <1>6, <2>1, <3>1 DEF Local, TronRecord, MonitorRecord
    <3>2. CASE t \notin m.ripe
          BY <1>1, <1>2, <1>6, <2>1, <3>2 DEF Local, TronRecord, MonitorRecord
    <3>3. QED
          BY <3>1, <3>2
  <2>4. pendingTx'[HashOf[t]] = {t} /\ ~Delivered(HashOf[t])'
        BY <2>1, <2>2, TransferAssumption
        DEF AddPendingTx, TypeInv, StoreTypeOK, Delivered
  <2>5. MonitorDelivery(monitor["tron"])'
        BY <2>3, <2>4 DEF MonitorDelivery
  <2>6. QED
        BY <1>1, <2>1, <2>2, <2>3, <2>5, RecordDelivery
<1>7. QED
      BY <1>3, <1>4, <1>5, <1>6, TronReplies DEF TronNextStep

LEMMA BscDelivery ==
  ASSUME TypeInv, DeliveryInv, BscNextStep, UNCHANGED handlerVars
  PROVE  DeliveryInv'
<1> DEFINE m == monitor["bsc"]
<1>1. "bsc" \in Chains
      BY DEF BscNextStep, BscLogs, BscLogsFail, BscSkip, BscFound, BscNext, BscReview, BscRecord,
             BscDeep, BscShallow, BscEnd, At
<1>2. /\ m \in MonitorRecord /\ MonitorDelivery(m) /\ StoreDelivery
      /\ monitor \in [Chains -> MonitorRecord]
      /\ MonitorCursor("bsc", m)
      BY <1>1 DEF TypeInv, DeliveryInv, MonitorInv, MonitorTypeOK
<1>3. CASE BscLogs \/ BscLogsFail \/ BscEnd
  <2>1. /\ monitor'["bsc"].pc \in {"idle", "scan"} /\ monitor'["bsc"].ready = {}
        /\ \A d \in Chains \ {"bsc"} : monitor'[d] = monitor[d]
    <3>1. CASE BscLogs
          BY <1>1, <1>2, <3>1 DEF Local, BscLogs, IdleMonitor
    <3>2. CASE BscLogsFail \/ BscEnd
          BY <1>1, <1>2, <3>2 DEF Local, BscLogsFail, BscEnd, EndPass, IdleMonitor
    <3>3. QED
          BY <1>3, <3>1, <3>2
  <2>2. UNCHANGED <<pendingTx, confirmed, processed, sent, queue>>
        BY <1>3 DEF BscLogs, BscLogsFail, BscEnd, database
  <2>3. QED
        BY <1>1, <2>1, <2>2, QuietDelivery, LocalDelivery
<1>4. ASSUME NEW t \in Transfers, BscSkip(t) PROVE DeliveryInv'
  <2>1. /\ monitor'["bsc"].pc = "scan" /\ monitor'["bsc"].ready = {}
        /\ \A d \in Chains \ {"bsc"} : monitor'[d] = monitor[d]
        BY <1>1, <1>2, <1>4 DEF Local, BscSkip, BscNext, At, MonitorDelivery, MonitorRecord
  <2>2. UNCHANGED <<pendingTx, confirmed, processed, sent, queue>>
        BY <1>4 DEF BscSkip, database
  <2>3. QED
        BY <1>1, <2>1, <2>2, QuietDelivery, LocalDelivery
<1>5. ASSUME NEW t \in Transfers, BscFound(t) PROVE DeliveryInv'
  <2>1. /\ monitor'["bsc"].pc = "check" /\ monitor'["bsc"].cur = t
        /\ monitor'["bsc"].ready = {}
        /\ \A d \in Chains \ {"bsc"} : monitor'[d] = monitor[d]
        BY <1>1, <1>2, <1>5 DEF Local, BscFound, BscNext, At, MonitorDelivery, MonitorRecord
  <2>2. UNCHANGED <<pendingTx, confirmed, processed, sent, queue>> /\ HashOf[t] \notin processed
        BY <1>5 DEF BscFound, database
  <2>3. MonitorDelivery(monitor["bsc"])'
        BY <1>2, <2>1, <2>2 DEF MonitorDelivery, Delivered, StoreDelivery
  <2>4. QED
        BY <1>1, <2>1, <2>2, <2>3, LocalDelivery
<1>6. ASSUME NEW e \in Exchanges, BscReview(e) PROVE DeliveryInv'
  <2>1. /\ monitor'["bsc"].pc = "reviewed" /\ monitor'["bsc"].ready = {}
        /\ \A d \in Chains \ {"bsc"} : monitor'[d] = monitor[d]
        BY <1>1, <1>2, <1>6 DEF Local, BscReview, At, MonitorDelivery, MonitorRecord
  <2>2. UNCHANGED <<pendingTx, confirmed, processed, sent, queue>>
        BY <1>6 DEF BscReview
  <2>3. QED
        BY <1>1, <2>1, <2>2, QuietDelivery, LocalDelivery
<1>7. CASE BscRecord
  <2> DEFINE t == m.cur
  <2>1. /\ t \in Transfers /\ TransferChain[t] = "bsc" /\ ~Delivered(HashOf[t])
        /\ AddPendingTx(t) /\ m.ready = {} /\ UNCHANGED <<processed, sent, queue>>
        BY <1>2, <1>7 DEF BscRecord, At, MonitorCursor, MonitorDelivery
  <2>2. /\ monitor'["bsc"].pc = "height" /\ monitor'["bsc"].cur = t
        /\ monitor'["bsc"].ready = {}
        /\ \A d \in Chains \ {"bsc"} : monitor'[d] = monitor[d]
        BY <1>1, <1>2, <1>7, <2>1 DEF Local, BscRecord, MonitorRecord
  <2>3. pendingTx'[HashOf[t]] = {t}
        BY <2>1, TransferAssumption DEF AddPendingTx, TypeInv, StoreTypeOK
  <2>4. MonitorDelivery(monitor["bsc"])'
        BY <2>1, <2>2, <2>3 DEF MonitorDelivery, Delivered
  <2>5. QED
        BY <1>1, <2>1, <2>2, <2>4, RecordDelivery
<1>8. CASE BscDeep
  <2>1. /\ monitor'["bsc"].pc = "confirm" /\ monitor'["bsc"].cur = m.cur
        /\ monitor'["bsc"].ready = {} /\ m.pc = "height"
        /\ \A d \in Chains \ {"bsc"} : monitor'[d] = monitor[d]
        BY <1>1, <1>2, <1>8 DEF Local, BscDeep, At, MonitorDelivery, MonitorRecord
  <2>2. UNCHANGED <<pendingTx, confirmed, processed, sent, queue>>
        BY <1>8 DEF BscDeep, database
  <2>3. MonitorDelivery(monitor["bsc"])'
        BY <1>2, <2>1, <2>2 DEF MonitorDelivery, Delivered
  <2>4. QED
        BY <1>1, <2>1, <2>2, <2>3, LocalDelivery
<1>9. CASE BscShallow
  <2>1. /\ monitor'["bsc"].pc = "scan" /\ monitor'["bsc"].ready = {}
        /\ \A d \in Chains \ {"bsc"} : monitor'[d] = monitor[d]
        BY <1>1, <1>2, <1>9 DEF Local, BscShallow, At, MonitorDelivery, MonitorRecord
  <2>2. UNCHANGED <<pendingTx, confirmed, processed, sent, queue>>
        BY <1>9 DEF BscShallow, database
  <2>3. QED
        BY <1>1, <2>1, <2>2, QuietDelivery, LocalDelivery
<1>10. QED
      BY <1>3, <1>4, <1>5, <1>6, <1>7, <1>8, <1>9 DEF BscNextStep

-----------------------------------------------------------------------------
LEMMA StepDelivery ==
  ASSUME TypeInv, DeliveryInv, [Next]_vars PROVE DeliveryInv'
<1>1. CASE MonitorStep
      BY <1>1, SharedDelivery, TronDelivery, BscDelivery DEF MonitorStep, MonitorNext
<1>2. CASE UNCHANGED vars
  <2>1. UNCHANGED <<pendingTx, confirmed, processed, queue>> /\ UNCHANGED monitorVars
        /\ UNCHANGED handlerVars
        BY <1>2 DEF vars, store, database
  <2>2. QED
        BY <2>1, TreeFrame, EventFrame DEF DeliveryInv, monitorVars
<1>3. QED
      BY <1>1, <1>2, WorldDelivery, HandlerDelivery, BotDelivery, CrashDelivery DEF Next

\* What is recorded, confirmed, processed, sent, held and paid stays in step in
\* every behaviour of the node, crashes included.
THEOREM DeliveryCorrect == Spec => []DeliveryInv
BY TypeCorrect, InitDelivery, StepDelivery, PTL DEF Spec

\* A transaction on a token chain triggers at most one BTC payout.
COROLLARY PaidOnce == Spec => []PaidOncePerTransaction
<1>1. DeliveryInv => PaidOncePerTransaction
      BY DEF DeliveryInv, EventDelivery
<1>2. QED
      BY <1>1, DeliveryCorrect, PTL

-----------------------------------------------------------------------------
(* Which steps concern an exchange at all.                                  *)

exchangeVars == <<exchanges, handler, payouts, bot, resolves, touched, crashes>>

LEMMA MonitorLeaves == ASSUME MonitorStep PROVE UNCHANGED exchangeVars
<1>1. UNCHANGED exchanges
  <2>1. ASSUME NEW c \in Chains, SharedStep(c) PROVE UNCHANGED exchanges
        BY <2>1 DEF SharedStep, BeginPass, EmitPending, EmitDirect, MarkStep, SendStep,
                    ReviewedStep, database
  <2>2. ASSUME TronNextStep PROVE UNCHANGED exchanges
        BY <2>2 DEF TronNextStep, TronList, TronQuery, TronNoData, TronReply,
                    TronQueryFails, TronSkip, TronReview, TronRecord, TronEnd, database
  <2>3. ASSUME BscNextStep PROVE UNCHANGED exchanges
        BY <2>3 DEF BscNextStep, BscLogs, BscLogsFail, BscSkip, BscFound, BscReview, BscRecord,
                    BscDeep, BscShallow, BscEnd, database
  <2>4. QED
        BY <2>1, <2>2, <2>3 DEF MonitorStep, MonitorNext
<1>2. QED
      BY <1>1 DEF MonitorStep, handlerVars, botVars, exchangeVars

\* A new exchange is opened, a task of the node writes, the node stops, or
\* nothing happens to the exchanges and those who work on them.
LEMMA StepKinds ==
  ASSUME [Next]_vars
  PROVE  \/ \E e \in Exchanges :
              CreateExchange(e) /\ UNCHANGED <<handler, payouts, bot, resolves, touched, crashes>>
         \/ HandlerStep \/ BotStep \/ Crash
         \/ UNCHANGED exchangeVars
<1>1. CASE WorldStep
      BY <1>1 DEF WorldStep, WorldNext, Expire, Transfer, Mature, database, exchangeVars,
                  handlerVars, botVars
<1>2. CASE MonitorStep
      BY <1>2, MonitorLeaves
<1>3. CASE UNCHANGED vars
      BY <1>3 DEF vars, store, database, handlerVars, botVars, exchangeVars
<1>4. QED
      BY <1>1, <1>2, <1>3 DEF Next

-----------------------------------------------------------------------------
(* The claim of the handler.                                                *)

LEMMA InitClaim == Init => ClaimInv
<1> SUFFICES ASSUME Init PROVE ClaimInv
    OBVIOUS
<1> USE DEF Init, StoreInit, HandlerInit, BotInit, IdleHandler, IdleBot
<1>1. HandsInv
      BY DEF HandsInv, PaidExchange
<1>2. \A e \in Exchanges : exchanges[e].status = "absent" /\ ~PaidExchange(e) /\ handler.ex # e
      BY IdsAssumption DEF PaidExchange
<1>3. \A e \in Exchanges : ClaimOf(e)
      BY <1>2 DEF ClaimOf
<1>4. ReopenInv
      BY <1>2 DEF ReopenInv, PastPending, PaidStaysClosed
<1>5. InProgressIsHeld
      BY <1>2 DEF InProgressIsHeld
<1>6. QED
      BY <1>1, <1>3, <1>4, <1>5 DEF ClaimInv

\* What the proofs below use of the types.
LEMMA ClaimTypes ==
  ASSUME TypeInv
  PROVE  /\ exchanges \in [Exchanges -> ExchangeRecord]
         /\ handler \in HandlerRecord /\ payouts \in Seq(Payout)
         /\ bot \in BotRecord /\ touched \subseteq Exchanges /\ resolves \in Nat
         /\ handler.pc \in {"get", "put", "pay"} => handler.ex \in Exchanges
         /\ handler.goal \in Goals
         /\ handler.pc \in {"get", "put", "pay"} => handler.goal # "none"
         /\ bot.pc # "idle" => bot.ex \in Exchanges
         /\ NoExchange \notin Exchanges
         /\ \A i \in 1..Len(payouts) : payouts[i].exchange \in Exchanges
<1> USE DEF TypeInv, StoreTypeOK, HandlerInv, HandlerTypeOK, BotInv, BotTypeOK
<1>1. payouts \in Seq(Payout) /\ handler \in HandlerRecord
      OBVIOUS
<1>2. \A i \in 1..Len(payouts) : payouts[i].exchange \in Exchanges
  <2>1. \A i \in 1..Len(payouts) : payouts[i] \in Payout
        BY <1>1
  <2>2. QED
        BY <2>1 DEF Payout
<1>3. handler.goal \in Goals
      BY <1>1 DEF HandlerRecord
<1>4. NoExchange \notin Exchanges
      BY IdsAssumption
<1>5. QED
      BY <1>1, <1>2, <1>3, <1>4

LEMMA ClaimTypesNext ==
  TypeInv' => \A i \in 1..Len(payouts') : payouts'[i].exchange \in Exchanges
<1> SUFFICES ASSUME TypeInv', NEW i \in 1..Len(payouts') PROVE payouts'[i].exchange \in Exchanges
    OBVIOUS
<1>1. payouts' \in Seq(Payout)
      BY DEF TypeInv, HandlerInv, HandlerTypeOK
<1>2. payouts'[i] \in Payout
      BY <1>1
<1>3. QED
      BY <1>2 DEF Payout

LEMMA QuietClaim == ASSUME ClaimInv, UNCHANGED exchangeVars PROVE ClaimInv'
BY DEF ClaimInv, exchangeVars, HandsInv, ClaimOf, ReopenInv, PastPending, Pending,
       PaidExchange, PaidStaysClosed, InProgressIsHeld

LEMMA CreateClaim ==
  ASSUME TypeInv, ClaimInv, NEW e \in Exchanges, CreateExchange(e),
         UNCHANGED <<handler, payouts, bot, resolves, touched, crashes>>
  PROVE  ClaimInv'
<1>1. /\ exchanges[e].status = "absent"
      /\ exchanges'[e].status = "pending" /\ exchanges'[e].usdt = Asked[e]
      /\ \A f \in Exchanges \ {e} : exchanges'[f] = exchanges[f]
      BY ClaimTypes DEF CreateExchange, PutExchange
<1>2. /\ handler.ex = e => handler.pc \notin {"get", "put", "pay"}
      /\ bot.pc # "idle" => bot.ex # e
      BY <1>1 DEF ClaimInv, HandsInv
<1>3. HandsInv'
      BY <1>1, <1>2, ClaimTypes DEF ClaimInv, HandsInv, PaidExchange
<1>4. ASSUME e \notin touched PROVE ~PaidExchange(e) /\ (handler.ex = e => handler.pc # "add")
      BY <1>1, <1>4 DEF ClaimInv, ClaimOf
<1>5. ASSUME NEW f \in Exchanges \ touched PROVE ClaimOf(f)'
      BY <1>1, <1>2, <1>4 DEF ClaimInv, ClaimOf, PaidExchange
<1>6. ReopenInv'
  <2>1. ~PaidExchange(e)
        BY <1>1 DEF ClaimInv, HandsInv
  <2>2. QED
        BY <1>1, <1>2, <2>1, ClaimTypes
        DEF ClaimInv, ReopenInv, PastPending, Pending, PaidExchange, PaidStaysClosed
<1>7. InProgressIsHeld'
      BY <1>1 DEF ClaimInv, InProgressIsHeld
<1>8. QED
      BY <1>3, <1>5, <1>6, <1>7 DEF ClaimInv

\* A step of the handler that leaves every record and every payout as it was.
LEMMA HandlerLocalClaim ==
  ASSUME TypeInv, ClaimInv, HandlerStep, UNCHANGED <<exchanges, payouts>>, HandsInv',
         \A e \in Exchanges : PastPending(e)' => PastPending(e),
         \A e \in Exchanges \ touched : handler'.ex = e => ClaimOf(e)',
         \A e \in Exchanges \ touched :
           exchanges[e].status \in {"deposit_detected", "sending"} /\ handler.ex = e
             => handler'.ex = e
  PROVE  ClaimInv'
<1>1. UNCHANGED <<bot, touched, crashes>>
      BY DEF HandlerStep, botVars
<1>2. ASSUME NEW e \in Exchanges \ touched PROVE ClaimOf(e)'
      BY <1>1 DEF ClaimInv, ClaimOf, PaidExchange
<1>3. ReopenInv'
      BY <1>1 DEF ClaimInv, ReopenInv, PaidStaysClosed, Pending
<1>4. InProgressIsHeld'
      BY <1>1 DEF ClaimInv, InProgressIsHeld
<1>5. QED
      BY <1>1, <1>2, <1>3, <1>4 DEF ClaimInv

LEMMA HandlerClaim == ASSUME TypeInv, ClaimInv, HandlerStep PROVE ClaimInv'
<1>0. UNCHANGED <<bot, resolves, touched, crashes>>
      BY DEF HandlerStep, botVars
<1>1. CASE Receive
  <2>1. /\ UNCHANGED <<exchanges, payouts>> /\ handler.pc = "idle"
        /\ handler'.pc \in {"idle", "find"} /\ handler'.ex = NoExchange
    <3>1. Head(queue).amount < MinUsdt \/ ~(Head(queue).amount < MinUsdt)
          OBVIOUS
    <3>2. QED
          BY <1>1, <3>1 DEF Receive, IdleHandler, database
  <2>2. HandsInv'
        BY <1>0, <2>1 DEF ClaimInv, HandsInv, PaidExchange
  <2>3. /\ \A e \in Exchanges : PastPending(e)' => PastPending(e)
        /\ \A e \in Exchanges : handler'.ex # e /\ handler.ex # e
        BY <2>1, ClaimTypes DEF ClaimInv, HandsInv, PastPending
  <2>4. QED
        BY <2>1, <2>2, <2>3, HandlerLocalClaim
<1>2. ASSUME NEW e \in Exchanges, Find(e) PROVE ClaimInv'
  <2>1. /\ UNCHANGED <<exchanges, payouts>> /\ handler.pc = "find"
        /\ handler'.pc = "get" /\ handler'.goal = "deposit_detected" /\ handler'.ex = e
        /\ exchanges[e].status = "pending"
        BY <1>2, ClaimTypes DEF Find, database, FindByAddress, First, Pending, HandlerRecord
  <2>2. HandsInv'
        BY <1>0, <2>1 DEF ClaimInv, HandsInv, PaidExchange
  <2>3. \A f \in Exchanges : handler.ex # f /\ ~PastPending(f)'
        BY <2>1, ClaimTypes DEF ClaimInv, HandsInv, PastPending
  <2>4. \A f \in Exchanges \ touched : handler'.ex = f => ClaimOf(f)'
        BY <2>1 DEF ClaimInv, ClaimOf, PaidExchange, Before
  <2>5. QED
        BY <2>1, <2>2, <2>3, <2>4, HandlerLocalClaim
<1>3. CASE FindNone
  <2>1. /\ UNCHANGED <<exchanges, payouts>> /\ handler.pc = "find"
        /\ handler'.pc = "add" /\ handler'.ex = handler.ex
        BY <1>3, ClaimTypes DEF FindNone, database, HandlerRecord
  <2>2. HandsInv'
        BY <1>0, <2>1 DEF ClaimInv, HandsInv, PaidExchange
  <2>3. /\ \A e \in Exchanges : PastPending(e)' => PastPending(e)
        /\ \A e \in Exchanges : handler'.ex # e /\ handler.ex # e
        BY <2>1, ClaimTypes DEF ClaimInv, HandsInv, PastPending
  <2>4. QED
        BY <2>1, <2>2, <2>3, HandlerLocalClaim
<1>4. CASE StatusGet
  <2>1. /\ UNCHANGED <<exchanges, payouts>> /\ handler.pc = "get"
        /\ handler'.pc = "put" /\ handler'.ex = handler.ex /\ handler'.goal = handler.goal
        /\ handler'.copy = exchanges[handler.ex]
        BY <1>4, ClaimTypes DEF StatusGet, database, HandlerRecord
  <2>2. HandsInv'
        BY <1>0, <2>1 DEF ClaimInv, HandsInv, PaidExchange
  <2>3. \A e \in Exchanges : PastPending(e)' => PastPending(e)
        BY <2>1 DEF PastPending
  <2>4. \A e \in Exchanges \ touched : handler'.ex = e => ClaimOf(e)'
        BY <2>1 DEF ClaimInv, ClaimOf, PaidExchange
  <2>5. QED
        BY <2>1, <2>2, <2>3, <2>4, HandlerLocalClaim
<1>5. CASE StatusPut
  <2> DEFINE x == handler.ex
  <2>1. /\ handler.pc = "put" /\ x \in Exchanges
        /\ handler.goal \in {"deposit_detected", "sending", "sent", "error"}
        /\ exchanges' = [exchanges EXCEPT ![x] = [handler.copy EXCEPT !.status = handler.goal]]
        /\ payouts' = payouts
        BY <1>5, ClaimTypes DEF StatusPut, PutExchange, Goals
  <2>2. /\ exchanges'[x].status = handler.goal
        /\ exchanges'[x].usdt = handler.copy.usdt
        /\ \A f \in Exchanges \ {x} : exchanges'[f] = exchanges[f]
        BY <2>1, ClaimTypes DEF HandlerRecord, ExchangeRecord
  <2>3. /\ handler'.ex = x
        /\ handler.goal = "deposit_detected" => handler'.pc = "get" /\ handler'.goal = "sending"
        /\ handler.goal = "sending" => handler'.pc = "pay" /\ handler'.goal = "sending"
        /\ handler.goal \in {"sent", "error"} => handler'.pc = "add"
        BY <1>5, <2>1, ClaimTypes DEF StatusPut, HandlerRecord
  <2>4. exchanges'[x].status \notin {"absent", "pending"}
        BY <2>1, <2>2
  <2>5. HandsInv'
        BY <1>0, <2>1, <2>2, <2>3, <2>4, ClaimTypes DEF ClaimInv, HandsInv, PaidExchange
  <2>6. ASSUME NEW e \in Exchanges \ touched PROVE ClaimOf(e)'
    <3>1. CASE e = x
      <4>1. /\ exchanges[e].status = Before(handler.goal) /\ handler.copy = exchanges[e]
            /\ PaidExchange(e) => exchanges[e].status \in {"sending", "sent", "error"}
            /\ exchanges[e].status # "absent" => exchanges[e].usdt = Asked[e]
            BY <2>1, <3>1 DEF ClaimInv, ClaimOf
      <4>2. PaidExchange(e)' => handler.goal \in {"sent", "error"}
            BY <2>1, <4>1 DEF PaidExchange, Before
      <4>3. exchanges'[e].usdt = Asked[e]
            BY <2>1, <2>2, <3>1, <4>1 DEF ClaimInv, HandsInv
      <4>4. QED
            BY <2>1, <2>2, <2>3, <3>1, <4>2, <4>3 DEF ClaimOf, Before
    <3>2. CASE e # x
          BY <2>1, <2>2, <2>3, <3>2 DEF ClaimInv, ClaimOf, PaidExchange
    <3>3. QED
          BY <3>1, <3>2
  <2>7. ReopenInv'
    <3>1. \A e \in Exchanges : Pending(e)' => Pending(e) /\ e # x
          BY <2>2, <2>4 DEF Pending
    <3>2. \A e \in Exchanges : PastPending(e)' => e = x
          BY <2>3 DEF PastPending
    <3>3. bot'.pc = "send" => ~Pending(bot.ex)'
          BY <1>0, <3>1, ClaimTypes DEF ClaimInv, ReopenInv, Pending
    <3>4. PaidStaysClosed'
          BY <1>0, <2>1, <3>1, ClaimTypes DEF ClaimInv, ReopenInv, PaidStaysClosed
    <3>5. QED
          BY <1>0, <3>1, <3>2, <3>3, <3>4 DEF ReopenInv
  <2>8. InProgressIsHeld'
        BY <1>0, <2>2, <2>3 DEF ClaimInv, InProgressIsHeld
  <2>9. QED
        BY <1>0, <2>5, <2>6, <2>7, <2>8 DEF ClaimInv
<1>6. ASSUME NEW broadcast \in BOOLEAN, NEW ok \in BOOLEAN, Pay(broadcast, ok)
      PROVE  ClaimInv'
  <2> DEFINE x == handler.ex
  <2>1. /\ UNCHANGED exchanges /\ handler.pc = "pay" /\ handler.goal = "sending" /\ x \in Exchanges
        /\ handler'.pc = "get" /\ handler'.ex = x /\ handler'.goal \in {"sent", "error"}
        BY <1>6, ClaimTypes DEF Pay, database, HandlerRecord, ClaimInv, HandsInv
  <2>2. \A e \in Exchanges : PaidExchange(e)' => PaidExchange(e) \/ e = x
    <3> DEFINE p == [exchange |-> x, transfer |-> handler.event.transfer,
                     src |-> handler.event.src]
    <3>1. CASE payouts' = Append(payouts, p)
      <4>1. /\ Len(payouts') = Len(payouts) + 1 /\ Len(payouts) \in Nat
            /\ \A i \in 1..Len(payouts) : payouts'[i] = payouts[i]
            /\ payouts'[Len(payouts) + 1].exchange = x
            BY <3>1, ClaimTypes
      <4>2. \A i \in 1..Len(payouts') : i \in 1..Len(payouts) \/ i = Len(payouts) + 1
            BY <4>1
      <4>3. QED
            BY <4>1, <4>2 DEF PaidExchange
    <3>2. CASE payouts' = payouts
          BY <3>2 DEF PaidExchange
    <3>3. QED
          BY <1>6, <3>1, <3>2 DEF Pay
  <2>3. HandsInv'
        BY <1>0, <2>1, <2>2 DEF ClaimInv, HandsInv
  <2>4. ASSUME NEW e \in Exchanges \ touched PROVE ClaimOf(e)'
        BY <2>1, <2>2 DEF ClaimInv, ClaimOf, Before
  <2>5. PastPending(x) /\ \A e \in Exchanges : PastPending(e)' => e = x
        BY <2>1 DEF PastPending
  <2>6. Pending(x) => x \in touched /\ bot.ex = x
    <3>1. Pending(x) => bot.ex = x
          BY <2>1, <2>5 DEF ClaimInv, ReopenInv
    <3>2. bot.ex = x => x \in touched
          BY <2>1, ClaimTypes DEF ClaimInv, HandsInv
    <3>3. QED
          BY <3>1, <3>2
  <2>7. ASSUME NEW e \in Exchanges, Pending(e),
               \E i \in 1..Len(payouts') : payouts'[i].exchange = e
        PROVE  e \in touched /\ (bot.ex = e \/ crashes > 0)
        BY <2>2, <2>6, <2>7 DEF ClaimInv, ReopenInv, PaidStaysClosed, PaidExchange
  <2>8. PaidStaysClosed'
    <3>1. ASSUME NEW i \in 1..Len(payouts') PROVE payouts'[i].exchange \in Exchanges
      <4>1. [Next]_vars
            BY DEF Next
      <4>2. TypeInv'
            BY <4>1, StepType
      <4>3. QED
            BY <4>2, ClaimTypesNext
    <3>2. ASSUME NEW i \in 1..Len(payouts'),
                 exchanges'[payouts'[i].exchange].status = "pending"
          PROVE  /\ payouts'[i].exchange \in touched'
                 /\ bot'.ex = payouts'[i].exchange \/ crashes' > 0
      <4> DEFINE f == payouts'[i].exchange
      <4>1. \E j \in 1..Len(payouts') : payouts'[j].exchange = f
            OBVIOUS
      <4>2. f \in Exchanges /\ Pending(f)
            BY <2>1, <3>1, <3>2 DEF Pending
      <4>3. QED
            BY <1>0, <2>7, <4>1, <4>2
    <3>3. QED
          BY <3>2 DEF PaidStaysClosed, Pending
  <2>9. ReopenInv'
        BY <1>0, <2>1, <2>5, <2>6, <2>8 DEF ClaimInv, ReopenInv, Pending
  <2>10. InProgressIsHeld'
        BY <1>0, <2>1 DEF ClaimInv, InProgressIsHeld
  <2>11. QED
        BY <1>0, <2>3, <2>4, <2>9, <2>10 DEF ClaimInv
<1>7. CASE AddDeposit
  <2>1. /\ UNCHANGED <<exchanges, payouts>> /\ handler.pc = "add"
        /\ handler'.pc = "idle" /\ handler'.ex = NoExchange
        BY <1>7 DEF AddDeposit, database, IdleHandler
  <2>2. HandsInv'
        BY <1>0, <2>1 DEF ClaimInv, HandsInv, PaidExchange
  <2>3. /\ \A e \in Exchanges : PastPending(e)' => PastPending(e)
        /\ \A e \in Exchanges : handler'.ex # e
        BY <2>1, ClaimTypes DEF PastPending
  <2>4. \A e \in Exchanges \ touched :
          handler.ex = e => exchanges[e].status \notin {"deposit_detected", "sending"}
        BY <2>1 DEF ClaimInv, ClaimOf
  <2>5. QED
        BY <2>1, <2>2, <2>3, <2>4, HandlerLocalClaim
<1>8. QED
      BY <1>1, <1>2, <1>3, <1>4, <1>5, <1>6, <1>7 DEF HandlerStep, HandlerNext

\* A step of the bot that changes at most the exchange it has in hand.
LEMMA BotLocalClaim ==
  ASSUME TypeInv, ClaimInv, BotStep, touched \subseteq touched',
         \A e \in Exchanges \ touched' : exchanges'[e] = exchanges[e],
         \A e \in Exchanges : exchanges[e].status # "absent" => exchanges'[e].status # "absent",
         bot'.pc = "idle" => bot'.ex = NoExchange,
         bot'.pc # "idle" => bot'.ex \in touched' /\ exchanges'[bot'.ex].status # "absent",
         bot'.pc \in {"amountsPut", "statusPut"} => bot'.copy.status # "absent",
         \A e \in Exchanges : exchanges'[e].status = "pending" /\ bot'.ex # e
           => exchanges[e].status = "pending" /\ bot.ex # e,
         bot'.pc = "send" => exchanges'[bot'.ex].status # "pending",
         bot'.ex \in Exchanges => bot'.ex \in touched'
  PROVE  ClaimInv'
<1>1. UNCHANGED <<handler, payouts, crashes>>
      BY DEF BotStep, handlerVars
<1>2. HandsInv'
      BY <1>1, ClaimTypes DEF ClaimInv, HandsInv, PaidExchange
<1>3. ASSUME NEW e \in Exchanges \ touched' PROVE ClaimOf(e)'
      BY <1>1 DEF ClaimInv, ClaimOf, PaidExchange
<1>4. \A e \in Exchanges : (PastPending(e) /\ Pending(e))' => bot'.ex = e
      BY <1>1 DEF ClaimInv, ReopenInv, PastPending, Pending
<1>5. PaidStaysClosed'
      BY <1>1, ClaimTypes DEF ClaimInv, ReopenInv, PaidStaysClosed, Pending
<1>6. ReopenInv'
      BY <1>4, <1>5 DEF ReopenInv, Pending
<1>7. InProgressIsHeld'
      BY <1>1 DEF ClaimInv, InProgressIsHeld
<1>8. QED
      BY <1>2, <1>3, <1>6, <1>7 DEF ClaimInv

LEMMA BotClaim == ASSUME TypeInv, ClaimInv, BotStep PROVE ClaimInv'
<1>1. ASSUME NEW b \in BotRecord, Accept(b), b.pc \in {"amountsGet", "statusGet"},
             b.ex \in Exchanges, exchanges[b.ex].status # "absent"
      PROVE  ClaimInv'
  <2>1. /\ bot.pc = "idle" /\ bot' = b /\ touched' = touched \cup {b.ex}
        /\ UNCHANGED exchanges
        BY <1>1 DEF Accept, database
  <2>2. \A e \in Exchanges : bot.ex # e
        BY <2>1, ClaimTypes DEF ClaimInv, HandsInv
  <2>3. QED
        BY <1>1, <2>1, <2>2, BotLocalClaim
<1>2. ASSUME NEW h \in Hashes, NEW e \in Exchanges, ResolveReview(h, e)
      PROVE  ClaimInv'
  <2>1. PICK r \in reviews[h] :
          /\ e \in FindByAddress(TransferTo[r.transfer])
          /\ Accept([IdleBot EXCEPT !.pc = "amountsGet", !.ex = e, !.transfer = r.transfer,
                                    !.amount = TransferAmount[r.transfer]])
        BY <1>2 DEF ResolveReview
  <2> DEFINE b == [IdleBot EXCEPT !.pc = "amountsGet", !.ex = e, !.transfer = r.transfer,
                                  !.amount = TransferAmount[r.transfer]]
  <2>2. b.pc = "amountsGet" /\ b.ex = e /\ exchanges[e].status # "absent"
        BY <2>1 DEF IdleBot, FindByAddress, First, Pending
  <2>3. b \in BotRecord
    <3>1. r \in ReviewRecord
          BY <2>1 DEF TypeInv, StoreTypeOK
    <3>2. QED
          BY <3>1, IdleBotType, TransferAssumption DEF BotRecord, BotPcs, ReviewRecord
  <2> HIDE DEF b
  <2>4. QED
        BY <1>1, <2>1, <2>2, <2>3 DEF b
<1>3. ASSUME NEW e \in Exchanges, ResolveExchange(e) PROVE ClaimInv'
  <2> DEFINE b == [IdleBot EXCEPT !.pc = "statusGet", !.ex = e, !.amount = exchanges[e].usdt]
  <2>1. Accept(b) /\ b.pc = "statusGet" /\ b.ex = e /\ exchanges[e].status # "absent"
        BY <1>3 DEF ResolveExchange, IdleBot
  <2>2. b \in BotRecord
        BY IdleBotType, ClaimTypes DEF BotRecord, BotPcs, ExchangeRecord
  <2> HIDE DEF b
  <2>3. QED
        BY <1>1, <2>1, <2>2
<1> DEFINE x == bot.ex
<1>4. CASE AmountsGet
  <2>1. /\ UNCHANGED <<exchanges, touched>> /\ bot.pc = "amountsGet" /\ bot'.pc = "amountsPut"
        /\ bot'.ex = x /\ x \in Exchanges /\ bot'.copy = exchanges[x]
        BY <1>4, ClaimTypes DEF AmountsGet, BotLocal, database, BotRecord
  <2>2. x \in touched /\ exchanges[x].status # "absent"
        BY <2>1 DEF ClaimInv, HandsInv
  <2>3. QED
        BY <2>1, <2>2, BotLocalClaim
<1>5. CASE AmountsPut
  <2>1. /\ touched' = touched /\ bot.pc = "amountsPut" /\ bot'.pc = "statusGet"
        /\ bot'.ex = x /\ x \in Exchanges
        /\ exchanges' = [exchanges EXCEPT ![x] = [bot.copy EXCEPT !.usdt = bot.amount]]
        BY <1>5, ClaimTypes DEF AmountsPut, BotLocal, BotRecord, PutExchange
  <2>2. x \in touched /\ bot.copy.status # "absent"
        BY <2>1 DEF ClaimInv, HandsInv
  <2>3. /\ exchanges'[x].status = bot.copy.status
        /\ \A f \in Exchanges \ {x} : exchanges'[f] = exchanges[f]
        BY <2>1, ClaimTypes DEF BotRecord, ExchangeRecord
  <2>4. QED
        BY <2>1, <2>2, <2>3, BotLocalClaim
<1>6. CASE BotStatusGet
  <2>1. /\ UNCHANGED <<exchanges, touched>> /\ bot.pc = "statusGet" /\ bot'.pc = "statusPut"
        /\ bot'.ex = x /\ x \in Exchanges /\ bot'.copy = exchanges[x]
        BY <1>6, ClaimTypes DEF BotStatusGet, BotLocal, database, BotRecord
  <2>2. x \in touched /\ exchanges[x].status # "absent"
        BY <2>1 DEF ClaimInv, HandsInv
  <2>3. QED
        BY <2>1, <2>2, BotLocalClaim
<1>7. CASE BotStatusPut
  <2>1. /\ touched' = touched /\ bot.pc = "statusPut" /\ bot'.pc = "send"
        /\ bot'.ex = x /\ x \in Exchanges
        /\ exchanges' = [exchanges EXCEPT ![x] = [bot.copy EXCEPT !.status = "deposit_detected"]]
        BY <1>7, ClaimTypes DEF BotStatusPut, BotLocal, BotRecord, PutExchange
  <2>2. x \in touched
        BY <2>1 DEF ClaimInv, HandsInv
  <2>3. /\ exchanges'[x].status = "deposit_detected"
        /\ \A f \in Exchanges \ {x} : exchanges'[f] = exchanges[f]
        BY <2>1, ClaimTypes DEF BotRecord, ExchangeRecord
  <2>4. QED
        BY <2>1, <2>2, <2>3, BotLocalClaim
<1>8. CASE BotSend
  <2>1. /\ UNCHANGED <<exchanges, touched>> /\ bot.pc = "send"
        /\ bot'.pc = "idle" /\ bot'.ex = NoExchange
        BY <1>8 DEF BotSend, BotLocal, database, IdleBot
  <2>2. exchanges[x].status # "pending"
        BY <2>1 DEF ClaimInv, ReopenInv, Pending
  <2>3. QED
        BY <2>1, <2>2, ClaimTypes, BotLocalClaim
<1>9. QED
      BY <1>2, <1>3, <1>4, <1>5, <1>6, <1>7, <1>8 DEF BotStep, BotNext

LEMMA CrashClaim == ASSUME TypeInv, ClaimInv, Crash PROVE ClaimInv'
<1>1. /\ UNCHANGED <<exchanges, payouts, touched>> /\ crashes' > 0
      /\ handler'.pc = "idle" /\ handler'.ex = NoExchange
      /\ bot'.pc = "idle" /\ bot'.ex = NoExchange
      BY DEF Crash, database, IdleHandler, IdleBot, TypeInv
<1>2. HandsInv'
      BY <1>1 DEF ClaimInv, HandsInv, PaidExchange
<1>3. \A e \in Exchanges \ touched : ClaimOf(e)'
      BY <1>1, ClaimTypes DEF ClaimInv, ClaimOf, PaidExchange
<1>4. ReopenInv'
      BY <1>1 DEF ClaimInv, ReopenInv, PastPending, PaidStaysClosed, Pending
<1>5. InProgressIsHeld'
      BY <1>1 DEF InProgressIsHeld
<1>6. QED
      BY <1>1, <1>2, <1>3, <1>4, <1>5 DEF ClaimInv

LEMMA StepClaim == TypeInv /\ ClaimInv /\ [Next]_vars => ClaimInv'
BY StepKinds, QuietClaim, CreateClaim, HandlerClaim, BotClaim, CrashClaim

\* What the handler and the bot have in hand agrees with the records they are
\* about to write, from the first deposit on (main.rs, telegram_bot.rs).
THEOREM ClaimCorrect == Spec => []ClaimInv
<1>1. TypeInv /\ ClaimInv /\ [Next]_vars => ClaimInv'
      BY StepClaim
<1>2. QED
      BY <1>1, InitClaim, TypeCorrect, PTL DEF Spec

\* Unless the node has stopped, an exchange no command has touched is in the
\* handler's hands while it shows "deposit_detected" or "sending".
COROLLARY HeldWhileInProgress == Spec => []InProgressIsHeld
BY ClaimCorrect, PTL DEF ClaimInv

\* An exchange for which BTC has left is not open to further deposits, except
\* while a command rewrites its record or after a stop half-way through that.
COROLLARY PaidIsClosed == Spec => []PaidStaysClosed
<1>1. ClaimInv => PaidStaysClosed
      BY DEF ClaimInv, ReopenInv
<1>2. QED
      BY <1>1, ClaimCorrect, PTL

-----------------------------------------------------------------------------
(* The budget of an exchange.                                               *)

LEMMA PayoutsFinite ==
  ASSUME TypeInv, NEW e \in Exchanges
  PROVE  IsFiniteSet(PayoutsOf(e)) /\ Cardinality(PayoutsOf(e)) \in Nat
<1>1. Len(payouts) \in Nat
      BY ClaimTypes
<1>2. IsFiniteSet(1..Len(payouts))
      BY <1>1, FS_Interval
<1>3. IsFiniteSet(PayoutsOf(e))
      BY <1>2, FS_Subset DEF PayoutsOf
<1>4. QED
      BY <1>3, FS_CardinalityType

\* One more payout is counted once.
LEMMA PayoutCounted ==
  ASSUME TypeInv, NEW e \in Exchanges, NEW p \in Payout, payouts' = Append(payouts, p)
  PROVE  Cardinality(PayoutsOf(e))' = Cardinality(PayoutsOf(e)) + OneIf(p.exchange = e)
<1>1. /\ Len(payouts') = Len(payouts) + 1 /\ Len(payouts) \in Nat
      /\ \A i \in 1..Len(payouts) : payouts'[i] = payouts[i]
      /\ payouts'[Len(payouts) + 1] = p
      BY ClaimTypes
<1> DEFINE n == Len(payouts) + 1
<1>2. 1..Len(payouts') = (1..Len(payouts)) \cup {n} /\ n \notin 1..Len(payouts)
      BY <1>1
<1>3. PayoutsOf(e)' = {i \in 1..Len(payouts') : payouts'[i].exchange = e}
      BY DEF PayoutsOf
<1>4. CASE p.exchange = e
  <2>1. PayoutsOf(e)' = PayoutsOf(e) \cup {n} /\ n \notin PayoutsOf(e)
        BY <1>1, <1>2, <1>3, <1>4 DEF PayoutsOf
  <2>2. QED
        BY <1>4, <2>1, PayoutsFinite, FS_AddElement DEF OneIf
<1>5. CASE p.exchange # e
  <2>1. PayoutsOf(e)' = PayoutsOf(e)
        BY <1>1, <1>2, <1>3, <1>5 DEF PayoutsOf
  <2>2. QED
        BY <1>5, <2>1, PayoutsFinite DEF OneIf
<1>6. QED
      BY <1>4, <1>5

\* A step without a payout that spends no more than it adds to the budget.
LEMMA ThriftyStep ==
  ASSUME TypeInv, resolves' \in Nat, BudgetInv, payouts' = payouts,
         \A e \in Exchanges : Spent(e)' + Budget(e) <= Spent(e) + Budget(e)'
  PROVE  BudgetInv'
<1> SUFFICES ASSUME NEW e \in Exchanges
             PROVE  Cardinality(PayoutsOf(e))' + Spent(e)' <= Budget(e)'
    BY DEF BudgetInv
<1>1. Cardinality(PayoutsOf(e))' = Cardinality(PayoutsOf(e))
      BY DEF PayoutsOf
<1>2. Cardinality(PayoutsOf(e)) \in Nat /\ resolves \in Nat
      BY PayoutsFinite, ClaimTypes
<1>3. Spent(e) \in Int /\ Spent(e)' \in Int /\ Budget(e) \in Int /\ Budget(e)' \in Int
      BY <1>2 DEF Spent, OneIf, Budget
<1>4. Cardinality(PayoutsOf(e)) + Spent(e) <= Budget(e)
      BY DEF BudgetInv
<1>5. QED
      BY <1>1, <1>2, <1>3, <1>4

\* The same, when no command is accepted: nothing new is claimed, left open or
\* about to be reopened, or else something of that exchange is given up for it.
LEMMA SteadyStep ==
  ASSUME TypeInv, BudgetInv, payouts' = payouts, UNCHANGED <<resolves, touched>>,
         \A e \in Exchanges :
           \/ /\ Claims(e)' => Claims(e)
              /\ Open(e)' => Open(e)
              /\ Reopens(e)' => Reopens(e)
           \/ Open(e) /\ ~Open(e)' /\ Reopens(e)' = Reopens(e)
           \/ Claims(e) /\ ~Claims(e)' /\ ~Reopens(e)'
           \/ Reopens(e) /\ ~Reopens(e)' /\ Claims(e)' = Claims(e)
  PROVE  BudgetInv'
<1>1. ASSUME NEW e \in Exchanges PROVE Spent(e)' <= Spent(e)
      BY DEF Spent, OneIf
<1>2. ASSUME NEW e \in Exchanges PROVE Spent(e)' + Budget(e) <= Spent(e) + Budget(e)'
  <2>1. Budget(e)' = Budget(e) /\ Budget(e) \in Int
        BY ClaimTypes DEF Budget
  <2>2. Spent(e) \in Int /\ Spent(e)' \in Int
        BY DEF Spent, OneIf
  <2>3. QED
        BY <1>1, <2>1, <2>2
<1>3. QED
      BY <1>2, ThriftyStep, ClaimTypes

LEMMA InitBudget == Init => BudgetInv
<1> SUFFICES ASSUME Init, NEW e \in Exchanges
             PROVE  Cardinality(PayoutsOf(e)) + Spent(e) <= Budget(e)
    BY DEF BudgetInv
<1> USE DEF Init, StoreInit, HandlerInit, BotInit, IdleHandler, IdleBot
<1>1. PayoutsOf(e) = {}
      BY DEF PayoutsOf
<1>2. Cardinality(PayoutsOf(e)) = 0
      BY <1>1, FS_EmptySet
<1>3. ~Claims(e) /\ ~Reopens(e) /\ e \notin touched
      BY DEF Claims, Reopens
<1>4. Spent(e) \in {0, 1} /\ Budget(e) = 1
      BY <1>3 DEF Spent, OneIf, Budget
<1>5. QED
      BY <1>2, <1>4

LEMMA BotBudget == ASSUME TypeInv, ClaimInv, BudgetInv, BotStep PROVE BudgetInv'
<1>0. UNCHANGED <<handler, payouts>>
      BY DEF BotStep, handlerVars
<1>1. ASSUME NEW b, Accept(b), b.ex \in Exchanges PROVE BudgetInv'
  <2>1. /\ bot.pc = "idle" /\ bot' = b /\ touched' = touched \cup {b.ex}
        /\ resolves' = resolves + 1 /\ UNCHANGED exchanges
        BY <1>1 DEF Accept, database
  <2>2. ASSUME NEW e \in Exchanges PROVE Spent(e)' + Budget(e) <= Spent(e) + Budget(e)'
    <3>1. Claims(e)' = Claims(e) /\ Open(e)' = Open(e)
          BY <1>0, <2>1 DEF Claims, Open
    <3>2. ~Reopens(e)
          BY <2>1 DEF Reopens
    <3>3. Reopens(e)' => e = b.ex
          BY <2>1 DEF Reopens
    <3>4. Budget(e)' \in Int /\ Budget(e) \in Int /\ Budget(e) <= Budget(e)'
          /\ (e = b.ex => Budget(e) + 1 <= Budget(e)')
          BY <2>1, ClaimTypes DEF Budget
    <3>5. Spent(e) \in Int /\ Spent(e)' \in Int /\ Spent(e)' <= Spent(e) + OneIf(e = b.ex)
          BY <3>1, <3>2, <3>3 DEF Spent, OneIf
    <3>6. QED
          BY <3>4, <3>5 DEF OneIf
  <2>3. QED
        BY <1>0, <2>1, <2>2, ThriftyStep, ClaimTypes
<1>2. ASSUME NEW h \in Hashes, NEW e \in Exchanges, ResolveReview(h, e)
      PROVE  BudgetInv'
  <2>1. PICK r \in reviews[h] :
          Accept([IdleBot EXCEPT !.pc = "amountsGet", !.ex = e, !.transfer = r.transfer,
                                 !.amount = TransferAmount[r.transfer]])
        BY <1>2 DEF ResolveReview
  <2>2. QED
        BY <1>1, <2>1 DEF IdleBot
<1>3. ASSUME NEW e \in Exchanges, ResolveExchange(e) PROVE BudgetInv'
      BY <1>1, <1>3 DEF ResolveExchange, IdleBot
<1>4. CASE AmountsGet
  <2>1. /\ UNCHANGED <<exchanges, resolves, touched>> /\ bot.pc = "amountsGet"
        /\ bot'.ex = bot.ex
        BY <1>4, ClaimTypes DEF AmountsGet, BotLocal, database, BotRecord
  <2>2. QED
        BY <1>0, <2>1, SteadyStep DEF Claims, Open, Reopens
<1> DEFINE x == bot.ex
<1>5. ASSUME NEW r \in ExchangeRecord, UNCHANGED <<resolves, touched>>, PutExchange(x, r),
             bot'.pc \notin {"amountsGet", "amountsPut"}, x \in Exchanges,
             bot.pc = "amountsPut" \/ r.status \notin {"absent", "pending"}
      PROVE  BudgetInv'
  <2>1. exchanges'[x] = r /\ \A f \in Exchanges \ {x} : exchanges'[f] = exchanges[f]
        BY <1>5, ClaimTypes DEF PutExchange
  <2>2. ASSUME NEW e \in Exchanges
        PROVE  Claims(e)' = Claims(e) /\ ~Reopens(e)' /\ (Open(e)' => Open(e) \/ Reopens(e))
        BY <1>0, <1>5, <2>1 DEF Claims, Reopens, Open
  <2>3. QED
        BY <1>0, <1>5, <2>2, SteadyStep
<1>6. CASE AmountsPut
      BY <1>5, <1>6, ClaimTypes DEF AmountsPut, BotLocal, BotRecord, ExchangeRecord
<1>7. CASE BotStatusPut
      BY <1>5, <1>7, ClaimTypes DEF BotStatusPut, BotLocal, BotRecord, ExchangeRecord, Statuses
<1>8. CASE BotStatusGet \/ BotSend
  <2>1. /\ UNCHANGED <<exchanges, resolves, touched>>
        /\ bot'.pc \notin {"amountsGet", "amountsPut"}
    <3>1. CASE BotStatusGet
          BY <3>1, ClaimTypes DEF BotStatusGet, BotLocal, database, BotRecord
    <3>2. CASE BotSend
          BY <3>2 DEF BotSend, BotLocal, database, IdleBot
    <3>3. QED
          BY <1>8, <3>1, <3>2
  <2>2. QED
        BY <1>0, <2>1, SteadyStep DEF Claims, Open, Reopens
<1>9. QED
      BY <1>2, <1>3, <1>4, <1>6, <1>7, <1>8 DEF BotStep, BotNext

LEMMA HandlerBudget == ASSUME TypeInv, ClaimInv, BudgetInv, HandlerStep PROVE BudgetInv'
<1>0. UNCHANGED <<bot, resolves, touched>> /\ \A e \in Exchanges : Reopens(e)' = Reopens(e)
      BY DEF HandlerStep, botVars, Reopens
<1> DEFINE x == handler.ex
<1>1. CASE Receive \/ FindNone
  <2>1. /\ UNCHANGED <<exchanges, payouts>> /\ handler.pc \in {"idle", "find"}
        /\ handler'.ex \in {NoExchange, x}
    <3>1. CASE Receive
      <4>1. Head(queue).amount < MinUsdt \/ ~(Head(queue).amount < MinUsdt)
            OBVIOUS
      <4>2. QED
            BY <3>1, <4>1 DEF Receive, IdleHandler, database
    <3>2. CASE FindNone
          BY <3>2, ClaimTypes DEF FindNone, database, HandlerRecord
    <3>3. QED
          BY <1>1, <3>1, <3>2
  <2>2. \A e \in Exchanges : x # e /\ handler'.ex # e
        BY <2>1, ClaimTypes DEF ClaimInv, HandsInv
  <2>3. QED
        BY <1>0, <2>1, <2>2, SteadyStep DEF Claims, Open
<1>2. ASSUME NEW e \in Exchanges, Find(e) PROVE BudgetInv'
  <2>1. /\ UNCHANGED <<exchanges, payouts>> /\ handler.pc = "find"
        /\ handler'.pc = "get" /\ handler'.goal = "deposit_detected" /\ handler'.ex = e
        /\ exchanges[e].status = "pending"
        BY <1>2, ClaimTypes DEF Find, database, FindByAddress, First, Pending, HandlerRecord
  <2>2. \A f \in Exchanges : x # f
        BY <2>1, ClaimTypes DEF ClaimInv, HandsInv
  <2>3. QED
        BY <1>0, <2>1, <2>2, SteadyStep DEF Claims, Open
<1>3. CASE StatusGet
  <2>1. /\ UNCHANGED <<exchanges, payouts>> /\ handler.pc = "get"
        /\ handler'.pc = "put" /\ handler'.ex = x /\ handler'.goal = handler.goal
        BY <1>3, ClaimTypes DEF StatusGet, database, HandlerRecord
  <2>2. QED
        BY <1>0, <2>1, SteadyStep DEF Claims, Open
<1>4. CASE StatusPut
  <2>1. /\ handler.pc = "put" /\ x \in Exchanges /\ payouts' = payouts
        /\ handler.goal \in {"deposit_detected", "sending", "sent", "error"}
        /\ exchanges'[x].status = handler.goal
        /\ \A f \in Exchanges \ {x} : exchanges'[f] = exchanges[f]
        BY <1>4, ClaimTypes DEF StatusPut, PutExchange, Goals, HandlerRecord, ExchangeRecord
  <2>2. /\ handler'.ex = x
        /\ handler'.pc \in {"get", "pay"} => handler.goal \in {"deposit_detected", "sending"}
        /\ handler'.pc \in {"get", "pay", "add"}
        BY <1>4, <2>1, ClaimTypes DEF StatusPut, HandlerRecord
  <2>3. \A e \in Exchanges : (Claims(e)' => Claims(e)) /\ (Open(e)' => Open(e))
        BY <2>1, <2>2 DEF Claims, Open
  <2>4. QED
        BY <1>0, <2>1, <2>3, SteadyStep
<1>5. ASSUME NEW broadcast \in BOOLEAN, NEW ok \in BOOLEAN, Pay(broadcast, ok)
      PROVE  BudgetInv'
  <2> DEFINE p == [exchange |-> x, transfer |-> handler.event.transfer,
                   src |-> handler.event.src]
  <2>1. /\ UNCHANGED exchanges /\ handler.pc = "pay" /\ x \in Exchanges
        /\ handler'.pc = "get" /\ handler'.ex = x /\ handler'.goal \in {"sent", "error"}
        BY <1>5, ClaimTypes DEF Pay, database, HandlerRecord
  <2>2. ASSUME NEW e \in Exchanges
        PROVE  /\ Open(e)' = Open(e) /\ Claims(e) = (e = x) /\ ~Claims(e)'
        BY <2>1 DEF Open, Claims
  <2>3. CASE payouts' = payouts
        BY <1>0, <2>2, <2>3, SteadyStep
  <2>4. CASE payouts' = Append(payouts, p)
    <3>1. p \in Payout
          BY <2>1, ClaimTypes DEF HandlerRecord, Event, Payout
    <3> SUFFICES ASSUME NEW e \in Exchanges
                 PROVE  Cardinality(PayoutsOf(e))' + Spent(e)' <= Budget(e)'
        BY DEF BudgetInv
    <3>2. Cardinality(PayoutsOf(e))' = Cardinality(PayoutsOf(e)) + OneIf(e = x)
          BY <2>4, <3>1, PayoutCounted DEF OneIf
    <3>3. Spent(e)' + OneIf(e = x) = Spent(e) /\ Spent(e) \in Int /\ Spent(e)' \in Int
      <4>1. OneIf(Open(e))' = OneIf(Open(e)) /\ OneIf(Reopens(e))' = OneIf(Reopens(e))
            BY <1>0, <2>2 DEF OneIf
      <4>2. OneIf(Claims(e)) = OneIf(e = x) /\ OneIf(Claims(e))' = 0
            BY <2>2 DEF OneIf
      <4>3. \A b : OneIf(b) \in Int
            BY DEF OneIf
      <4>4. QED
            BY <4>1, <4>2, <4>3 DEF Spent
    <3>4. Budget(e)' = Budget(e) /\ Budget(e) \in Int
          BY <1>0, ClaimTypes DEF Budget
    <3>5. Cardinality(PayoutsOf(e)) + Spent(e) <= Budget(e) /\ Cardinality(PayoutsOf(e)) \in Nat
          BY PayoutsFinite DEF BudgetInv
    <3>6. OneIf(e = x) \in Int
          BY DEF OneIf
    <3>7. QED
          BY <3>2, <3>3, <3>4, <3>5, <3>6
  <2>5. QED
        BY <1>5, <2>3, <2>4 DEF Pay
<1>6. CASE AddDeposit
  <2>1. /\ UNCHANGED <<exchanges, payouts>> /\ handler.pc = "add" /\ handler'.ex = NoExchange
        BY <1>6 DEF AddDeposit, database, IdleHandler
  <2>2. QED
        BY <1>0, <2>1, ClaimTypes, SteadyStep DEF Claims, Open
<1>7. QED
      BY <1>1, <1>2, <1>3, <1>4, <1>5, <1>6 DEF HandlerStep, HandlerNext

LEMMA StepBudget ==
  ASSUME TypeInv, ClaimInv, BudgetInv, [Next]_vars PROVE BudgetInv'
<1>1. ASSUME NEW e \in Exchanges, CreateExchange(e),
             UNCHANGED <<handler, payouts, bot, resolves, touched, crashes>>
      PROVE  BudgetInv'
  <2>1. exchanges[e].status = "absent" /\ \A f \in Exchanges \ {e} : exchanges'[f] = exchanges[f]
        BY <1>1, ClaimTypes DEF CreateExchange, PutExchange
  <2>2. \A f \in Exchanges :
          Claims(f)' = Claims(f) /\ Reopens(f)' = Reopens(f) /\ (Open(f)' => Open(f))
        BY <1>1, <2>1 DEF Claims, Reopens, Open
  <2>3. QED
        BY <1>1, <2>2, SteadyStep
<1>2. CASE Crash
  <2>1. /\ UNCHANGED <<exchanges, payouts, resolves, touched>>
        /\ handler'.ex = NoExchange /\ bot'.ex = NoExchange
        BY <1>2 DEF Crash, database, IdleHandler, IdleBot
  <2>2. ASSUME NEW e \in Exchanges
        PROVE  ~Claims(e)' /\ ~Reopens(e)' /\ (Open(e)' => Open(e) \/ Claims(e))
        BY <2>1, ClaimTypes DEF Claims, Reopens, Open
  <2>3. QED
        BY <2>1, <2>2, SteadyStep
<1>3. CASE UNCHANGED exchangeVars
      BY <1>3, SteadyStep DEF exchangeVars, Claims, Open, Reopens
<1>4. QED
      BY <1>1, <1>2, <1>3, StepKinds, HandlerBudget, BotBudget

\* No exchange runs over its budget of one payout, and one more per command
\* once a command has touched it (main.rs, telegram_bot.rs).
THEOREM BudgetCorrect == Spec => []BudgetInv
<1>1. TypeInv /\ ClaimInv /\ BudgetInv /\ [Next]_vars => BudgetInv'
      BY StepBudget
<1>2. QED
      BY <1>1, InitBudget, TypeCorrect, ClaimCorrect, PTL DEF Spec

\* An exchange is paid at most once, and once more for each command that has
\* been given once one has touched it, whatever deposits reach its address,
\* whatever the broadcasts return and wherever the node stops.
COROLLARY PaidOnceEach == Spec => []PaidOncePerExchange
<1>1. TypeInv /\ BudgetInv => PaidOncePerExchange
  <2> SUFFICES ASSUME TypeInv, BudgetInv, NEW e \in Exchanges
               PROVE  Cardinality(PayoutsOf(e)) <= Budget(e)
      BY DEF PaidOncePerExchange, PayoutsOf, Budget
  <2>1. Cardinality(PayoutsOf(e)) \in Int /\ Budget(e) \in Int
        BY PayoutsFinite, ClaimTypes DEF Budget
  <2>2. Spent(e) \in Nat
        BY DEF Spent, OneIf
  <2>3. QED
        BY <2>1, <2>2 DEF BudgetInv
<1>2. QED
      BY <1>1, TypeCorrect, BudgetCorrect, PTL

-----------------------------------------------------------------------------
(* The order of the statuses.                                               *)

LEMMA StepForward ==
  ASSUME TypeInv, ClaimInv, [Next]_vars, NEW e \in Exchanges \ touched'
  PROVE  \/ exchanges'[e].status = exchanges[e].status
         \/ Rank(exchanges[e].status) < Rank(exchanges'[e].status)
<1>1. ASSUME NEW f \in Exchanges, CreateExchange(f)
      PROVE  \/ exchanges'[e].status = exchanges[e].status
             \/ Rank(exchanges[e].status) < Rank(exchanges'[e].status)
  <2>1. /\ exchanges[f].status = "absent" /\ exchanges'[f].status = "pending"
        /\ \A g \in Exchanges \ {f} : exchanges'[g] = exchanges[g]
        BY <1>1, ClaimTypes DEF CreateExchange, PutExchange
  <2>2. QED
        BY <2>1 DEF Rank
<1>2. CASE HandlerStep
  <2>1. CASE StatusPut
    <3> DEFINE x == handler.ex
    <3>1. /\ handler.pc = "put" /\ x \in Exchanges
          /\ handler.goal \in {"deposit_detected", "sending", "sent", "error"}
          /\ exchanges'[x].status = handler.goal
          /\ \A f \in Exchanges \ {x} : exchanges'[f] = exchanges[f]
          BY <2>1, ClaimTypes DEF StatusPut, PutExchange, Goals, HandlerRecord, ExchangeRecord
    <3>2. touched' = touched
          BY <1>2 DEF HandlerStep, botVars
    <3>3. e = x => exchanges[e].status = Before(handler.goal)
          BY <3>1, <3>2 DEF ClaimInv, ClaimOf
    <3>4. Rank(Before(handler.goal)) < Rank(handler.goal)
          BY <3>1 DEF Rank, Before
    <3>5. QED
          BY <3>1, <3>3, <3>4
  <2>2. CASE ~StatusPut
        BY <1>2, <2>2 DEF HandlerStep, HandlerNext, Receive, Find, FindNone, StatusGet, Pay,
                          AddDeposit, database
  <2>3. QED
        BY <2>1, <2>2
<1>3. CASE BotStep
  <2>1. touched \subseteq touched' /\ (bot.pc # "idle" => bot.ex # e)
    <3>1. touched \subseteq touched'
          BY <1>3 DEF BotStep, BotNext, ResolveReview, ResolveExchange, Accept, AmountsGet,
                      AmountsPut, BotStatusGet, BotStatusPut, BotSend, BotLocal
    <3>2. QED
          BY <3>1 DEF ClaimInv, HandsInv
  <2>2. CASE AmountsPut \/ BotStatusPut
        BY <2>1, <2>2, ClaimTypes DEF AmountsPut, BotStatusPut, PutExchange
  <2>3. CASE ~(AmountsPut \/ BotStatusPut)
        BY <1>3, <2>3 DEF BotStep, BotNext, ResolveReview, ResolveExchange, Accept, AmountsGet,
                          BotStatusGet, BotSend, database
  <2>4. QED
        BY <2>2, <2>3
<1>4. CASE Crash \/ UNCHANGED exchangeVars
      BY <1>4 DEF Crash, database, exchangeVars
<1>5. QED
      BY <1>1, <1>2, <1>3, <1>4, StepKinds

\* The status of an exchange no command has touched only moves forward, and
\* "sent" and "error" are final, across restarts and duplicate deposits.
THEOREM StatusForward == Spec => StatusMovesForward
<1>1. TypeInv /\ ClaimInv /\ [Next]_vars =>
        [\A e \in Exchanges \ touched' :
           LET s == exchanges[e].status  s2 == exchanges'[e].status
           IN  s2 = s \/ Rank(s) < Rank(s2)]_vars
      BY StepForward
<1>2. QED
      BY <1>1, TypeCorrect, ClaimCorrect, PTL DEF Spec, StatusMovesForward
=============================================================================
