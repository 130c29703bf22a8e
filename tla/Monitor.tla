------------------------------ MODULE Monitor ------------------------------
(***************************************************************************)
(* The two chain monitors of src/src/monitor.rs.  Each is one task that    *)
(* repeats a pass: emit the deposits recorded earlier that are now mature, *)
(* then scan the chain for new ones.  Every write to the database and      *)
(* every send is a step, because the node may stop between any two.        *)
(*                                                                         *)
(*   scan_tron asks for the transfers of each pending exchange's address;  *)
(*   scan_bsc asks for all transfers and looks each recipient up.          *)
(***************************************************************************)
EXTENDS Store

CONSTANTS
  MaxPending,  \* MAX_PENDING_PER_CHAIN
  PageLimit    \* "limit=5" of the Tron query

ASSUME MonitorAssumption == MaxPending \in Nat /\ PageLimit \in Nat

VARIABLES
  monitor,  \* [Chains -> locals of the pass]
  sent      \* history: transfers whose deposit was sent on the channel

monitorVars == <<monitor, sent>>

MonitorPcs == {"idle", "emit", "scan", "check", "height", "reviewed",
               "confirm", "mark", "send"}

MonitorRecord ==
  [pc       : MonitorPcs,
   ripe     : SUBSET Transfers,    \* mature at the clock or height of the pass
   ready    : SUBSET Transfers,    \* entries of pending_tx still to emit
   visit    : SUBSET Exchanges,    \* Tron: exchanges still to query
   expected : [Exchanges -> Nat],  \* Tron: their amounts when they were listed
   at       : Exchanges \cup {NoExchange},  \* Tron: the exchange queried
   todo     : SUBSET Transfers,    \* transfers of the reply still to examine
   cur      : Transfers \cup {NoTransfer},
   known    : BOOLEAN,             \* cur's recipient is in a local variable
   matched  : Nat]                 \* BSC: deposits recorded in this pass

IdleMonitor ==
  [pc |-> "idle", ripe |-> {}, ready |-> {}, visit |-> {},
   expected |-> [e \in Exchanges |-> 0], at |-> NoExchange, todo |-> {},
   cur |-> NoTransfer, known |-> FALSE, matched |-> 0]

MonitorTypeOK ==
  /\ monitor \in [Chains -> MonitorRecord]
  /\ sent \subseteq Transfers

MonitorInit ==
  /\ monitor = [c \in Chains |-> IdleMonitor]
  /\ sent = {}

At(c, pc) == c \in Chains /\ monitor[c].pc = pc

Local(c, m) == monitor' = [monitor EXCEPT ![c] = m]

EndPass(c) == Local(c, IdleMonitor)

OnChain(c) == {t \in arrived : TransferChain[t] = c}

-----------------------------------------------------------------------------
(* Emission of recorded deposits, emit_ready_pending_txs(_time), and the    *)
(* three steps it shares with the immediate emission of a scan.             *)

\* Faulty: the test of the confirmed flag is inverted.
ReadyInverted(c, ripe) ==
  {t \in ripe : /\ TransferChain[t] = c
                /\ t \in pendingTx[HashOf[t]]
                /\ HashOf[t] \in confirmed}

\* The entries of the snapshot get_pending_txs takes that are old enough.
\* Only this chain's monitor writes them, so the snapshot stays accurate.
Ready(c, ripe) ==
  {t \in ripe : /\ TransferChain[t] = c
                /\ t \in pendingTx[HashOf[t]]
                /\ HashOf[t] \notin confirmed}

\* A pass starts: Tron reads the clock, BSC the block height.  When BSC
\* cannot read the height it emits nothing and goes on.
BeginPass(c) ==
  /\ At(c, "idle")
  /\ \E ripe \in {mature} \cup (IF c = "bsc" THEN {{}} ELSE {}) :
        Local(c, [IdleMonitor EXCEPT !.pc = "emit", !.ripe = ripe,
                                     !.ready = Ready(c, ripe)])
  /\ UNCHANGED <<database, queue, world, sent>>

\* mark_pending_tx_confirmed for an entry.  The event is built from the field
\* "to_address" of the entry, which add_pending_tx stores as "deposit_address".
EmitPending(c, t) ==
  /\ At(c, "emit")
  /\ t \in monitor[c].ready
  /\ MarkConfirmed(HashOf[t])
  /\ Local(c, [monitor[c] EXCEPT !.pc = "mark", !.cur = t, !.known = FALSE,
                                 !.ready = @ \ {t}])
  /\ UNCHANGED <<exchanges, processed, pendingTx, reviews, queue, world, sent>>

\* mark_pending_tx_confirmed in a scan, where the recipient is known.
EmitDirect(c) ==
  /\ At(c, "confirm")
  /\ MarkConfirmed(HashOf[monitor[c].cur])
  /\ Local(c, [monitor[c] EXCEPT !.pc = "mark", !.known = TRUE])
  /\ UNCHANGED <<exchanges, processed, pendingTx, reviews, queue, world, sent>>

\* Faulty: the call of mark_tx_processed is missing.
MarkStepForgets(c) ==
  /\ At(c, "mark")
  /\ Local(c, [monitor[c] EXCEPT !.pc = "send"])
  /\ UNCHANGED <<database, queue, world, sent>>

\* mark_tx_processed, before the event is handed over.
MarkStep(c) ==
  /\ At(c, "mark")
  /\ MarkProcessed(HashOf[monitor[c].cur])
  /\ Local(c, [monitor[c] EXCEPT !.pc = "send"])
  /\ UNCHANGED <<exchanges, pendingTx, confirmed, reviews, queue, world, sent>>

DepositOf(t, known) ==
  [transfer |-> t, to |-> IF known THEN TransferTo[t] ELSE NoAddress,
   amount |-> TransferAmount[t], src |-> "monitor"]

SendStep(c) ==
  LET m == monitor[c] IN
  /\ At(c, "send")
  /\ Enqueue(DepositOf(m.cur, m.known))
  /\ sent' = sent \cup {m.cur}
  /\ Local(c, [m EXCEPT !.pc = IF m.known THEN "scan" ELSE "emit", !.cur = NoTransfer])
  /\ UNCHANGED <<database, world>>

\* Faulty: the "continue" after the review is missing.
ReviewedFallsThrough(c) ==
  /\ At(c, "reviewed")
  /\ MarkProcessed(HashOf[monitor[c].cur])
  /\ Local(c, [monitor[c] EXCEPT !.pc = "confirm"])
  /\ UNCHANGED <<exchanges, pendingTx, confirmed, reviews, queue, world, sent>>

\* mark_tx_processed after add_manual_review.
ReviewedStep(c) ==
  /\ At(c, "reviewed")
  /\ MarkProcessed(HashOf[monitor[c].cur])
  /\ Local(c, [monitor[c] EXCEPT !.pc = "scan", !.cur = NoTransfer])
  /\ UNCHANGED <<exchanges, pendingTx, confirmed, reviews, queue, world, sent>>

-----------------------------------------------------------------------------
(* scan_tron                                                                *)

\* get_pending_exchanges, truncated to max_pending.
TronList ==
  /\ At("tron", "emit") /\ monitor["tron"].ready = {}
  /\ LET listed == FirstN(PendingExchanges("tron"), MaxPending) IN
     Local("tron", [monitor["tron"] EXCEPT
        !.pc = "scan", !.visit = listed,
        !.expected = [e \in Exchanges |-> IF e \in listed THEN exchanges[e].usdt ELSE 0]])
  /\ UNCHANGED <<database, queue, world, sent>>

\* The reply: the newest transfers to the address, at most PageLimit.
Page(a) ==
  LET paid == {t \in OnChain("tron") : TransferTo[t] = a}
  IN  {t \in paid : Cardinality({u \in paid : u > t}) < PageLimit}

TronReply(e, reply) ==
  /\ At("tron", "scan") /\ monitor["tron"].todo = {}
  /\ e \in First(monitor["tron"].visit)
  /\ Local("tron", [monitor["tron"] EXCEPT !.at = e, !.visit = @ \ {e}, !.todo = reply])
  /\ UNCHANGED <<database, queue, world, sent>>

TronQuery(e) == TronReply(e, Page(DepositAddress[e]))

\* A JSON reply without "data" skips this exchange, and the pass goes on.
TronNoData(e) == TronReply(e, {})

\* A query that still fails after the retries ends the pass.
TronQueryFails ==
  /\ At("tron", "scan") /\ monitor["tron"].todo = {} /\ monitor["tron"].visit # {}
  /\ EndPass("tron")
  /\ UNCHANGED <<database, queue, world, sent>>

\* The transfer of the reply under examination, newest first.
TronNext(t) ==
  /\ At("tron", "scan")
  /\ t \in monitor["tron"].todo
  /\ \A u \in monitor["tron"].todo : u <= t

TronSkip(t) ==
  /\ TronNext(t)
  /\ HashOf[t] \in processed
  /\ Local("tron", [monitor["tron"] EXCEPT !.todo = @ \ {t}])
  /\ UNCHANGED <<database, queue, world, sent>>

\* Faulty: the hash is marked without the review being stored.
TronReviewUnstored(t) ==
  LET m == monitor["tron"] IN
  /\ TronNext(t)
  /\ HashOf[t] \notin processed
  /\ Mismatch(TransferAmount[t], m.expected[m.at])
  /\ Local("tron", [m EXCEPT !.todo = @ \ {t}, !.pc = "reviewed", !.cur = t])
  /\ UNCHANGED <<database, queue, world, sent>>

TronReview(t) ==
  LET m == monitor["tron"] IN
  /\ TronNext(t)
  /\ HashOf[t] \notin processed
  /\ Mismatch(TransferAmount[t], m.expected[m.at])
  /\ AddManualReview(t, m.expected[m.at])
  /\ Local("tron", [m EXCEPT !.todo = @ \ {t}, !.pc = "reviewed", !.cur = t])
  /\ UNCHANGED <<exchanges, processed, pendingTx, confirmed, queue, world, sent>>

TronRecord(t) ==
  LET m == monitor["tron"] IN
  /\ TronNext(t)
  /\ HashOf[t] \notin processed
  /\ ~Mismatch(TransferAmount[t], m.expected[m.at])
  /\ AddPendingTx(t)
  /\ Local("tron", IF t \in m.ripe
                   THEN [m EXCEPT !.todo = @ \ {t}, !.pc = "confirm", !.cur = t]
                   ELSE [m EXCEPT !.todo = @ \ {t}])
  /\ UNCHANGED <<exchanges, processed, reviews, queue, world, sent>>

TronEnd ==
  /\ At("tron", "scan")
  /\ monitor["tron"].todo = {} /\ monitor["tron"].visit = {}
  /\ EndPass("tron")
  /\ UNCHANGED <<database, queue, world, sent>>

TronNextStep ==
  \/ TronList
  \/ \E e \in Exchanges : TronQuery(e) \/ TronNoData(e)
  \/ TronQueryFails
  \/ \E t \in Transfers : TronSkip(t) \/ TronReview(t) \/ TronRecord(t)
  \/ TronEnd

-----------------------------------------------------------------------------
(* scan_bsc                                                                 *)

\* eth_getLogs, all transfers of the contract from the earliest block on.
BscLogs ==
  /\ At("bsc", "emit") /\ monitor["bsc"].ready = {}
  /\ Local("bsc", [IdleMonitor EXCEPT !.pc = "scan", !.todo = OnChain("bsc")])
  /\ UNCHANGED <<database, queue, world, sent>>

\* The call fails, or its reply has no "result".
BscLogsFail ==
  /\ At("bsc", "emit") /\ monitor["bsc"].ready = {}
  /\ EndPass("bsc")
  /\ UNCHANGED <<database, queue, world, sent>>

\* The log under examination, unless the pass already matched max_pending.
BscNext(t) ==
  /\ At("bsc", "scan")
  /\ monitor["bsc"].matched < MaxPending
  /\ t \in First(monitor["bsc"].todo)

BscSkip(t) ==
  /\ BscNext(t)
  /\ FindByAddress(TransferTo[t]) = {} \/ HashOf[t] \in processed
  /\ Local("bsc", [monitor["bsc"] EXCEPT !.todo = @ \ {t}])
  /\ UNCHANGED <<database, queue, world, sent>>

\* The first look-up finds an exchange.
BscFound(t) ==
  /\ BscNext(t)
  /\ FindByAddress(TransferTo[t]) # {}
  /\ HashOf[t] \notin processed
  /\ Local("bsc", [monitor["bsc"] EXCEPT !.todo = @ \ {t}, !.pc = "check", !.cur = t])
  /\ UNCHANGED <<database, queue, world, sent>>

\* The second look-up, from which the expected amount is taken.
BscReview(e) ==
  LET m == monitor["bsc"] IN
  /\ At("bsc", "check")
  /\ e \in FindByAddress(TransferTo[m.cur])
  /\ Mismatch(TransferAmount[m.cur], exchanges[e].usdt)
  /\ AddManualReview(m.cur, exchanges[e].usdt)
  /\ Local("bsc", [m EXCEPT !.pc = "reviewed"])
  /\ UNCHANGED <<exchanges, processed, pendingTx, confirmed, queue, world, sent>>

\* Faulty: the amount is not compared.
BscRecordUnchecked ==
  LET m == monitor["bsc"] IN
  /\ At("bsc", "check")
  /\ AddPendingTx(m.cur)
  /\ Local("bsc", [m EXCEPT !.pc = "height"])
  /\ UNCHANGED <<exchanges, processed, reviews, queue, world, sent>>

\* An exchange that the second look-up no longer finds skips the comparison.
BscRecord ==
  LET m == monitor["bsc"] IN
  /\ At("bsc", "check")
  /\ \A e \in FindByAddress(TransferTo[m.cur]) :
        ~Mismatch(TransferAmount[m.cur], exchanges[e].usdt)
  /\ AddPendingTx(m.cur)
  /\ Local("bsc", [m EXCEPT !.pc = "height"])
  /\ UNCHANGED <<exchanges, processed, reviews, queue, world, sent>>

\* A fresh block height decides whether the deposit is emitted at once.
BscDeep ==
  /\ At("bsc", "height")
  /\ monitor["bsc"].cur \in mature
  /\ Local("bsc", [monitor["bsc"] EXCEPT !.pc = "confirm", !.matched = @ + 1])
  /\ UNCHANGED <<database, queue, world, sent>>

\* Not deep enough, or the height could not be read.
BscShallow ==
  /\ At("bsc", "height")
  /\ Local("bsc", [monitor["bsc"] EXCEPT !.pc = "scan", !.cur = NoTransfer,
                                         !.matched = @ + 1])
  /\ UNCHANGED <<database, queue, world, sent>>

BscEnd ==
  /\ At("bsc", "scan")
  /\ monitor["bsc"].todo = {} \/ monitor["bsc"].matched >= MaxPending
  /\ EndPass("bsc")
  /\ UNCHANGED <<database, queue, world, sent>>

BscNextStep ==
  \/ BscLogs \/ BscLogsFail
  \/ \E t \in Transfers : BscSkip(t) \/ BscFound(t)
  \/ \E e \in Exchanges : BscReview(e)
  \/ BscRecord \/ BscDeep \/ BscShallow
  \/ BscEnd

-----------------------------------------------------------------------------
\* The steps both monitors take.
SharedStep(c) ==
  \/ BeginPass(c)
  \/ \E t \in Transfers : EmitPending(c, t)
  \/ EmitDirect(c) \/ MarkStep(c) \/ SendStep(c) \/ ReviewedStep(c)

MonitorNext == (\E c \in Chains : SharedStep(c)) \/ TronNextStep \/ BscNextStep
=============================================================================
