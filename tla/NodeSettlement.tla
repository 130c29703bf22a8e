--------------------------- MODULE NodeSettlement ---------------------------
(***************************************************************************)
(* Node implements Settlement: the mapping of its state, and the property. *)
(***************************************************************************)
EXTENDS NodeInvariants

\* The stage of an exchange that a status stands for.
StageOf(s) == CASE s = "absent"           -> "none"
                [] s = "pending"          -> "open"
                [] s \in {"sent", "error"} -> "closed"
                [] OTHER                  -> "claimed"

IsDepositFor(t, e) == TransferTo[t] = DepositAddress[e]

OfOneTransaction(t, u) == HashOf[t] = HashOf[u]

Promise == INSTANCE Settlement WITH
  state    <- [e \in Exchanges |-> StageOf(exchanges[e].status)],
  deposits <- arrived,
  ledger   <- payouts,
  manual   <- touched,
  Deposit  <- IsDepositFor,
  SameTx   <- OfOneTransaction

\* Every behaviour of the node, with its scans, its recorded deposits, lost
\* replies, stops and commands, is one of Settlement: BTC leaves for an
\* exchange only between the statuses "deposit_detected" and "sent" or "error",
\* once, and against a deposit to its address whose transaction paid for
\* nothing else (main.rs, monitor.rs, database.rs).
Settles == Promise!Spec
=============================================================================
