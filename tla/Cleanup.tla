------------------------------ MODULE Cleanup ------------------------------
(***************************************************************************)
(* The cleanup task of src/src/main.rs and delete_expired_exchanges of     *)
(* src/src/database.rs, beside what else changes the tree "exchanges":     *)
(* creation and the deposit handler.  Menus adds the operator's bot.       *)
(***************************************************************************)
EXTENDS Integers

CONSTANTS
  Exchanges,
  Lifetime,  \* 1800 s
  Grace,     \* 86400 s, the older_than_secs of the task
  MaxClock   \* bound: the last instant

ASSUME CleanupAssumption == Lifetime \in Nat /\ Grace \in Nat /\ MaxClock \in Nat

VARIABLES
  clock,
  status,    \* [Exchanges -> Statuses]
  expires,   \* expires_at
  toRemove,  \* keys the running cleanup collected
  cleaning,  \* a cleanup is between its scan and its removals
  handling   \* the exchange the deposit handler has in hand, and what it wrote last

cleanupVars == <<clock, status, expires, toRemove, cleaning, handling>>

Statuses == {"absent", "pending", "deposit_detected", "sending", "sent", "error", "expired"}

Nothing == [ex |-> 0, wrote |-> "absent"]

CleanupTypeOK ==
  /\ clock \in 0..MaxClock
  /\ status \in [Exchanges -> Statuses]
  /\ expires \in [Exchanges -> Nat]
  /\ toRemove \subseteq Exchanges
  /\ cleaning \in BOOLEAN
  /\ handling \in [ex : Exchanges \cup {0}, wrote : Statuses]

CleanupInit ==
  /\ clock = 0
  /\ status = [e \in Exchanges |-> "absent"]
  /\ expires = [e \in Exchanges |-> 0]
  /\ toRemove = {}
  /\ cleaning = FALSE
  /\ handling = Nothing

Tick ==
  /\ clock < MaxClock
  /\ clock' = clock + 1
  /\ UNCHANGED <<status, expires, toRemove, cleaning, handling>>

\* Faulty: the lifetime is subtracted.
CreateBackdated(e) ==
  /\ status[e] = "absent" /\ expires[e] = 0
  /\ status' = [status EXCEPT ![e] = "pending"]
  /\ expires' = [expires EXCEPT ![e] = clock - Lifetime]
  /\ UNCHANGED <<clock, toRemove, cleaning, handling>>

\* create_exchange; the identifier is random, so it is never used twice.
Create(e) ==
  /\ status[e] = "absent" /\ expires[e] = 0
  /\ status' = [status EXCEPT ![e] = "pending"]
  /\ expires' = [expires EXCEPT ![e] = clock + Lifetime]
  /\ UNCHANGED <<clock, toRemove, cleaning, handling>>

\* The deposit handler matches a deposit to a pending exchange.
HandlerFinds(e) ==
  /\ handling = Nothing
  /\ status[e] = "pending"
  /\ handling' = [ex |-> e, wrote |-> "pending"]
  /\ UNCHANGED <<clock, status, expires, toRemove, cleaning>>

\* Its calls of set_exchange_status, which look at no status on the way.
HandlerSets(s) ==
  /\ handling # Nothing
  /\ \/ handling.wrote = "pending"          /\ s = "deposit_detected"
     \/ handling.wrote = "deposit_detected" /\ s = "sending"
     \/ handling.wrote = "sending"          /\ s \in {"sent", "error"}
  /\ status' = [status EXCEPT ![handling.ex] = s]
  /\ handling' = IF s \in {"sent", "error"} THEN Nothing ELSE [handling EXCEPT !.wrote = s]
  /\ UNCHANGED <<clock, expires, toRemove, cleaning>>

\* now.saturating_sub(older_than_secs)
Cutoff == IF clock > Grace THEN clock - Grace ELSE 0

\* Nothing in the program writes "expired", so nothing ever is.
Removable(e) == expires[e] < Cutoff /\ status[e] = "expired"

\* delete_expired_exchanges collects the keys, then removes them.
Collect ==
  /\ ~cleaning
  /\ cleaning' = TRUE
  /\ toRemove' = {e \in Exchanges : Removable(e)}
  /\ UNCHANGED <<clock, status, expires, handling>>

RemoveCollected ==
  /\ cleaning
  /\ status' = [e \in Exchanges |-> IF e \in toRemove THEN "absent" ELSE status[e]]
  /\ cleaning' = FALSE
  /\ toRemove' = {}
  /\ UNCHANGED <<clock, expires, handling>>

CleanupNext ==
  \/ Tick
  \/ \E e \in Exchanges : Create(e) \/ HandlerFinds(e)
  \/ \E s \in Statuses : HandlerSets(s)
  \/ Collect \/ RemoveCollected
=============================================================================
