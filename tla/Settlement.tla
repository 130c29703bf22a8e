----------------------------- MODULE Settlement -----------------------------
(***************************************************************************)
(* What a node promises about the money of an exchange, whatever its tasks *)
(* do in between: an exchange is opened, claimed by a deposit and closed,  *)
(* in that order, and BTC leaves for it once, while it is claimed, against *)
(* a deposit to its address whose transaction pays for nothing else.       *)
(*                                                                         *)
(* Nothing is promised about an exchange the operator has intervened in,   *)
(* except that a transaction still pays only once.  Node implements this   *)
(* specification (NodeSettlement).                                         *)
(***************************************************************************)
EXTENDS Naturals, Sequences

CONSTANTS
  Exchanges,
  Transfers,      \* token transfers
  NoTransfer,     \* stands for none
  Deposit(_, _),  \* Deposit(t, e): transfer t goes to the address of e
  SameTx(_, _)    \* SameTx(t, u): t and u are of one transaction

VARIABLES
  state,     \* [Exchanges -> States]
  deposits,  \* transfers on their chain
  ledger,    \* the BTC payouts, in order
  manual     \* exchanges the operator has intervened in

vars == <<state, deposits, ledger, manual>>

States == {"none", "open", "claimed", "closed"}

Init ==
  /\ state = [e \in Exchanges |-> "none"]
  /\ deposits = {}
  /\ ledger = <<>>
  /\ manual = {}

Move(e, from, to) ==
  /\ state[e] = from
  /\ state' = [state EXCEPT ![e] = to]
  /\ UNCHANGED <<deposits, ledger, manual>>

Arrive(t) ==
  /\ deposits' = deposits \cup {t}
  /\ UNCHANGED <<state, ledger, manual>>

Entries == {ledger[i] : i \in 1..Len(ledger)}

\* A payout by a task of the node, against transfer t.
PayOut(e, t) ==
  /\ t \in deposits
  /\ Deposit(t, e)
  /\ \A p \in Entries : p.src = "monitor" => ~SameTx(p.transfer, t)
  /\ e \notin manual => state[e] = "claimed" /\ \A p \in Entries : p.exchange # e
  /\ ledger' = Append(ledger, [exchange |-> e, transfer |-> t, src |-> "monitor"])
  /\ UNCHANGED <<state, deposits, manual>>

\* A payout the operator asked for.  An exchange that shares its address with
\* the one the operator meant may get it, but like any other only once.
PayOutByHand(e) ==
  /\ e \notin manual => state[e] = "claimed" /\ \A p \in Entries : p.exchange # e
  /\ \E t \in Transfers \cup {NoTransfer} :
       ledger' = Append(ledger, [exchange |-> e, transfer |-> t, src |-> "bot"])
  /\ UNCHANGED <<state, deposits, manual>>

\* The operator intervenes in e, or what was done to such an exchange shows.
Intervene(e) ==
  /\ manual' = manual \cup {e}
  /\ \E s \in States : state' = [state EXCEPT ![e] = s]
  /\ UNCHANGED <<deposits, ledger>>

Next ==
  \/ \E e \in Exchanges :
       \/ Move(e, "none", "open") \/ Move(e, "open", "claimed") \/ Move(e, "claimed", "closed")
       \/ \E t \in Transfers : PayOut(e, t)
       \/ PayOutByHand(e)
       \/ Intervene(e)
  \/ \E t \in Transfers : Arrive(t)

Spec == Init /\ [][Next]_vars
=============================================================================
