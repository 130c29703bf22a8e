------------------------------ MODULE Redirect ------------------------------
(***************************************************************************)
(* The redirect of deposits between nodes: the end of the deposit task of  *)
(* src/src/main.rs, which keeps its own reserve locked and its registry    *)
(* read-locked while it calls the servers of its peers, and the servers    *)
(* (src/src/web.rs), which answer under the lock of their own reserve.     *)
(* The HTTP client has no timeout.                                         *)
(*                                                                         *)
(* The registry of the program as built stays empty (Dht); here records do *)
(* arrive.  An entry is abstracted to the node it names, which is all the  *)
(* task uses of it.                                                        *)
(***************************************************************************)
EXTENDS Integers, FiniteSets

CONSTANTS
  Nodes,
  Records,      \* records that may be found: <<n, p>> when n may learn of p
  Guarded,      \* nodes with an ADMIN_TOKEN
  Amounts,      \* estimated BTC of a deposit, in units of the reserve
  Threshold,    \* rebalance_threshold, in the same unit
  MaxReserve,   \* bound: what an operator sets a reserve to
  MaxTotal      \* bound: deposits accumulated by a node

ASSUME RedirectAssumption ==
  /\ Records \subseteq Nodes \X Nodes
  /\ Guarded \subseteq Nodes
  /\ Amounts \subseteq Nat \ {0}
  /\ Threshold \in Nat /\ MaxReserve \in Nat /\ MaxTotal \in Nat

VARIABLES
  reserve,   \* [Nodes -> btc_reserve of P2pState]
  total,     \* [Nodes -> total of the RebalanceEngine]
  registry,  \* [Nodes -> peers in the PeerRegistry]
  arriving,  \* [Nodes -> the record its event loop is storing, if any]
  task       \* [Nodes -> the deposit task]

vars == <<reserve, total, registry, arriving, task>>

Task ==
  [pc   : {"idle",    \* waits for a deposit
           "short",   \* holds its reserve, waits for the registry
           "scan",    \* holds both, between two peers
           "ask",     \* holds both, waits for a peer's reserve
           "offer"},  \* holds both, waits for a peer's decision
   need : Amounts \cup {0},
   left : SUBSET Nodes,
   peer : SUBSET Nodes]

IdleTask == [pc |-> "idle", need |-> 0, left |-> {}, peer |-> {}]

TypeOK ==
  /\ reserve \in [Nodes -> 0..MaxReserve]
  /\ total \in [Nodes -> 0..MaxTotal]
  /\ registry \in [Nodes -> SUBSET Nodes]
  /\ arriving \in [Nodes -> SUBSET Nodes]
  /\ task \in [Nodes -> Task]

\* P2pState::new: a node starts with an empty reserve.
Init ==
  /\ reserve = [n \in Nodes |-> 0]
  /\ total = [n \in Nodes |-> 0]
  /\ registry = [n \in Nodes |-> {}]
  /\ arriving = [n \in Nodes |-> {}]
  /\ task = [n \in Nodes |-> IdleTask]

HoldsReserve(n)  == task[n].pc # "idle"
HoldsRegistry(n) == task[n].pc \in {"scan", "ask", "offer"}
Calls(n, p)      == task[n].pc \in {"ask", "offer"} /\ p \in task[n].peer

-----------------------------------------------------------------------------
(* The deposit task, from add_deposit on.                                   *)

\* add_deposit, then the node's own reserve, which stays locked if it is short.
AddDeposit(n, amount) ==
  /\ task[n].pc = "idle"
  /\ total[n] + amount <= MaxTotal
  /\ total' = [total EXCEPT ![n] = @ + amount]
  /\ task' = IF total'[n] >= Threshold /\ reserve[n] < amount
             THEN [task EXCEPT ![n] = [IdleTask EXCEPT !.pc = "short", !.need = amount]]
             ELSE task
  /\ UNCHANGED <<reserve, registry, arriving>>

\* registry.read(): the peers of this scan.
ReadRegistry(n) ==
  /\ task[n].pc = "short"
  /\ task' = [task EXCEPT ![n] = [@ EXCEPT !.pc = "scan", !.left = registry[n]]]
  /\ UNCHANGED <<reserve, total, registry, arriving>>


\* The next peer, in no particular order; the node skips itself.
CallNext(n, p) ==
  /\ task[n].pc = "scan"
  /\ p \in task[n].left \ {n}
  /\ task' = [task EXCEPT ![n] =
                 [@ EXCEPT !.pc = "ask", !.peer = {p}, !.left = task[n].left \ {n, p}]]
  /\ UNCHANGED <<reserve, total, registry, arriving>>


\* The end of the loop releases both locks.
ScanEnds(n) ==
  /\ task[n].pc = "scan"
  /\ task[n].left \subseteq {n}
  /\ task' = [task EXCEPT ![n] = IdleTask]
  /\ UNCHANGED <<reserve, total, registry, arriving>>

Resume(n) == [task EXCEPT ![n] = [@ EXCEPT !.pc = "scan", !.peer = {}]]

\* The connection breaks: the task goes on with the next peer.
CallFails(n) ==
  /\ task[n].pc \in {"ask", "offer"}
  /\ task' = Resume(n)
  /\ UNCHANGED <<reserve, total, registry, arriving>>

-----------------------------------------------------------------------------
(* The servers.  A handler waits for the lock of its node's reserve.        *)

\* p2p_reserve_handler of p, and what the task of n does with the answer.
ReserveAnswered(n, p) ==
  /\ task[n].pc = "ask" /\ p \in task[n].peer
  /\ ~HoldsReserve(p)
  /\ task' = IF reserve[p] >= task[n].need
             THEN [task EXCEPT ![n].pc = "offer"]
             ELSE Resume(n)
  /\ UNCHANGED <<reserve, total, registry, arriving>>

\* require_auth: call_node_redirect sends no token, so a guarded node refuses.
Refused(n, p) ==
  /\ task[n].pc = "offer" /\ p \in task[n].peer
  /\ p \in Guarded
  /\ task' = Resume(n)
  /\ UNCHANGED <<reserve, total, registry, arriving>>

\* p2p_redirect_handler of p: it compares again, and whatever it decides it
\* reserves nothing, and the task of n goes on to the next peer.
RedirectDecided(n, p) ==
  /\ task[n].pc = "offer" /\ p \in task[n].peer
  /\ p \notin Guarded
  /\ ~HoldsReserve(p)
  /\ task' = Resume(n)
  /\ UNCHANGED <<reserve, total, registry, arriving>>

\* Faulty: the new value is written while the deposit task reads the old one.
SetReserveUnlocked(n, amount) ==
  /\ reserve' = [reserve EXCEPT ![n] = amount]
  /\ UNCHANGED <<total, registry, arriving, task>>

\* Faulty: the amount is taken for what has been spent.
SetReserveSpends(n, amount) ==
  /\ ~HoldsReserve(n)
  /\ reserve' = [reserve EXCEPT ![n] = @ - amount]
  /\ UNCHANGED <<total, registry, arriving, task>>

\* api_set_reserve: an operator writes the balance of the wallet.
SetReserve(n, amount) ==
  /\ ~HoldsReserve(n)
  /\ reserve' = [reserve EXCEPT ![n] = amount]
  /\ UNCHANGED <<total, registry, arriving, task>>

-----------------------------------------------------------------------------
(* The writers of the registry wait until no scan reads it.                 *)

\* ValueFound: the event loop has a record in hand.
RecordFound(n, p) ==
  /\ <<n, p>> \in Records
  /\ arriving[n] = {}
  /\ p \notin registry[n]
  /\ arriving' = [arriving EXCEPT ![n] = {p}]
  /\ UNCHANGED <<reserve, total, registry, task>>

StoreRecord(n) ==
  /\ arriving[n] # {}
  /\ ~HoldsRegistry(n)
  /\ registry' = [registry EXCEPT ![n] = @ \cup arriving[n]]
  /\ arriving' = [arriving EXCEPT ![n] = {}]
  /\ UNCHANGED <<reserve, total, task>>

\* Faulty: entries are dropped while a scan goes on, as if it had a copy.
RemoveStaleUnlocked(n, p) ==
  /\ p \in registry[n]
  /\ registry' = [registry EXCEPT ![n] = @ \ {p}]
  /\ UNCHANGED <<reserve, total, arriving, task>>

\* remove_stale, of any entry: its age is not modelled here.
RemoveStale(n, p) ==
  /\ p \in registry[n]
  /\ ~HoldsRegistry(n)
  /\ registry' = [registry EXCEPT ![n] = @ \ {p}]
  /\ UNCHANGED <<reserve, total, arriving, task>>

-----------------------------------------------------------------------------
TaskStep(n) ==
  \/ ReadRegistry(n)
  \/ ScanEnds(n)
  \/ \E p \in Nodes : CallNext(n, p) \/ ReserveAnswered(n, p) \/ Refused(n, p)
                      \/ RedirectDecided(n, p)

Environment(n) ==
  \/ \E amount \in Amounts : AddDeposit(n, amount)
  \/ \E amount \in 0..MaxReserve : SetReserve(n, amount)
  \/ \E p \in Nodes : RecordFound(n, p) \/ RemoveStale(n, p)
  \/ CallFails(n)

Next == \E n \in Nodes : TaskStep(n) \/ StoreRecord(n) \/ Environment(n)

Spec == Init /\ [][Next]_vars

\* Tasks run and servers answer when they have their lock.  That a call fails,
\* or that anything arrives from outside, is not relied on.
FairSpec ==
  Spec /\ \A n \in Nodes : WF_vars(TaskStep(n)) /\ WF_vars(StoreRecord(n))

-----------------------------------------------------------------------------
\* A deposit is offered to others only while the node's own reserve is too
\* small for it: an operator's new balance waits for the scan (main.rs:296,
\* web.rs:210).
OnlyShortNodesRedirect ==
  \A n \in Nodes : HoldsReserve(n) => reserve[n] < task[n].need

\* The peers of a scan stay registered until it ends: a node that has been
\* dropped as stale is never called (main.rs:301, p2p.rs:136).
CalledPeersAreRegistered ==
  \A n \in Nodes : HoldsRegistry(n) => task[n].left \cup task[n].peer \subseteq registry[n]

\* Nodes that wait on each other: each of them holds its own reserve and calls
\* another one of them.
Circle ==
  \E S \in SUBSET Nodes :
    /\ Cardinality(S) > 1
    /\ \A n \in S : \E p \in S \ {n} : Calls(n, p)


=============================================================================
