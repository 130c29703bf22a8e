--------------------------- MODULE RedirectProofs ---------------------------
(***************************************************************************)
(* Proofs about Redirect, for any set of nodes, records and amounts.  The  *)
(* two locks of a scan are what every argument rests on: a step of another *)
(* actor that would disturb the scan is not taken while it goes on.        *)
(***************************************************************************)
EXTENDS Redirect, TLAPS

Locked == OnlyShortNodesRedirect /\ CalledPeersAreRegistered

\* A task has a peer exactly while it calls one, which is never its own node.
Focused ==
  \A n \in Nodes :
    /\ task[n].pc \notin {"ask", "offer"} => task[n].peer = {}
    /\ n \notin task[n].peer

\* Inductive.
Inv == TypeOK /\ Locked /\ Focused

LEMMA InitInv == Init => Inv
<1> SUFFICES ASSUME Init PROVE Inv
    OBVIOUS
<1>1. TypeOK
      BY RedirectAssumption DEF Init, TypeOK, Task, IdleTask
<1>2. Locked
      BY DEF Init, Locked, OnlyShortNodesRedirect, CalledPeersAreRegistered, HoldsReserve,
             HoldsRegistry, IdleTask
<1>3. Focused
      BY DEF Init, Focused, IdleTask
<1>4. QED
      BY <1>1, <1>2, <1>3 DEF Inv

\* What the new task of one node has to satisfy.
Fits(n, t) ==
  /\ t \in Task
  /\ t.pc # "idle" => reserve[n] < t.need
  /\ t.pc \in {"scan", "ask", "offer"} => t.left \cup t.peer \subseteq registry[n]
  /\ t.pc \notin {"ask", "offer"} => t.peer = {}
  /\ n \notin t.peer

\* Tasks, reserves and registries of the other nodes are not touched by it.
LEMMA OneTaskChanges ==
  ASSUME Inv, NEW n \in Nodes, NEW t, Fits(n, t),
         task' = [task EXCEPT ![n] = t],
         UNCHANGED <<reserve, registry, arriving>>,
         total' \in [Nodes -> 0..MaxTotal]
  PROVE  Inv'
<1> USE DEF Inv, TypeOK, Fits
<1>1. task' \in [Nodes -> Task] /\ task'[n] = t
      OBVIOUS
<1>2. \A m \in Nodes \ {n} : task'[m] = task[m]
      OBVIOUS
<1>3. OnlyShortNodesRedirect'
      BY <1>1, <1>2 DEF Locked, OnlyShortNodesRedirect, HoldsReserve
<1>4. CalledPeersAreRegistered'
      BY <1>1, <1>2 DEF Locked, CalledPeersAreRegistered, HoldsRegistry
<1>5. Focused'
      BY <1>1, <1>2 DEF Focused
<1>6. QED
      BY <1>1, <1>3, <1>4, <1>5 DEF Locked

\* The task of a node fits it.
LEMMA TaskFits == ASSUME Inv, NEW n \in Nodes PROVE Fits(n, task[n])
BY DEF Inv, TypeOK, Locked, Focused, Fits, OnlyShortNodesRedirect, CalledPeersAreRegistered,
       HoldsReserve, HoldsRegistry

\* Going on with the next peer.
LEMMA ResumeInv ==
  ASSUME Inv, NEW n \in Nodes, HoldsRegistry(n), task' = Resume(n),
         UNCHANGED <<reserve, total, registry, arriving>>
  PROVE  Inv'
<1> DEFINE t == [task[n] EXCEPT !.pc = "scan", !.peer = {}]
<1>0. Fits(n, task[n]) /\ task[n].pc \in {"scan", "ask", "offer"}
      BY TaskFits DEF HoldsRegistry
<1>1. Fits(n, t)
      BY <1>0 DEF Fits, Task
<1>2. task' = [task EXCEPT ![n] = t]
      BY DEF Resume
<1>3. QED
      BY <1>1, <1>2, OneTaskChanges DEF Inv, TypeOK

\* A step of the deposit task of n, on its own or with an answer.
LEMMA TaskStepInv == ASSUME Inv, NEW n \in Nodes, TaskStep(n) PROVE Inv'
<1>0. /\ Fits(n, task[n])
      /\ total \in [Nodes -> 0..MaxTotal]
      /\ registry[n] \subseteq Nodes
      BY TaskFits DEF Inv, TypeOK
<1>1. CASE ReadRegistry(n)
  <2> DEFINE t == [task[n] EXCEPT !.pc = "scan", !.left = registry[n]]
  <2>1. Fits(n, t)
        BY <1>0, <1>1 DEF ReadRegistry, Fits, Task
  <2>2. QED
        BY <1>0, <1>1, <2>1, OneTaskChanges DEF ReadRegistry
<1>2. CASE ScanEnds(n)
  <2>1. Fits(n, IdleTask)
        BY DEF Fits, IdleTask, Task
  <2>2. QED
        BY <1>0, <1>2, <2>1, OneTaskChanges DEF ScanEnds
<1>3. ASSUME NEW p \in Nodes, CallNext(n, p) PROVE Inv'
  <2> DEFINE t == [task[n] EXCEPT !.pc = "ask", !.peer = {p}, !.left = task[n].left \ {n, p}]
  <2>1. Fits(n, t)
        BY <1>0, <1>3 DEF CallNext, Fits, Task
  <2>2. QED
        BY <1>0, <1>3, <2>1, OneTaskChanges DEF CallNext
<1>4. ASSUME NEW p \in Nodes, ReserveAnswered(n, p) PROVE Inv'
  <2>1. CASE reserve[p] >= task[n].need
    <3> DEFINE t == [task[n] EXCEPT !.pc = "offer"]
    <3>1. Fits(n, t)
          BY <1>0, <1>4 DEF ReserveAnswered, Fits, Task
    <3>2. QED
          BY <1>0, <1>4, <2>1, <3>1, OneTaskChanges DEF ReserveAnswered
  <2>2. CASE ~(reserve[p] >= task[n].need)
        BY <1>0, <1>4, <2>2, ResumeInv DEF ReserveAnswered, HoldsRegistry
  <2>3. QED
        BY <2>1, <2>2
<1>5. ASSUME NEW p \in Nodes, Refused(n, p) PROVE Inv'
      BY <1>0, <1>5, ResumeInv DEF Refused, HoldsRegistry
<1>6. ASSUME NEW p \in Nodes, RedirectDecided(n, p) PROVE Inv'
      BY <1>0, <1>6, ResumeInv DEF RedirectDecided, HoldsRegistry
<1>7. QED
      BY <1>1, <1>2, <1>3, <1>4, <1>5, <1>6 DEF TaskStep

\* The writers of a reserve or a registry leave what a scan holds.
LEMMA EnvironmentInv ==
  ASSUME Inv, NEW n \in Nodes, StoreRecord(n) \/ Environment(n) PROVE Inv'
<1>1. ASSUME NEW amount \in Amounts, AddDeposit(n, amount) PROVE Inv'
  <2>1. total' \in [Nodes -> 0..MaxTotal]
        BY <1>1, RedirectAssumption DEF AddDeposit, Inv, TypeOK
  <2>2. CASE total'[n] >= Threshold /\ reserve[n] < amount
    <3> DEFINE t == [IdleTask EXCEPT !.pc = "short", !.need = amount]
    <3>1. Fits(n, t)
          BY <2>2 DEF Fits, IdleTask, Task
    <3>2. QED
          BY <1>1, <2>1, <2>2, <3>1, OneTaskChanges DEF AddDeposit
  <2>3. CASE ~(total'[n] >= Threshold /\ reserve[n] < amount)
    <3>1. task' = task
          BY <1>1, <2>3 DEF AddDeposit
    <3>2. QED
          BY <1>1, <2>1, <3>1 DEF AddDeposit, Inv, TypeOK, Locked, Focused,
             OnlyShortNodesRedirect, CalledPeersAreRegistered, HoldsReserve, HoldsRegistry
  <2>4. QED
        BY <2>2, <2>3
<1>2. ASSUME NEW amount \in 0..MaxReserve, SetReserve(n, amount) PROVE Inv'
      BY <1>2 DEF SetReserve, Inv, TypeOK, Locked, Focused, OnlyShortNodesRedirect,
                  CalledPeersAreRegistered, HoldsReserve, HoldsRegistry
<1>3. ASSUME NEW p \in Nodes, RecordFound(n, p) PROVE Inv'
      BY <1>3 DEF RecordFound, Inv, TypeOK, Locked, Focused, OnlyShortNodesRedirect,
                  CalledPeersAreRegistered, HoldsReserve, HoldsRegistry
<1>4. ASSUME NEW p \in Nodes, RemoveStale(n, p) PROVE Inv'
      BY <1>4 DEF RemoveStale, Inv, TypeOK, Locked, Focused, OnlyShortNodesRedirect,
                  CalledPeersAreRegistered, HoldsReserve, HoldsRegistry
<1>5. CASE CallFails(n)
      BY <1>5, ResumeInv DEF CallFails, HoldsRegistry, Inv, TypeOK
<1>6. CASE StoreRecord(n)
      BY <1>6 DEF StoreRecord, Inv, TypeOK, Locked, Focused, OnlyShortNodesRedirect,
                  CalledPeersAreRegistered, HoldsReserve, HoldsRegistry
<1>7. QED
      BY <1>1, <1>2, <1>3, <1>4, <1>5, <1>6 DEF Environment

\* Every step of the nodes preserves the invariant.
LEMMA NextInv == Inv /\ [Next]_vars => Inv'
<1> SUFFICES ASSUME Inv, [Next]_vars PROVE Inv'
    OBVIOUS
<1>1. CASE Next
      BY <1>1, TaskStepInv, EnvironmentInv DEF Next
<1>2. CASE UNCHANGED vars
      BY <1>2 DEF vars, Inv, TypeOK, Locked, Focused, OnlyShortNodesRedirect,
                  CalledPeersAreRegistered, HoldsReserve, HoldsRegistry
<1>3. QED
      BY <1>1, <1>2

\* The type invariant, for any nodes, amounts and bounds.
THEOREM TypeCorrect == Spec => []TypeOK
<1>1. Inv => TypeOK
      BY DEF Inv
<1>2. QED
      BY InitInv, NextInv, <1>1, PTL DEF Spec

\* However many nodes redirect to each other, a node that calls its peers about
\* a deposit is too short for it itself, until it stops calling.
THEOREM OnlyShortNodes == Spec => []OnlyShortNodesRedirect
<1>1. Inv => OnlyShortNodesRedirect
      BY DEF Inv, Locked
<1>2. QED
      BY InitInv, NextInv, <1>1, PTL DEF Spec

\* Whatever records come and go, the peers of a scan stay registered.
THEOREM ScannedPeersStay == Spec => []CalledPeersAreRegistered
<1>1. Inv => CalledPeersAreRegistered
      BY DEF Inv, Locked
<1>2. QED
      BY InitInv, NextInv, <1>1, PTL DEF Spec

\* No node calls its own server, which would answer only once the node has
\* stopped waiting for it.
THEOREM NoNodeCallsItself == Spec => [](\A n \in Nodes : ~Calls(n, n))
<1>1. Inv => \A n \in Nodes : ~Calls(n, n)
      BY DEF Inv, Focused, Calls
<1>2. QED
      BY InitInv, NextInv, <1>1, PTL DEF Spec
=============================================================================
