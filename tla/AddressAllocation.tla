------------------------- MODULE AddressAllocation -------------------------
(***************************************************************************)
(* How api_create_exchange (src/src/web.rs) chooses a deposit address: it  *)
(* reads the next index of the chain, derives the address at that index,   *)
(* advances the index (a read and a write of its own, src/src/database.rs) *)
(* and stores the exchange.  The web server handles requests concurrently. *)
(* Derivation is injective in the index, so the index is the address.      *)
(***************************************************************************)
EXTENDS Integers, FiniteSets

CONSTANTS
  Requests,   \* requests to create an exchange
  MaxCrashes  \* bound: times the process stops

Chains == {"tron", "bsc"}

ASSUME AllocationAssumption == MaxCrashes \in Nat

VARIABLES
  index,   \* tree "addr_index"
  request, \* locals of each request
  raced,   \* history: a request read an index another was still to advance
  crashes

allocationVars == <<index, request, raced, crashes>>

\* "done": the exchange is stored; "lost": the process stopped before that.
Pcs == {"new", "derived", "advancing", "advanced", "done", "lost"}

RequestRecord == [pc : Pcs, chain : Chains, address : Nat, next : Nat]

AllocationTypeOK ==
  /\ index \in [Chains -> Nat]
  /\ request \in [Requests -> RequestRecord]
  /\ raced \in BOOLEAN
  /\ crashes \in Nat

\* r has read the index of the chain and not advanced it yet.
HoldsIndex(r, chain) ==
  request[r].chain = chain /\ request[r].pc \in {"derived", "advancing"}

InFlight(r) == request[r].pc \in {"derived", "advancing", "advanced"}

AllocationInit ==
  /\ index = [c \in Chains |-> 0]
  /\ request \in [Requests -> [pc : {"new"}, chain : Chains, address : {0}, next : {0}]]
  /\ raced = FALSE
  /\ crashes = 0

\* Faulty: the index is decremented before it is used.
DeriveBelow(r) ==
  /\ request[r].pc = "new"
  /\ request' = [request EXCEPT ![r].pc = "derived",
                                ![r].address = index[request[r].chain] - 1]
  /\ raced' = (raced \/ \E s \in Requests : HoldsIndex(s, request[r].chain))
  /\ UNCHANGED <<index, crashes>>

\* addr_index, and the derivation of the address at that index.
Derive(r) ==
  /\ request[r].pc = "new"
  /\ request' = [request EXCEPT ![r].pc = "derived",
                                ![r].address = index[request[r].chain]]
  /\ raced' = (raced \/ \E s \in Requests : HoldsIndex(s, request[r].chain))
  /\ UNCHANGED <<index, crashes>>

\* Faulty: the index moves by two.
AdvanceReadByTwo(r) ==
  /\ request[r].pc = "derived"
  /\ request' = [request EXCEPT ![r].pc = "advancing",
                                ![r].next = index[request[r].chain] + 2]
  /\ UNCHANGED <<index, raced, crashes>>

\* advance_addr_index reads the index again ...
AdvanceRead(r) ==
  /\ request[r].pc = "derived"
  /\ request' = [request EXCEPT ![r].pc = "advancing",
                                ![r].next = index[request[r].chain] + 1]
  /\ UNCHANGED <<index, raced, crashes>>

\* Faulty: the successor is computed but not stored.
AdvanceWriteLost(r) ==
  /\ request[r].pc = "advancing"
  /\ request' = [request EXCEPT ![r].pc = "advanced"]
  /\ UNCHANGED <<index, raced, crashes>>

\* ... and writes its successor.
AdvanceWrite(r) ==
  /\ request[r].pc = "advancing"
  /\ index' = [index EXCEPT ![request[r].chain] = request[r].next]
  /\ request' = [request EXCEPT ![r].pc = "advanced"]
  /\ UNCHANGED <<raced, crashes>>

\* create_exchange stores the exchange with the address.
Store(r) ==
  /\ request[r].pc = "advanced"
  /\ request' = [request EXCEPT ![r].pc = "done"]
  /\ UNCHANGED <<index, raced, crashes>>

\* The process stops; the requests in flight are lost, the index is not.
Crash ==
  /\ crashes < MaxCrashes
  /\ crashes' = crashes + 1
  /\ request' = [r \in Requests |-> IF InFlight(r) THEN [request[r] EXCEPT !.pc = "lost"]
                                                   ELSE request[r]]
  /\ UNCHANGED <<index, raced>>

Serve(r) == Derive(r) \/ AdvanceRead(r) \/ AdvanceWrite(r) \/ Store(r)

AllocationNext == (\E r \in Requests : Serve(r)) \/ Crash

AllocationSpec == AllocationInit /\ [][AllocationNext]_allocationVars

-----------------------------------------------------------------------------
\* No two exchanges of a chain share a deposit address ("never reused",
\* README.md).  Two requests that overlap can break it, which is why only the
\* next property is checked.
AddressesAreUnique ==
  \A r, s \in Requests :
    /\ request[r].pc = "done" /\ request[s].pc = "done"
    /\ request[r].chain = request[s].chain /\ request[r].address = request[s].address
    => r = s

\* Only a request that reads the index of a chain between another's read and
\* its write repeats an address: while that has not happened no two exchanges
\* share one, wherever in a request the node stops (web.rs).
OnlyRacesRepeatAddresses == ~raced => AddressesAreUnique

\* However requests overlap and the node stops, an address given out lies below
\* the number of requests that have moved the index or hold it: races lose
\* indexes and repeat them, but never run ahead, so a recovery that derives
\* that many addresses of the seed finds every deposit.
AddressesAreBounded ==
  \A r \in Requests :
    request[r].pc # "new" =>
      request[r].address
        < Cardinality({s \in Requests :
                         request[s].pc # "new" /\ request[s].chain = request[r].chain})
=============================================================================
