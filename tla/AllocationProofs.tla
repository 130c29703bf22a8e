-------------------------- MODULE AllocationProofs --------------------------
(***************************************************************************)
(* No deposit address is given out twice while no request reads an index   *)
(* that another is still to advance; and, with such races or without, the  *)
(* addresses of a chain are among the first of its seed, one for each      *)
(* request at most.  Both for any requests and wherever the node stops.    *)
(***************************************************************************)
EXTENDS AddressAllocation, FiniteSetTheorems, TLAPS

\* The exchange's address is behind the index.
Kept(r) == request[r].pc \in {"advanced", "done"}

\* One request at most works on the address at the index of a chain, and every
\* address kept is below it.
NoRaceInv ==
  /\ \A r, s \in Requests :
       HoldsIndex(r, request[r].chain) /\ HoldsIndex(s, request[r].chain) => r = s
  /\ \A r \in Requests :
       HoldsIndex(r, request[r].chain) => request[r].address = index[request[r].chain]
  /\ \A r \in Requests :
       request[r].pc = "advancing" => request[r].next = index[request[r].chain] + 1
  /\ \A r \in Requests : Kept(r) => request[r].address < index[request[r].chain]
  /\ \A r, s \in Requests :
       /\ Kept(r) /\ Kept(s) /\ request[r].chain = request[s].chain
       /\ request[r].address = request[s].address
       => r = s

\* Inductive.
AllocationInv == AllocationTypeOK /\ (~raced => NoRaceInv)

LEMMA InitAllocation == AllocationInit => AllocationInv
<1> SUFFICES ASSUME AllocationInit PROVE AllocationInv
    OBVIOUS
<1>1. AllocationTypeOK
  <2>1. [pc : {"new"}, chain : Chains, address : {0}, next : {0}] \subseteq RequestRecord
        BY DEF RequestRecord, Pcs
  <2>2. request \in [Requests -> RequestRecord]
        BY <2>1 DEF AllocationInit
  <2>3. QED
        BY <2>2 DEF AllocationInit, AllocationTypeOK
<1>2. \A r \in Requests : request[r].pc = "new"
      BY DEF AllocationInit
<1>3. NoRaceInv
      BY <1>2 DEF NoRaceInv, HoldsIndex, Kept
<1>4. QED
      BY <1>1, <1>3 DEF AllocationInv

LEMMA TypeStep ==
  ASSUME AllocationTypeOK, [AllocationNext]_allocationVars PROVE AllocationTypeOK'
<1> USE DEF AllocationTypeOK, RequestRecord, Pcs, InFlight
<1>1. ASSUME NEW r \in Requests, Derive(r) PROVE AllocationTypeOK'
      BY <1>1 DEF Derive
<1>2. ASSUME NEW r \in Requests, AdvanceRead(r) PROVE AllocationTypeOK'
  <2>1. request[r].chain \in Chains /\ index[request[r].chain] + 1 \in Nat
        OBVIOUS
  <2>2. QED
        BY <1>2, <2>1 DEF AdvanceRead
<1>3. ASSUME NEW r \in Requests, AdvanceWrite(r) PROVE AllocationTypeOK'
      BY <1>3 DEF AdvanceWrite
<1>4. ASSUME NEW r \in Requests, Store(r) PROVE AllocationTypeOK'
      BY <1>4 DEF Store
<1>5. CASE Crash
      BY <1>5, AllocationAssumption DEF Crash
<1>6. CASE UNCHANGED allocationVars
      BY <1>6 DEF allocationVars
<1>7. QED
      BY <1>1, <1>2, <1>3, <1>4, <1>5, <1>6 DEF AllocationNext, Serve

\* One request changes its own locals only.
LEMMA NoRaceStep ==
  ASSUME AllocationTypeOK, ~raced => NoRaceInv, [AllocationNext]_allocationVars, ~raced' PROVE NoRaceInv'
<1> USE DEF NoRaceInv, AllocationTypeOK, RequestRecord, Pcs, HoldsIndex, Kept
<1>1. ASSUME NEW r \in Requests, Derive(r) PROVE NoRaceInv'
  <2> DEFINE c == request[r].chain
  <2>1. /\ request' = [request EXCEPT ![r].pc = "derived", ![r].address = index[c]]
        /\ index' = index /\ ~raced
        /\ \A s \in Requests : ~HoldsIndex(s, c)
        BY <1>1 DEF Derive
  <2>2. /\ request'[r].pc = "derived" /\ request'[r].chain = c
        /\ request'[r].address = index[c]
        /\ \A s \in Requests \ {r} : request'[s] = request[s]
        BY <2>1
  <2>3. QED
        BY <2>1, <2>2
<1>2. ASSUME NEW r \in Requests, AdvanceRead(r) PROVE NoRaceInv'
  <2> DEFINE c == request[r].chain
  <2>1. /\ request' = [request EXCEPT ![r].pc = "advancing", ![r].next = index[c] + 1]
        /\ index' = index /\ ~raced /\ request[r].pc = "derived"
        BY <1>2 DEF AdvanceRead
  <2>2. /\ request'[r].pc = "advancing" /\ request'[r].chain = c
        /\ request'[r].address = request[r].address
        /\ request'[r].next = index[c] + 1
        /\ \A s \in Requests \ {r} : request'[s] = request[s]
        BY <2>1
  <2>3. QED
        BY <2>1, <2>2
<1>3. ASSUME NEW r \in Requests, AdvanceWrite(r) PROVE NoRaceInv'
  <2> DEFINE c == request[r].chain
  <2>1. /\ request' = [request EXCEPT ![r].pc = "advanced"]
        /\ index' = [index EXCEPT ![c] = request[r].next]
        /\ ~raced /\ request[r].pc = "advancing"
        BY <1>3 DEF AdvanceWrite
  <2>2. /\ request'[r].pc = "advanced" /\ request'[r].chain = c
        /\ request'[r].address = index[c] /\ index'[c] = index[c] + 1
        /\ \A s \in Requests \ {r} : request'[s] = request[s]
        /\ \A d \in Chains \ {c} : index'[d] = index[d]
        BY <2>1
  <2>3. \A s \in Requests \ {r} : ~HoldsIndex(s, c)
        BY <2>1
  <2>4. \A s \in Requests : Kept(s)' => request'[s].address < index'[request'[s].chain]
        BY <2>1, <2>2
  <2>5. \A s \in Requests \ {r} :
          Kept(s) /\ request[s].chain = c => request[s].address # index[c]
        BY <2>1
  <2>6. \A q, s \in Requests :
          /\ Kept(q)' /\ Kept(s)' /\ request'[q].chain = request'[s].chain
          /\ request'[q].address = request'[s].address
          => q = s
        BY <2>1, <2>2, <2>5
  <2>7. QED
        BY <2>1, <2>2, <2>3, <2>4, <2>6
<1>4. ASSUME NEW r \in Requests, Store(r) PROVE NoRaceInv'
  <2>1. /\ request' = [request EXCEPT ![r].pc = "done"]
        /\ index' = index /\ ~raced /\ request[r].pc = "advanced"
        BY <1>4 DEF Store
  <2>2. /\ request'[r].pc = "done" /\ request'[r].chain = request[r].chain
        /\ request'[r].address = request[r].address
        /\ \A s \in Requests \ {r} : request'[s] = request[s]
        BY <2>1
  <2>3. QED
        BY <2>1, <2>2
<1>5. CASE Crash
  <2>1. index' = index /\ ~raced
        BY <1>5 DEF Crash
  <2>2. \A s \in Requests : InFlight(s) => request'[s].pc = "lost"
        BY <1>5 DEF Crash
  <2>3. \A s \in Requests : ~InFlight(s) => request'[s] = request[s]
        BY <1>5 DEF Crash
  <2>4. QED
        BY <2>1, <2>2, <2>3 DEF InFlight
<1>6. CASE UNCHANGED allocationVars
      BY <1>6 DEF allocationVars
<1>7. QED
      BY <1>1, <1>2, <1>3, <1>4, <1>5, <1>6 DEF AllocationNext, Serve

\* No address is given out twice unless a request read an index that another
\* had read and not yet advanced: the only thing wrong with the allocation of
\* web.rs is that its reads and writes are not one step.
LEMMA RacesOnlyAlone == AllocationSpec => []OnlyRacesRepeatAddresses
<1>1. AllocationInv => OnlyRacesRepeatAddresses
      BY DEF AllocationInv, NoRaceInv, OnlyRacesRepeatAddresses, AddressesAreUnique, Kept
<1>2. AllocationInv /\ [AllocationNext]_allocationVars => AllocationInv'
      BY TypeStep, NoRaceStep DEF AllocationInv
<1>3. QED
      BY <1>1, <1>2, InitAllocation, PTL DEF AllocationSpec

\* Types are kept by every request and every stop.
LEMMA AllocationTyped == AllocationSpec => []AllocationTypeOK
<1>1. AllocationInv /\ [AllocationNext]_allocationVars => AllocationInv'
      BY TypeStep, NoRaceStep DEF AllocationInv
<1>2. AllocationInv => AllocationTypeOK
      BY DEF AllocationInv
<1>3. QED
      BY <1>1, <1>2, InitAllocation, PTL DEF AllocationSpec

-----------------------------------------------------------------------------
(* How far the index runs, with or without races.                           *)

\* The requests of a chain that have read its index, and those of them that
\* have moved it or never will.
Started(c) == {s \in Requests : request[s].pc # "new" /\ request[s].chain = c}
Settled(c) == {s \in Started(c) : request[s].pc \in {"advanced", "done", "lost"}}

\* Inductive, with AllocationTypeOK: every request moves the index by one at most.
BoundInv ==
  /\ \A c \in Chains : IsFiniteSet(Started(c)) /\ index[c] <= Cardinality(Settled(c))
  /\ \A c \in Chains, r \in Requests : request[r].chain = c =>
       /\ request[r].pc = "advancing" => request[r].next <= Cardinality(Settled(c)) + 1
       /\ request[r].pc # "new" => request[r].address < Cardinality(Started(c))

LEMMA InitBound == AllocationInit => BoundInv
<1> SUFFICES ASSUME AllocationInit PROVE BoundInv
    OBVIOUS
<1>1. \A r \in Requests : request[r].pc = "new"
      BY DEF AllocationInit
<1>2. \A c \in Chains : Started(c) = {} /\ Settled(c) = {}
      BY <1>1 DEF Started, Settled
<1>3. \A c \in Chains : index[c] = 0
      BY DEF AllocationInit
<1>4. IsFiniteSet({}) /\ Cardinality({}) = 0
      BY FS_EmptySet
<1>5. \A c \in Chains : IsFiniteSet(Started(c)) /\ index[c] <= Cardinality(Settled(c))
  <2>1. SUFFICES ASSUME NEW c \in Chains
                 PROVE  IsFiniteSet(Started(c)) /\ index[c] <= Cardinality(Settled(c))
        OBVIOUS
  <2>2. Started(c) = {} /\ Settled(c) = {} /\ index[c] = 0
        BY <1>2, <1>3
  <2>3. IsFiniteSet(Started(c)) /\ Cardinality(Settled(c)) = 0
        BY <1>4, <2>2, Zenon
  <2>4. QED
        BY <2>2, <2>3
<1>6. QED
      BY <1>1, <1>5 DEF BoundInv

\* Sizes of the two sets of a chain, and how they grow.
LEMMA Sizes ==
  ASSUME BoundInv, NEW c \in Chains
  PROVE  /\ IsFiniteSet(Settled(c)) /\ Settled(c) \subseteq Started(c)
         /\ Cardinality(Settled(c)) \in Nat /\ Cardinality(Started(c)) \in Nat
         /\ Cardinality(Settled(c)) <= Cardinality(Started(c))
<1>1. IsFiniteSet(Started(c)) /\ Settled(c) \subseteq Started(c)
      BY DEF BoundInv, Settled
<1>2. IsFiniteSet(Settled(c)) /\ Cardinality(Settled(c)) <= Cardinality(Started(c))
      BY <1>1, FS_Subset
<1>3. QED
      BY <1>1, <1>2, FS_CardinalityType

LEMMA Grows ==
  ASSUME BoundInv, NEW c \in Chains, Started(c) \subseteq Started(c)', IsFiniteSet(Started(c)'),
         Settled(c) \subseteq Settled(c)'
  PROVE  /\ Cardinality(Started(c)) <= Cardinality(Started(c)')
         /\ Cardinality(Settled(c)) <= Cardinality(Settled(c)')
         /\ Cardinality(Started(c)') \in Nat /\ Cardinality(Settled(c)') \in Nat
<1>1. IsFiniteSet(Settled(c)')
      BY FS_Subset DEF Settled
<1>2. QED
      BY <1>1, FS_Subset, FS_CardinalityType

\* A step after which the started requests are the same, the settled ones at
\* least the same, and no index or local has been moved up.
LEMMA SteadyBound ==
  ASSUME AllocationTypeOK, AllocationTypeOK', BoundInv, index' = index,
         \A s \in Requests :
           /\ request'[s].chain = request[s].chain /\ request'[s].address = request[s].address
           /\ (request'[s].pc = "new") = (request[s].pc = "new")
           /\ request[s].pc \in {"advanced", "done", "lost"}
                => request'[s].pc \in {"advanced", "done", "lost"}
           /\ request'[s].pc = "advancing" =>
                request'[s].next <= Cardinality(Settled(request[s].chain)) + 1
  PROVE  BoundInv'
<1>1. ASSUME NEW c \in Chains
      PROVE  /\ Started(c)' = Started(c)
             /\ Settled(c) \subseteq Settled(c)'
      BY DEF Started, Settled
<1>2. ASSUME NEW c \in Chains
      PROVE  /\ IsFiniteSet(Started(c)') /\ Cardinality(Started(c)') = Cardinality(Started(c))
             /\ Cardinality(Settled(c)) <= Cardinality(Settled(c)')
             /\ Cardinality(Settled(c)) \in Nat /\ Cardinality(Settled(c)') \in Nat
             /\ Cardinality(Started(c)) \in Nat
      BY <1>1, Grows, Sizes DEF BoundInv
<1>3. \A s \in Requests : request[s].chain \in Chains /\ request[s].address \in Nat
      BY DEF AllocationTypeOK, RequestRecord
<1>4. \A c \in Chains : IsFiniteSet(Started(c)') /\ index'[c] <= Cardinality(Settled(c)')
      BY <1>2 DEF BoundInv, AllocationTypeOK
<1>5. ASSUME NEW r \in Requests, NEW c \in Chains, c = request[r].chain
      PROVE  /\ request'[r].chain = c
             /\ request'[r].pc = "advancing" => request'[r].next <= Cardinality(Settled(c)') + 1
             /\ request'[r].pc # "new" => request'[r].address < Cardinality(Started(c)')
  <2>1. /\ request'[r].chain = c /\ request'[r].next \in Nat
        /\ request'[r].address = request[r].address /\ request[r].address \in Nat
        BY <1>3, <1>5 DEF AllocationTypeOK, RequestRecord
  <2>2. request'[r].pc = "advancing" => request'[r].next <= Cardinality(Settled(c)) + 1
        BY <1>5
  <2>3. request'[r].pc # "new" => request[r].address < Cardinality(Started(c))
        BY <1>5 DEF BoundInv
  <2>4. QED
        BY <1>2, <2>1, <2>2, <2>3
<1>6. QED
      BY <1>3, <1>4, <1>5 DEF BoundInv

\* A request that reads the index joins the started ones of its chain, and its
\* address is among the first of them.
LEMMA DeriveBound ==
  ASSUME AllocationTypeOK, BoundInv, NEW r \in Requests, Derive(r) PROVE BoundInv'
<1>1. PICK c \in Chains : c = request[r].chain
      BY DEF AllocationTypeOK, RequestRecord
<1>2. /\ request' = [request EXCEPT ![r].pc = "derived", ![r].address = index[c]]
      /\ index' = index /\ request[r].pc = "new"
      BY <1>1 DEF Derive
<1>3. /\ request'[r].pc = "derived" /\ request'[r].chain = c /\ request'[r].address = index[c]
      /\ \A s \in Requests \ {r} : request'[s] = request[s]
      BY <1>1, <1>2 DEF AllocationTypeOK, RequestRecord
<1>4. /\ r \notin Started(c) /\ Started(c)' = Started(c) \cup {r}
      /\ Settled(c)' = Settled(c)
      BY <1>2, <1>3 DEF Started, Settled
<1>5. ASSUME NEW d \in Chains, d # c
      PROVE  Started(d)' = Started(d) /\ Settled(d)' = Settled(d)
      BY <1>1, <1>3, <1>5 DEF Started, Settled
<1>6. IsFiniteSet(Started(c)') /\ Cardinality(Started(c)') = Cardinality(Started(c)) + 1
      BY <1>4, FS_AddElement DEF BoundInv
<1>7. \A d \in Chains : /\ Cardinality(Settled(d)) <= Cardinality(Started(d))
                         /\ Cardinality(Settled(d)) \in Nat /\ Cardinality(Started(d)) \in Nat
      BY Sizes
<1>8. \A d \in Chains : IsFiniteSet(Started(d)') /\ index'[d] <= Cardinality(Settled(d)')
  <2>1. SUFFICES ASSUME NEW d \in Chains
                 PROVE  IsFiniteSet(Started(d)') /\ index'[d] <= Cardinality(Settled(d)')
        OBVIOUS
  <2>2. CASE d = c
        BY <1>2, <1>4, <1>6, <2>2 DEF BoundInv
  <2>3. CASE d # c
        BY <1>2, <1>5, <2>3 DEF BoundInv
  <2>4. QED
        BY <2>2, <2>3
<1>9. \A d \in Chains, s \in Requests : request'[s].chain = d =>
        /\ request'[s].pc = "advancing" => request'[s].next <= Cardinality(Settled(d)') + 1
        /\ request'[s].pc # "new" => request'[s].address < Cardinality(Started(d)')
  <2>1. SUFFICES ASSUME NEW d \in Chains, NEW s \in Requests, request'[s].chain = d
                 PROVE  /\ request'[s].pc = "advancing" =>
                             request'[s].next <= Cardinality(Settled(d)') + 1
                        /\ request'[s].pc # "new" =>
                             request'[s].address < Cardinality(Started(d)')
        OBVIOUS
  <2>2. CASE s = r
    <3>1. index[c] \in Nat /\ index[c] <= Cardinality(Settled(c))
          BY DEF BoundInv, AllocationTypeOK
    <3>2. QED
          BY <1>3, <1>6, <1>7, <2>1, <2>2, <3>1
  <2>3. CASE s # r /\ d = c
    <3>1. request'[s] = request[s] /\ request[s].address \in Nat /\ request[s].chain = c
          BY <1>3, <2>1, <2>3 DEF AllocationTypeOK, RequestRecord
    <3>2. /\ request[s].pc = "advancing" => request[s].next <= Cardinality(Settled(c)) + 1
          /\ request[s].pc # "new" => request[s].address < Cardinality(Started(c))
          BY <3>1 DEF BoundInv
    <3>3. Settled(d)' = Settled(c) /\ Cardinality(Started(d)') = Cardinality(Started(c)) + 1
          BY <1>4, <1>6, <2>3
    <3>4. QED
          BY <1>7, <3>1, <3>2, <3>3
  <2>4. CASE s # r /\ d # c
        BY <1>3, <1>5, <2>1, <2>4 DEF BoundInv
  <2>5. QED
        BY <2>2, <2>3, <2>4
<1>10. QED
      BY <1>8, <1>9 DEF BoundInv

\* The request that moves the index settles: whatever it writes over, the index
\* is no more than the settled requests of the chain.
LEMMA AdvanceWriteBound ==
  ASSUME AllocationTypeOK, BoundInv, NEW r \in Requests, AdvanceWrite(r) PROVE BoundInv'
<1>1. PICK c \in Chains : c = request[r].chain
      BY DEF AllocationTypeOK, RequestRecord
<1>2. /\ request' = [request EXCEPT ![r].pc = "advanced"]
      /\ index' = [index EXCEPT ![c] = request[r].next] /\ request[r].pc = "advancing"
      BY <1>1 DEF AdvanceWrite
<1>3. /\ request'[r].pc = "advanced" /\ request'[r].chain = c
      /\ request'[r].address = request[r].address
      /\ \A s \in Requests \ {r} : request'[s] = request[s]
      /\ index'[c] = request[r].next /\ \A d \in Chains \ {c} : index'[d] = index[d]
      BY <1>1, <1>2 DEF AllocationTypeOK, RequestRecord
<1>4. /\ r \notin Settled(c) /\ Settled(c)' = Settled(c) \cup {r}
      /\ Started(c)' = Started(c)
      BY <1>1, <1>2, <1>3 DEF Started, Settled
<1>5. ASSUME NEW d \in Chains, d # c
      PROVE  Started(d)' = Started(d) /\ Settled(d)' = Settled(d)
      BY <1>1, <1>3, <1>5 DEF Started, Settled
<1>6. Cardinality(Settled(c)') = Cardinality(Settled(c)) + 1
      BY <1>4, Sizes, FS_AddElement
<1>7. \A d \in Chains : Cardinality(Settled(d)) \in Nat
      BY Sizes
<1>8. \A d \in Chains : IsFiniteSet(Started(d)') /\ index'[d] <= Cardinality(Settled(d)')
  <2>1. SUFFICES ASSUME NEW d \in Chains
                 PROVE  IsFiniteSet(Started(d)') /\ index'[d] <= Cardinality(Settled(d)')
        OBVIOUS
  <2>2. CASE d = c
    <3>1. IsFiniteSet(Started(c)') /\ request[r].next <= Cardinality(Settled(c)) + 1
          BY <1>1, <1>2, <1>4 DEF BoundInv
    <3>2. QED
          BY <1>3, <1>6, <2>2, <3>1
  <2>3. CASE d # c
        BY <1>3, <1>5, <2>3 DEF BoundInv
  <2>4. QED
        BY <2>2, <2>3
<1>9. \A d \in Chains, s \in Requests : request'[s].chain = d =>
        /\ request'[s].pc = "advancing" => request'[s].next <= Cardinality(Settled(d)') + 1
        /\ request'[s].pc # "new" => request'[s].address < Cardinality(Started(d)')
  <2>1. SUFFICES ASSUME NEW d \in Chains, NEW s \in Requests, request'[s].chain = d
                 PROVE  /\ request'[s].pc = "advancing" =>
                             request'[s].next <= Cardinality(Settled(d)') + 1
                        /\ request'[s].pc # "new" =>
                             request'[s].address < Cardinality(Started(d)')
        OBVIOUS
  <2>2. CASE s = r
        BY <1>1, <1>2, <1>3, <1>4, <2>1, <2>2 DEF BoundInv
  <2>3. CASE s # r /\ d = c
    <3>1. /\ request'[s] = request[s] /\ request[s].chain = c
          /\ request[s].next \in Nat /\ request[s].address \in Nat
          BY <1>3, <2>1, <2>3 DEF AllocationTypeOK, RequestRecord
    <3>2. request[s].pc = "advancing" => request[s].next <= Cardinality(Settled(c)) + 1
          BY <3>1 DEF BoundInv
    <3>3. request[s].pc # "new" => request[s].address < Cardinality(Started(c))
          BY <3>1 DEF BoundInv
    <3>4. /\ request[s].pc = "advancing" => request[s].next <= Cardinality(Settled(c)') + 1
          /\ request[s].pc # "new" => request[s].address < Cardinality(Started(c)')
          BY <1>4, <1>6, <1>7, <3>1, <3>2, <3>3
    <3>5. QED
          BY <2>3, <3>1, <3>4
  <2>4. CASE s # r /\ d # c
        BY <1>3, <1>5, <2>1, <2>4 DEF BoundInv
  <2>5. QED
        BY <2>2, <2>3, <2>4
<1>10. QED
      BY <1>8, <1>9 DEF BoundInv

\* The other steps move no index and start no request.
LEMMA BoundStep ==
  ASSUME AllocationTypeOK, AllocationTypeOK', BoundInv, [AllocationNext]_allocationVars PROVE BoundInv'
<1>0. ASSUME NEW s \in Requests, request[s].pc = "advancing"
      PROVE  request[s].next <= Cardinality(Settled(request[s].chain)) + 1
      BY <1>0 DEF BoundInv, AllocationTypeOK, RequestRecord
<1>1. ASSUME NEW r \in Requests, AdvanceRead(r) PROVE BoundInv'
  <2>1. PICK c \in Chains : c = request[r].chain
        BY DEF AllocationTypeOK, RequestRecord
  <2>2. /\ request' = [request EXCEPT ![r].pc = "advancing", ![r].next = index[c] + 1]
        /\ index' = index /\ request[r].pc = "derived"
        BY <1>1, <2>1 DEF AdvanceRead
  <2>3. index[c] + 1 <= Cardinality(Settled(c)) + 1
        BY Sizes DEF BoundInv, AllocationTypeOK
  <2>4. /\ request'[r].pc = "advancing" /\ request'[r].next = index[c] + 1
        /\ request'[r].chain = c /\ request'[r].address = request[r].address
        /\ \A s \in Requests \ {r} : request'[s] = request[s]
        BY <2>1, <2>2 DEF AllocationTypeOK, RequestRecord
  <2>5. ASSUME NEW s \in Requests
        PROVE  /\ request'[s].chain = request[s].chain
               /\ request'[s].address = request[s].address
               /\ (request'[s].pc = "new") = (request[s].pc = "new")
               /\ request[s].pc \in {"advanced", "done", "lost"}
                    => request'[s].pc \in {"advanced", "done", "lost"}
               /\ request'[s].pc = "advancing" =>
                    request'[s].next <= Cardinality(Settled(request[s].chain)) + 1
    <3>1. CASE s = r
          BY <2>1, <2>2, <2>3, <2>4, <3>1
    <3>2. CASE s # r
          BY <1>0, <2>4, <3>2
    <3>3. QED
          BY <3>1, <3>2
  <2>6. QED
        BY <2>2, <2>5, SteadyBound
<1>2. ASSUME NEW r \in Requests, Store(r) PROVE BoundInv'
  <2>1. /\ request'[r] = [request[r] EXCEPT !.pc = "done"] /\ index' = index
        /\ request[r].pc = "advanced"
        /\ \A s \in Requests \ {r} : request'[s] = request[s]
        BY <1>2 DEF Store, AllocationTypeOK
  <2>2. /\ request'[r].pc = "done" /\ request'[r].chain = request[r].chain
        /\ request'[r].address = request[r].address
        BY <2>1 DEF AllocationTypeOK, RequestRecord
  <2>3. QED
        BY <1>0, <2>1, <2>2, SteadyBound
<1>3. CASE Crash
  <2>1. /\ index' = index
        /\ \A s \in Requests :
             \/ request'[s] = request[s]
             \/ InFlight(s) /\ request'[s] = [request[s] EXCEPT !.pc = "lost"]
        BY <1>3 DEF Crash
  <2>2. \A s \in Requests :
          \/ request'[s] = request[s]
          \/ /\ InFlight(s) /\ request'[s].pc = "lost"
             /\ request'[s].chain = request[s].chain
             /\ request'[s].address = request[s].address
        BY <2>1 DEF AllocationTypeOK, RequestRecord
  <2>3. QED
        BY <1>0, <2>1, <2>2, SteadyBound DEF InFlight
<1>4. CASE UNCHANGED allocationVars
  <2>1. index' = index /\ request' = request
        BY <1>4 DEF allocationVars
  <2>2. QED
        BY <1>0, <2>1, SteadyBound
<1>5. QED
      BY <1>1, <1>2, <1>3, <1>4, DeriveBound, AdvanceWriteBound DEF AllocationNext, Serve

\* However requests overlap and wherever the node stops, the addresses given
\* out are among the first ones of the seed, one for each request at most.
LEMMA AddressesBoundedAlone == AllocationSpec => []AddressesAreBounded
<1>1. AllocationTypeOK /\ BoundInv => AddressesAreBounded
  <2>1. SUFFICES ASSUME AllocationTypeOK, BoundInv, NEW r \in Requests, request[r].pc # "new"
                 PROVE  request[r].address < Cardinality(Started(request[r].chain))
        BY DEF AddressesAreBounded, Started
  <2>2. request[r].chain \in Chains
        BY <2>1 DEF AllocationTypeOK, RequestRecord
  <2>3. QED
        BY <2>1, <2>2 DEF BoundInv
<1>2. AllocationInv /\ BoundInv /\ [AllocationNext]_allocationVars => AllocationInv' /\ BoundInv'
      BY TypeStep, NoRaceStep, BoundStep DEF AllocationInv
<1>3. AllocationInv => AllocationTypeOK
      BY DEF AllocationInv
<1>4. QED
      BY <1>1, <1>2, <1>3, InitAllocation, InitBound, PTL DEF AllocationSpec
=============================================================================
