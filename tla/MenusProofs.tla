---------------------------- MODULE MenusProofs ----------------------------
(***************************************************************************)
(* What the operator's old buttons can and cannot do, and that the pages   *)
(* of the list show every exchange once, for any exchanges, reviews and    *)
(* page length and whatever happens between two presses.                   *)
(*                                                                         *)
(* InKeyOrder is a choice: that there is an ordered list, and at which     *)
(* position it has an element, is proved by taking a smallest set that     *)
(* would contradict it.                                                    *)
(***************************************************************************)
EXTENDS Menus, FiniteSetTheorems, TLAPS

-----------------------------------------------------------------------------
(* Lists in order.                                                          *)

\* A set of subsets of a finite set has one that holds no other.
LEMMA SmallestSubset ==
  ASSUME NEW S, IsFiniteSet(S), NEW B \in SUBSET (SUBSET S), B # {}
  PROVE  \E U \in B : \A V \in SUBSET U : V # U => V \notin B
<1>1. B \subseteq FiniteSubsetsOf(S)
      BY FS_Subset DEF FiniteSubsetsOf
<1>2. PICK U \in B : \A V \in B : ~(<<V, U>> \in StrictSubsetOrdering(S))
      BY <1>1, FS_StrictSubsetOrderingWellFounded, WFMin
<1>3. ASSUME NEW V \in SUBSET U, V # U, V \in B PROVE FALSE
  <2>1. V \in SUBSET S /\ U \in SUBSET S
        BY <1>3
  <2>2. <<V, U>> \in StrictSubsetOrdering(S)
        BY <1>3, <2>1 DEF StrictSubsetOrdering
  <2>3. QED
        BY <1>2, <1>3, <2>2
<1>4. QED
      BY <1>3

Ordered(list, S) ==
  /\ list \in [1..Cardinality(S) -> S]
  /\ \A i, j \in 1..Cardinality(S) : i < j => list[i] < list[j]

\* A finite set of numbers has a largest one.
LEMMA LargestNumber ==
  ASSUME NEW S \in SUBSET Nat, IsFiniteSet(S), S # {}
  PROVE  \E m \in S : \A x \in S : x <= m
<1> DEFINE B == {U \in SUBSET S : U # {} /\ ~ \E m \in U : \A x \in U : x <= m}
<1>1. SUFFICES ASSUME B # {} PROVE FALSE
      BY S \in SUBSET S
<1>2. PICK U \in B : \A V \in SUBSET U : V # U => V \notin B
  <2>1. B \in SUBSET (SUBSET S)
        OBVIOUS
  <2> HIDE DEF B
  <2>2. QED
        BY <1>1, <2>1, SmallestSubset
<1>3. PICK y : y \in U
      BY <1>2
<1>4. U \ {y} \in SUBSET U /\ U \ {y} # U /\ U \ {y} \in SUBSET S
      BY <1>2, <1>3
<1>5. CASE U \ {y} = {}
  <2>1. \A x \in U : x <= y
        BY <1>3, <1>5
  <2>2. QED
        BY <1>2, <1>3, <2>1
<1>6. CASE U \ {y} # {}
  <2>1. PICK m \in U \ {y} : \A x \in U \ {y} : x <= m
        BY <1>2, <1>4, <1>6
  <2>2. m \in Nat /\ y \in Nat /\ \A x \in U : x \in Nat
        BY <1>2, <1>3, <2>1
  <2>3. CASE y <= m
        BY <1>2, <2>1, <2>3
  <2>4. CASE ~(y <= m)
    <3>1. \A x \in U : x <= y
          BY <2>1, <2>2, <2>4
    <3>2. QED
          BY <1>2, <1>3, <3>1
  <2>5. QED
        BY <2>3, <2>4
<1>7. QED
      BY <1>5, <1>6

\* Every finite set of numbers has an ordered list.
LEMMA OrderedListExists ==
  ASSUME NEW S \in SUBSET Nat, IsFiniteSet(S)
  PROVE  \E list : Ordered(list, S)
<1> DEFINE B == {U \in SUBSET S : ~ \E list : Ordered(list, U)}
<1>1. SUFFICES ASSUME B # {} PROVE FALSE
      BY S \in SUBSET S
<1>2. PICK U \in B : \A V \in SUBSET U : V # U => V \notin B
  <2>1. B \in SUBSET (SUBSET S)
        OBVIOUS
  <2> HIDE DEF B
  <2>2. QED
        BY <1>1, <2>1, SmallestSubset
<1>3. U \in SUBSET S /\ IsFiniteSet(U) /\ ~ \E list : Ordered(list, U)
      BY <1>2, FS_Subset
<1>4. CASE U = {}
  <2>1. Cardinality(U) = 0
        BY <1>4, FS_EmptySet
  <2>2. Ordered([i \in 1..0 |-> i], U)
        BY <2>1 DEF Ordered
  <2>3. QED
        BY <1>3, <2>2
<1>5. CASE U # {}
  <2>1. PICK m \in U : \A x \in U : x <= m
        BY <1>3, <1>5, LargestNumber
  <2>2. U \ {m} \in SUBSET U /\ U \ {m} # U /\ U \ {m} \in SUBSET S
        BY <1>3, <2>1
  <2>3. PICK list : Ordered(list, U \ {m})
        BY <1>2, <2>2
  <2>4. PICK n \in Nat : n = Cardinality(U \ {m})
        BY <1>3, FS_RemoveElement, FS_CardinalityType
  <2>5. Cardinality(U) = n + 1
    <3>1. Cardinality(U) \in Nat /\ Cardinality(U \ {m}) = Cardinality(U) - 1
          BY <1>3, <2>1, FS_RemoveElement, FS_CardinalityType
    <3>2. QED
          BY <2>4, <3>1
  <2>6. /\ list \in [1..n -> U \ {m}]
        /\ \A i, j \in 1..n : i < j => list[i] < list[j]
        BY <2>3, <2>4 DEF Ordered
  <2> DEFINE longer == [i \in 1..n + 1 |-> IF i = n + 1 THEN m ELSE list[i]]
  <2>7. longer \in [1..n + 1 -> U]
        BY <2>1, <2>6
  <2>8. ASSUME NEW i \in 1..n + 1, NEW j \in 1..n + 1, i < j
        PROVE  longer[i] < longer[j]
    <3>1. i \in 1..n /\ longer[i] = list[i] /\ list[i] \in U /\ list[i] # m
          BY <2>6, <2>8
    <3>2. list[i] \in Nat /\ m \in Nat /\ list[i] <= m
          BY <1>3, <2>1, <3>1
    <3>3. CASE j = n + 1
          BY <3>1, <3>2, <3>3
    <3>4. CASE j # n + 1
          BY <2>6, <2>8, <3>1, <3>4
    <3>5. QED
          BY <3>3, <3>4
  <2>9. Ordered(longer, U)
        BY <2>5, <2>7, <2>8 DEF Ordered
  <2>10. QED
        BY <1>3, <2>9
<1>6. QED
      BY <1>4, <1>5

LEMMA InKeyOrderIsOrdered ==
  ASSUME NEW S \in SUBSET Nat, IsFiniteSet(S)
  PROVE  Ordered(InKeyOrder(S), S)
<1>1. PICK list : Ordered(list, S)
      BY OrderedListExists
<1>2. QED
      BY <1>1 DEF InKeyOrder, Ordered

LEMMA InKeyOrderIsSeq ==
  ASSUME NEW S \in SUBSET Nat, IsFiniteSet(S)
  PROVE  InKeyOrder(S) \in Seq(S) /\ Len(InKeyOrder(S)) = Cardinality(S)
<1>1. InKeyOrder(S) \in [1..Cardinality(S) -> S] /\ Cardinality(S) \in Nat
      BY InKeyOrderIsOrdered, FS_CardinalityType DEF Ordered
<1>2. QED
      BY <1>1

\* Every element is in the list.
LEMMA OrderedIsOnto ==
  ASSUME NEW S \in SUBSET Nat, IsFiniteSet(S), NEW list, Ordered(list, S), NEW x \in S
  PROVE  \E i \in 1..Cardinality(S) : list[i] = x
<1>1. PICK n \in Nat : n = Cardinality(S)
      BY FS_CardinalityType
<1>2. IsFiniteSet(1..n) /\ Cardinality(1..n) = n
      BY FS_Interval
<1>3. list \in [1..n -> S] /\ \A i, j \in 1..n : i < j => list[i] < list[j]
      BY <1>1 DEF Ordered
<1>4. ASSUME NEW i \in 1..n, NEW j \in 1..n, list[i] = list[j] PROVE i = j
  <2>1. list[i] \in Nat /\ list[j] \in Nat
        BY <1>3
  <2>2. ~(list[i] < list[j]) /\ ~(list[j] < list[i])
        BY <1>4, <2>1
  <2>3. QED
        BY <1>3, <2>2
<1>5. list \in Injection(1..n, S)
      BY <1>3, <1>4 DEF Injection, IsInjective
<1>6. list \in Surjection(1..n, S)
      BY <1>1, <1>2, <1>5, FS_Injection
<1>7. QED
      BY <1>1, <1>6 DEF Surjection

\* An element comes after those below it.
LEMMA PositionCountsBelow ==
  ASSUME NEW S \in SUBSET Nat, IsFiniteSet(S), NEW list, Ordered(list, S),
         NEW i \in 1..Cardinality(S)
  PROVE  Cardinality({x \in S : x < list[i]}) = i - 1
<1> DEFINE below == {x \in S : x < list[i]}
<1>1. PICK n \in Nat : n = Cardinality(S)
      BY FS_CardinalityType
<1>2. list \in [1..n -> S] /\ \A j, k \in 1..n : j < k => list[j] < list[k]
      BY <1>1 DEF Ordered
<1>3. i \in 1..n /\ \A j \in 1..n : list[j] \in Nat
      BY <1>1, <1>2
<1> DEFINE first == [j \in 1..i - 1 |-> list[j]]
<1>4. first \in [1..i - 1 -> below]
      BY <1>2, <1>3
<1>5. ASSUME NEW j \in 1..i - 1, NEW k \in 1..i - 1, first[j] = first[k] PROVE j = k
  <2>1. /\ j \in 1..n /\ k \in 1..n /\ list[j] = list[k]
        BY <1>3, <1>5
  <2>2. ~(list[j] < list[k]) /\ ~(list[k] < list[j])
        BY <1>3, <2>1
  <2>3. QED
        BY <1>2, <2>1, <2>2
<1>6. ASSUME NEW x \in below PROVE \E j \in 1..i - 1 : first[j] = x
  <2>1. PICK j \in 1..n : list[j] = x
        BY <1>1, OrderedIsOnto
  <2>2. j # i /\ ~(i < j)
        BY <1>2, <1>3, <1>6, <2>1
  <2>3. j \in 1..i - 1
        BY <1>3, <2>1, <2>2
  <2>4. QED
        BY <2>1, <2>3
<1>7. ExistsBijection(1..i - 1, below)
  <2>1. first \in Bijection(1..i - 1, below)
    <3> HIDE DEF first, below
    <3>1. QED
          BY <1>4, <1>5, <1>6 DEF Bijection, Injection, Surjection, IsInjective
  <2>2. QED
        BY <2>1 DEF ExistsBijection
<1>8. IsFiniteSet(1..i - 1) /\ Cardinality(1..i - 1) = i - 1
      BY <1>3, FS_Interval
<1>9. QED
      BY <1>7, <1>8, FS_Bijection

\* What an old position names in a list that has grown.
LEMMA PositionInLongerList ==
  ASSUME NEW S \in SUBSET Nat, NEW R \in SUBSET S, IsFiniteSet(S),
         NEW i \in 1..Cardinality(R)
  PROVE  /\ i \in 1..Cardinality(S)
         /\ \/ InKeyOrder(S)[i] = InKeyOrder(R)[i]
            \/ /\ InKeyOrder(S)[i] < InKeyOrder(R)[i]
               /\ \E h \in S \ R : h < InKeyOrder(R)[i]
<1>1. /\ IsFiniteSet(R) /\ Cardinality(R) \in Nat /\ Cardinality(S) \in Nat
      /\ Cardinality(R) <= Cardinality(S)
      BY FS_Subset, FS_CardinalityType
<1>2. i \in 1..Cardinality(S)
      BY <1>1
<1>3. PICK old : old = InKeyOrder(R) /\ Ordered(old, R)
      BY <1>1, InKeyOrderIsOrdered
<1>4. PICK new : new = InKeyOrder(S) /\ Ordered(new, S)
      BY InKeyOrderIsOrdered
<1>5. PICK x \in R : x = old[i]
      BY <1>3 DEF Ordered
<1>6. PICK j \in 1..Cardinality(S) : new[j] = x
      BY <1>4, <1>5, OrderedIsOnto
<1> DEFINE oldBelow == {y \in R : y < x}
           newBelow == {y \in S : y < x}
<1>7. Cardinality(oldBelow) = i - 1
      BY <1>1, <1>3, <1>5, PositionCountsBelow
<1>8. Cardinality(newBelow) = j - 1
      BY <1>4, <1>6, PositionCountsBelow
<1>9. /\ oldBelow \in SUBSET newBelow /\ IsFiniteSet(newBelow)
      BY FS_Subset
<1>10. i <= j
      BY <1>1, <1>7, <1>8, <1>9, FS_Subset
<1>11. CASE i = j
      BY <1>2, <1>3, <1>4, <1>5, <1>6, <1>11
<1>12. CASE i # j
  <2>1. new[i] < x
        BY <1>1, <1>2, <1>4, <1>6, <1>10, <1>12 DEF Ordered
  <2>2. oldBelow # newBelow
        BY <1>1, <1>7, <1>8, <1>12
  <2>3. \E h \in S \ R : h < x
        BY <1>9, <2>2
  <2>4. QED
        BY <1>2, <1>3, <1>4, <1>5, <2>1, <2>3
<1>13. QED
      BY <1>11, <1>12

-----------------------------------------------------------------------------
(* Pages.                                                                   *)

\* Quotient and remainder.
LEMMA Quotient ==
  ASSUME NEW m \in Nat
  PROVE  /\ m \div PerPage \in Nat /\ (m \div PerPage) * PerPage <= m
         /\ m < (m \div PerPage) * PerPage + PerPage
BY MenusAssumption

LEMMA ProductGrows ==
  ASSUME NEW a \in Int, NEW b \in Int, a <= b
  PROVE  a * PerPage \in Int /\ a * PerPage <= b * PerPage
BY MenusAssumption

\* Where a page starts: the pages hold the list and the last is not empty.
LEMMA PageStarts ==
  ASSUME NEW n \in Nat
  PROVE  /\ TotalPages(n) \in Nat
         /\ n <= TotalPages(n) * PerPage
         /\ n > 0 => TotalPages(n) >= 1
         /\ \A page \in 1..AtLeastOne(TotalPages(n)) :
              (page - 1) * PerPage \in Nat /\ (page - 1) * PerPage <= n
<1>1. PICK total : total = TotalPages(n)
      OBVIOUS
<1>2. PerPage \in Nat \ {0} /\ n + PerPage - 1 \in Nat
      BY MenusAssumption
<1>3. /\ total \in Nat /\ total * PerPage <= n + PerPage - 1
      /\ n + PerPage - 1 < total * PerPage + PerPage
      BY <1>1, <1>2, Quotient DEF TotalPages
<1>4. total * PerPage \in Int /\ n <= total * PerPage
      BY <1>2, <1>3, ProductGrows
<1>5. n > 0 => total >= 1
      BY <1>2, <1>3, <1>4
<1>6. ASSUME NEW page \in 1..AtLeastOne(total)
      PROVE  (page - 1) * PerPage \in Nat /\ (page - 1) * PerPage <= n
  <2>1. CASE total = 0
    <3>1. page = 1
          BY <1>6, <2>1 DEF AtLeastOne
    <3>2. QED
          BY <1>2, <3>1
  <2>2. CASE total # 0
    <3>1. page \in 1..total
          BY <1>3, <1>6, <2>2 DEF AtLeastOne
    <3>2. page - 1 \in Nat /\ page - 1 <= total - 1
          BY <1>3, <3>1
    <3>3. (page - 1) * PerPage <= (total - 1) * PerPage
          BY <1>3, <3>1, <3>2, ProductGrows
    <3>4. (total - 1) * PerPage = total * PerPage - PerPage
          BY <1>2, <1>3
    <3>5. 0 * PerPage <= (page - 1) * PerPage /\ (page - 1) * PerPage \in Int
          BY <3>2, ProductGrows
    <3>6. QED
          BY <1>2, <1>3, <1>4, <3>3, <3>4, <3>5
  <2>3. QED
        BY <2>1, <2>2
<1>7. QED
      BY <1>1, <1>3, <1>4, <1>5, <1>6

LEMMA ClampInRange ==
  ASSUME NEW page \in Int, NEW total \in Nat
  PROVE  /\ AtLeastOne(total) \in Nat
         /\ Clamp(page, AtLeastOne(total)) \in 1..AtLeastOne(total)
         /\ page \in 1..AtLeastOne(total) => Clamp(page, AtLeastOne(total)) = page
BY DEF AtLeastOne, Clamp

\* The slice of a page.
LEMMA SliceOfPage ==
  ASSUME NEW n \in Nat, NEW asked \in Int
  PROVE  LET s == Slice(asked, n) IN
         /\ s.page \in 1..AtLeastOne(TotalPages(n))
         /\ s.start = (s.page - 1) * PerPage
         /\ s.start \in Nat /\ s.end \in Nat /\ s.start <= s.end /\ s.end <= n
         /\ \/ s.end = s.start + PerPage
            \/ s.end = n
         /\ s.end <= s.start + PerPage
         /\ asked \in 1..AtLeastOne(TotalPages(n)) => s.page = asked
<1>1. PICK page : page = Clamp(asked, AtLeastOne(TotalPages(n)))
      OBVIOUS
<1>2. /\ page \in 1..AtLeastOne(TotalPages(n))
      /\ asked \in 1..AtLeastOne(TotalPages(n)) => page = asked
      BY <1>1, PageStarts, ClampInRange
<1>3. PICK start : start = (page - 1) * PerPage
      OBVIOUS
<1>4. start \in Nat /\ start <= n
      BY <1>2, <1>3, PageStarts
<1>5. PICK left : left = IF n > start THEN n - start ELSE 0
      OBVIOUS
<1>6. Slice(asked, n) =
        [page |-> page, start |-> start,
         end |-> start + (IF PerPage < left THEN PerPage ELSE left)]
      BY <1>1, <1>3, <1>5 DEF Slice
<1>7. PerPage \in Nat
      BY MenusAssumption
<1>8. QED
      BY <1>2, <1>3, <1>4, <1>5, <1>6, <1>7

\* The pages of a list of any length cover it without overlap.
LEMMA PagesCoverOnce ==
  ASSUME NEW n \in Nat, NEW k \in 1..n
  PROVE  /\ \E page \in 1..TotalPages(n) : Slice(page, n).start < k /\ k <= Slice(page, n).end
         /\ \A p, q \in 1..TotalPages(n) :
              /\ Slice(p, n).start < k /\ k <= Slice(p, n).end
              /\ Slice(q, n).start < k /\ k <= Slice(q, n).end
              => p = q
<1>1. PerPage \in Nat \ {0} /\ TotalPages(n) \in Nat /\ n <= TotalPages(n) * PerPage
      BY MenusAssumption, PageStarts
<1>2. TotalPages(n) >= 1
      BY PageStarts
<1>3. ASSUME NEW page \in 1..TotalPages(n)
      PROVE  /\ Slice(page, n).start = (page - 1) * PerPage
             /\ Slice(page, n).end \in Nat
             /\ Slice(page, n).end = (page - 1) * PerPage + PerPage \/ Slice(page, n).end = n
             /\ Slice(page, n).end <= (page - 1) * PerPage + PerPage
  <2>1. page \in Int /\ page \in 1..AtLeastOne(TotalPages(n))
        BY <1>1, <1>2, <1>3 DEF AtLeastOne
  <2>2. QED
        BY <2>1, SliceOfPage
<1>4. \E page \in 1..TotalPages(n) : Slice(page, n).start < k /\ k <= Slice(page, n).end
  <2>1. PICK page : page = (k - 1) \div PerPage + 1
        OBVIOUS
  <2>2. /\ page - 1 \in Nat /\ (page - 1) * PerPage <= k - 1
        /\ k - 1 < (page - 1) * PerPage + PerPage
    <3>1. k - 1 \in Nat
          OBVIOUS
    <3>2. PICK quotient \in Nat : /\ quotient = (k - 1) \div PerPage
                                  /\ quotient * PerPage <= k - 1
                                  /\ k - 1 < quotient * PerPage + PerPage
          BY <3>1, Quotient
    <3>3. page - 1 = quotient
          BY <2>1, <3>2
    <3>4. QED
          BY <3>2, <3>3
  <2>3. page - 1 < TotalPages(n)
    <3>1. SUFFICES ASSUME TotalPages(n) <= page - 1 PROVE FALSE
          BY <1>1, <2>2
    <3>2. TotalPages(n) * PerPage <= (page - 1) * PerPage /\ (page - 1) * PerPage \in Int
          BY <1>1, <2>2, <3>1, ProductGrows
    <3>3. TotalPages(n) * PerPage \in Int
          BY <1>1
    <3>4. QED
          BY <1>1, <2>2, <3>2, <3>3
  <2>4. page \in 1..TotalPages(n)
        BY <1>1, <2>1, <2>2, <2>3
  <2>5. (page - 1) * PerPage \in Int
        BY <2>2, ProductGrows
  <2>6. QED
        BY <1>1, <1>3, <2>2, <2>4, <2>5
<1>5. ASSUME NEW p \in 1..TotalPages(n), NEW q \in 1..TotalPages(n), p < q,
             k <= Slice(p, n).end, Slice(q, n).start < k
      PROVE  FALSE
  <2>1. p \in Int /\ q \in Int /\ p <= q - 1
        BY <1>1, <1>5
  <2>2. p * PerPage <= (q - 1) * PerPage /\ p * PerPage \in Int /\ (q - 1) * PerPage \in Int
        BY <1>1, <2>1, ProductGrows
  <2>3. (p - 1) * PerPage + PerPage = p * PerPage
        BY <1>1, <2>1
  <2>4. QED
        BY <1>3, <1>5, <2>2, <2>3
<1>6. \A p, q \in 1..TotalPages(n) : p < q \/ q < p \/ p = q
      BY <1>1
<1>7. QED
      BY <1>4, <1>5, <1>6

LEMMA AllPendingHasLength == Len(AllPending) \in Nat
<1>1. ASSUME NEW c PROVE InKeyOrder(PendingOf(c)) \in Seq(PendingOf(c))
  <2>1. PendingOf(c) \in SUBSET Nat /\ IsFiniteSet(PendingOf(c))
    <3>1. PendingOf(c) \in SUBSET Exchanges
          BY DEF PendingOf
    <3>2. QED
          BY <3>1, MenusAssumption, FS_Subset
  <2>2. QED
        BY <2>1, InKeyOrderIsSeq
<1>2. /\ InKeyOrder(PendingOf("tron")) \in Seq(Nat)
      /\ InKeyOrder(PendingOf("bsc")) \in Seq(Nat)
  <2>1. PendingOf("tron") \in SUBSET Nat /\ PendingOf("bsc") \in SUBSET Nat
        BY MenusAssumption DEF PendingOf
  <2>2. QED
        BY <1>1, <2>1
<1>3. AllPending \in Seq(Nat)
      BY <1>2 DEF AllPending
<1>4. QED
      BY <1>3

\* Whatever page an old button of show_exchanges_page asks for, the slice lies
\* within the list, and the pages show every pending exchange once, for any
\* number of exchanges and any page length.
THEOREM PagesShowAll == Spec => []PagesShowEveryPending
<1>1. PagesShowEveryPending
  <2>1. PICK n \in Nat : n = Len(AllPending)
        BY AllPendingHasLength
  <2>2. ASSUME NEW asked \in 0..Cardinality(Exchanges) + 1
        PROVE  /\ 0 <= Slice(asked, n).start
               /\ Slice(asked, n).start <= Slice(asked, n).end /\ Slice(asked, n).end <= n
    <3>1. Cardinality(Exchanges) \in Nat
          BY MenusAssumption, FS_CardinalityType
    <3>2. asked \in Int
          BY <3>1
    <3>3. QED
          BY <3>2, SliceOfPage
  <2>3. ASSUME NEW k \in 1..n
        PROVE  /\ \E page \in 1..TotalPages(n) :
                    Slice(page, n).start < k /\ k <= Slice(page, n).end
               /\ \A p, q \in 1..TotalPages(n) :
                    /\ Slice(p, n).start < k /\ k <= Slice(p, n).end
                    /\ Slice(q, n).start < k /\ k <= Slice(q, n).end
                    => p = q
        BY PagesCoverOnce
  <2>4. QED
        BY <2>1, <2>2, <2>3 DEF PagesShowEveryPending
<1>2. QED
      BY <1>1, PTL

-----------------------------------------------------------------------------
(* The state.                                                               *)

\* Nothing sets "expired", so the cleanup of main.rs finds nothing to remove.
CleanInv ==
  /\ CleanupTypeOK
  /\ toRemove = {}
  /\ \A e \in Exchanges : status[e] # "expired"

\* The statuses of an exchange a command may set out from.
Open == {"pending", "deposit_detected", "error"}

\* A command set out from an exchange that was open, and if what it read of it
\* was past "pending", then so is the exchange.
CommandInv ==
  /\ command \in Command
  /\ command.pc # "idle" =>
       command.ex \in Exchanges /\ command.seen \in Open /\ status[command.ex] # "absent"
  /\ command.pc = "amountsPut" =>
       /\ command.copy \notin {"expired", "absent"}
       /\ command.copy # "pending" => status[command.ex] # "pending"

\* An exchange the handler has found and not written yet is in no payout, nor
\* does a command have a copy of it from one.
HandlingInv ==
  /\ handling # Nothing => handling.ex \in Exchanges /\ status[handling.ex] # "absent"
  /\ handling # Nothing /\ handling.wrote = "pending" =>
       /\ status[handling.ex] \notin {"sending", "sent"}
       /\ command.pc = "amountsPut" /\ command.ex = handling.ex =>
            command.copy \notin {"sending", "sent"}

TableInv == CleanInv /\ CommandInv /\ HandlingInv

\* The list a message of reviews shows is that of reviews stored by then.
ChatInv ==
  /\ reviews \subseteq Reviews
  /\ chat \in Message
  /\ chat.kind = "exchange" => chat.ex \in Exchanges
  /\ chat.kind = "reviews" => \E R \in SUBSET reviews : chat.listed = InKeyOrder(R)

PressedInv ==
  /\ \A p \in pressed : p \in [label : Reviews, hit : Reviews, newer : SUBSET Reviews]
  /\ MispressNeedsEarlierReview

\* Inductive.
IInv == TableInv /\ ChatInv /\ PressedInv

\* What a step may do to an exchange that is being paid or is paid.
Reopened ==
  \A e \in Exchanges :
    status[e] \in {"sending", "sent"} /\ status'[e] \in {"pending", "deposit_detected"} =>
      command.ex = e /\ command.seen \in Open

LEMMA NoMessageIsMessage == NoMessage \in Message
BY DEF NoMessage, Message, Kinds, Statuses

LEMMA NoCommandIsCommand == NoCommand \in Command /\ NoCommand.pc = "idle"
BY DEF NoCommand, Command, Statuses

LEMMA InitIInv == Init => IInv
<1> SUFFICES ASSUME Init PROVE IInv
    OBVIOUS
<1>1. CleanInv
  <2>1. CleanupInit
        BY DEF Init
  <2>2. clock \in 0..MaxClock
        BY <2>1, CleanupAssumption DEF CleanupInit
  <2>3. /\ status \in [Exchanges -> Statuses] /\ \A e \in Exchanges : status[e] # "expired"
        /\ expires \in [Exchanges -> Nat] /\ toRemove = {} /\ cleaning \in BOOLEAN
        /\ handling \in [ex : Exchanges \cup {0}, wrote : Statuses]
        BY <2>1 DEF CleanupInit, Statuses, Nothing
  <2>4. QED
        BY <2>2, <2>3 DEF CleanInv, CleanupTypeOK
<1>2. CommandInv
      BY NoCommandIsCommand DEF Init, CommandInv
<1>3. HandlingInv
      BY DEF Init, CleanupInit, HandlingInv
<1>4. ChatInv
      BY NoMessageIsMessage DEF Init, ChatInv, NoMessage
<1>5. PressedInv
      BY DEF Init, PressedInv, MispressNeedsEarlierReview
<1>6. QED
      BY <1>1, <1>2, <1>3, <1>4, <1>5 DEF IInv, TableInv

\* What leaves the tables and the command alone keeps them in order.
LEMMA TablesUnchanged ==
  ASSUME TableInv, UNCHANGED <<cleanupVars, command>> PROVE TableInv' /\ Reopened
<1>1. UNCHANGED <<clock, status, expires, toRemove, cleaning, handling, command>>
      BY DEF cleanupVars
<1>2. QED
      BY <1>1 DEF TableInv, CleanInv, CleanupTypeOK, CommandInv, HandlingInv, Reopened

\* The cleanup, the clock, the API and the deposit handler.
LEMMA CleanupStep ==
  ASSUME TableInv, CleanupNext, UNCHANGED command PROVE TableInv' /\ Reopened
<1> USE DEF TableInv, CleanInv, CleanupTypeOK, Statuses
<1>1. CASE Tick
      BY <1>1, CleanupAssumption DEF Tick, CommandInv, HandlingInv, Reopened
<1>2. ASSUME NEW e \in Exchanges, Create(e) PROVE TableInv' /\ Reopened
  <2>1. clock + Lifetime \in Nat
        BY CleanupAssumption
  <2>2. CleanInv' /\ Reopened
        BY <1>2, <2>1 DEF Create, Reopened
  <2>3. CommandInv'
        BY <1>2 DEF Create, CommandInv
  <2>4. HandlingInv'
        BY <1>2 DEF Create, HandlingInv
  <2>5. QED
        BY <2>2, <2>3, <2>4
<1>3. ASSUME NEW e \in Exchanges, HandlerFinds(e) PROVE TableInv' /\ Reopened
  <2>1. CleanInv' /\ Reopened /\ CommandInv'
        BY <1>3 DEF HandlerFinds, Reopened, CommandInv
  <2>2. HandlingInv'
        BY <1>3 DEF HandlerFinds, HandlingInv, CommandInv, Nothing
  <2>3. QED
        BY <2>1, <2>2
<1>4. ASSUME NEW s \in Statuses, HandlerSets(s) PROVE TableInv' /\ Reopened
  <2>1. /\ handling.ex \in Exchanges /\ handling # Nothing
        /\ s \in {"deposit_detected", "sending", "sent", "error"}
        /\ status' = [status EXCEPT ![handling.ex] = s]
        BY <1>4 DEF HandlerSets, HandlingInv
  <2>2. CleanInv'
        BY <1>4, <2>1 DEF HandlerSets, Nothing
  <2>3. CommandInv'
        BY <2>1 DEF CommandInv
  <2>4. HandlingInv'
        BY <1>4, <2>1 DEF HandlerSets, HandlingInv
  <2>5. Reopened
        BY <1>4, <2>1 DEF HandlerSets, HandlingInv, Reopened
  <2>6. QED
        BY <2>2, <2>3, <2>4, <2>5
<1>5. CASE Collect
      BY <1>5 DEF Collect, Removable, CommandInv, HandlingInv, Reopened
<1>6. CASE RemoveCollected
  <2>1. status' = status
        BY <1>6 DEF RemoveCollected
  <2>2. QED
        BY <1>6, <2>1 DEF RemoveCollected, CommandInv, HandlingInv, Reopened
<1>7. QED
      BY <1>1, <1>2, <1>3, <1>4, <1>5, <1>6 DEF CleanupNext

\* A message drawn leaves the tables alone.
LEMMA DrawStep ==
  ASSUME IInv, NEW message \in Message, Draw(message),
         message.kind = "exchange" => message.ex \in Exchanges,
         message.kind = "reviews" => \E R \in SUBSET reviews : message.listed = InKeyOrder(R)
  PROVE  IInv' /\ Reopened
<1>1. UNCHANGED <<cleanupVars, reviews, command>> /\ chat' = message /\ pressed' = {}
      BY DEF Draw
<1>2. TableInv' /\ Reopened
      BY <1>1, TablesUnchanged DEF IInv
<1>3. ChatInv'
      BY <1>1 DEF IInv, ChatInv
<1>4. PressedInv'
      BY <1>1 DEF PressedInv, MispressNeedsEarlierReview
<1>5. QED
      BY <1>2, <1>3, <1>4 DEF IInv

LEMMA ShowPageStep ==
  ASSUME IInv, NEW asked \in Int, ShowPage(asked) PROVE IInv' /\ Reopened
<1>1. PICK n \in Nat : n = Len(AllPending)
      BY AllPendingHasLength
<1>2. PICK page \in Nat : page = Slice(asked, n).page
  <2>1. TotalPages(n) \in Nat
        BY PageStarts
  <2>2. AtLeastOne(TotalPages(n)) \in Nat
        BY <2>1, ClampInRange
  <2>3. Slice(asked, n).page \in 1..AtLeastOne(TotalPages(n))
        BY SliceOfPage
  <2>4. QED
        BY <2>2, <2>3
<1>3. PICK total \in Nat : total = AtLeastOne(TotalPages(n))
  <2>1. TotalPages(n) \in Nat
        BY PageStarts
  <2>2. QED
        BY <2>1, ClampInRange
<1>4. PICK message :
        message = [NoMessage EXCEPT !.kind = "page", !.page = page, !.total = total]
      OBVIOUS
<1>5. message \in Message /\ message.kind = "page"
      BY <1>4, NoMessageIsMessage DEF Message, Kinds
<1>6. Draw(message)
      BY <1>1, <1>2, <1>3, <1>4 DEF ShowPage
<1>7. QED
      BY <1>5, <1>6, DrawStep

LEMMA ShowExchangeStep ==
  ASSUME IInv, NEW e \in Exchanges, ShowExchange(e) PROVE IInv' /\ Reopened
<1>1. PICK message :
        message = [NoMessage EXCEPT !.kind = "exchange", !.ex = e, !.drawn = status[e]]
      OBVIOUS
<1>2. status[e] \in Statuses
      BY DEF IInv, TableInv, CleanInv, CleanupTypeOK
<1>3. message \in Message /\ message.kind = "exchange" /\ message.ex \in Exchanges
      BY <1>1, <1>2, NoMessageIsMessage DEF Message, Kinds
<1>4. Draw(message)
      BY <1>1 DEF ShowExchange
<1>5. QED
      BY <1>3, <1>4, DrawStep

LEMMA ShowReviewsStep ==
  ASSUME IInv, ShowReviews PROVE IInv' /\ Reopened
<1>1. PICK message : message = [NoMessage EXCEPT !.kind = "reviews", !.listed = ReviewList]
      OBVIOUS
<1>2. ReviewList = InKeyOrder(reviews) /\ reviews \in SUBSET reviews
      BY DEF ReviewList
<1>3. ReviewList \in Seq(Reviews)
  <2>1. reviews \in SUBSET Nat /\ IsFiniteSet(reviews) /\ reviews \subseteq Reviews
        BY MenusAssumption, FS_Subset DEF IInv, ChatInv
  <2>2. PICK n \in Nat : n = Cardinality(reviews)
        BY <2>1, FS_CardinalityType
  <2>3. ReviewList \in [1..n -> Reviews]
        BY <1>2, <2>1, <2>2, InKeyOrderIsOrdered DEF Ordered
  <2>4. QED
        BY <2>3
<1>4. /\ message \in Message /\ message.kind = "reviews"
      /\ message.listed = InKeyOrder(reviews)
      BY <1>1, <1>2, <1>3, NoMessageIsMessage DEF Message, Kinds, NoMessage
<1>5. Draw(message)
      BY <1>1 DEF ShowReviews
<1>6. QED
      BY <1>2, <1>4, <1>5, DrawStep

\* A button used up leaves the message, or the same one elsewhere in the chat.
LEMMA UsedKeepsChat ==
  ASSUME ChatInv, Used \/ UNCHANGED chat, UNCHANGED reviews PROVE ChatInv'
<1>1. chat' \in {NoMessage, chat}
      BY DEF Used
<1>2. CASE chat' = NoMessage
      BY <1>2, NoMessageIsMessage DEF ChatInv, NoMessage
<1>3. CASE chat' = chat
      BY <1>3 DEF ChatInv
<1>4. QED
      BY <1>1, <1>2, <1>3

LEMMA AddReviewStep ==
  ASSUME IInv, NEW h \in Reviews, AddReview(h) PROVE IInv' /\ Reopened
<1>1. reviews' = reviews \cup {h} /\ UNCHANGED <<cleanupVars, chat, command, pressed>>
      BY DEF AddReview
<1>2. TableInv' /\ Reopened
      BY <1>1, TablesUnchanged DEF IInv
<1>3. ChatInv'
      BY <1>1 DEF IInv, ChatInv
<1>4. PressedInv'
      BY <1>1 DEF IInv, PressedInv, MispressNeedsEarlierReview
<1>5. QED
      BY <1>2, <1>3, <1>4 DEF IInv

-----------------------------------------------------------------------------
(* The steps of a command.                                                  *)

\* A command that sets out from an open exchange, or none.
LEMMA BeginStep ==
  ASSUME TableInv, UNCHANGED cleanupVars,
         \/ UNCHANGED command
         \/ \E pc \in {"amountsGet", "statusPut"}, e \in Exchanges, seen \in Open :
              Begin(pc, e, seen) /\ status[e] # "absent"
  PROVE  TableInv' /\ Reopened
<1>1. CASE UNCHANGED command
      BY <1>1, TablesUnchanged
<1>2. ASSUME NEW pc \in {"amountsGet", "statusPut"}, NEW e \in Exchanges, NEW seen \in Open,
             Begin(pc, e, seen), status[e] # "absent"
      PROVE  TableInv' /\ Reopened
  <2>1. command' = [pc |-> pc, ex |-> e, copy |-> "absent", seen |-> seen]
        BY <1>2 DEF Begin, NoCommand
  <2>2. UNCHANGED <<clock, status, expires, toRemove, cleaning, handling>>
        BY DEF cleanupVars
  <2>3. CleanInv'
        BY <2>2 DEF TableInv, CleanInv, CleanupTypeOK
  <2>4. CommandInv'
        BY <1>2, <2>1, <2>2 DEF CommandInv, Command, Statuses, Open
  <2>5. HandlingInv'
        BY <2>1, <2>2 DEF TableInv, HandlingInv
  <2>6. QED
        BY <2>2, <2>3, <2>4, <2>5 DEF TableInv, Reopened
<1>3. QED
      BY <1>1, <1>2

LEMMA PressResolveStep ==
  ASSUME IInv, PressResolve PROVE IInv' /\ Reopened
<1>1. /\ chat.kind = "exchange" /\ chat.drawn \in Resolvable
      /\ status[chat.ex] # "absent"
      /\ Begin("statusPut", chat.ex, chat.drawn)
      /\ UNCHANGED <<cleanupVars, reviews, chat>> /\ pressed' = {}
      BY DEF PressResolve
<1>2. chat.ex \in Exchanges /\ chat.drawn \in Open
      BY <1>1 DEF IInv, ChatInv, Resolvable, Open
<1>3. TableInv' /\ Reopened
      BY <1>1, <1>2, BeginStep DEF IInv
<1>4. ChatInv' /\ PressedInv'
      BY <1>1 DEF IInv, ChatInv, PressedInv, MispressNeedsEarlierReview
<1>5. QED
      BY <1>3, <1>4 DEF IInv

LEMMA AmountsGetStep ==
  ASSUME IInv, AmountsGet PROVE IInv' /\ Reopened
<1>1. /\ command.pc = "amountsGet"
      /\ command' = [command EXCEPT !.pc = "amountsPut", !.copy = status[command.ex]]
      /\ UNCHANGED <<clock, status, expires, toRemove, cleaning, handling, reviews, chat, pressed>>
      BY DEF AmountsGet, cleanupVars
<1>2. /\ command \in Command /\ command.ex \in Exchanges /\ status[command.ex] # "absent"
      /\ status[command.ex] \in Statuses /\ status[command.ex] # "expired"
      /\ command.seen \in Open
      BY <1>1 DEF IInv, TableInv, CleanInv, CleanupTypeOK, CommandInv
<1>3. CleanInv'
      BY <1>1 DEF IInv, TableInv, CleanInv, CleanupTypeOK
<1>4. CommandInv'
      BY <1>1, <1>2 DEF CommandInv, Command
<1>5. HandlingInv'
      BY <1>1, <1>2 DEF IInv, TableInv, HandlingInv, Command
<1>6. ChatInv' /\ PressedInv' /\ Reopened
      BY <1>1 DEF IInv, ChatInv, PressedInv, MispressNeedsEarlierReview, Reopened
<1>7. QED
      BY <1>3, <1>4, <1>5, <1>6 DEF IInv, TableInv

LEMMA AmountsPutStep ==
  ASSUME IInv, AmountsPut PROVE IInv' /\ Reopened
<1>1. /\ command.pc = "amountsPut"
      /\ status' = [status EXCEPT ![command.ex] = command.copy]
      /\ command' = [command EXCEPT !.pc = "statusPut", !.copy = "absent"]
      /\ UNCHANGED <<clock, expires, toRemove, cleaning, handling, reviews, chat, pressed>>
      BY DEF AmountsPut
<1>2. /\ command \in Command /\ command.ex \in Exchanges /\ command.seen \in Open
      /\ command.copy \in Statuses \ {"expired", "absent"}
      /\ status \in [Exchanges -> Statuses]
      BY <1>1 DEF IInv, TableInv, CleanInv, CleanupTypeOK, CommandInv, Command
<1>3. CleanInv'
      BY <1>1, <1>2 DEF IInv, TableInv, CleanInv, CleanupTypeOK
<1>4. CommandInv'
      BY <1>1, <1>2 DEF CommandInv, Command, Statuses
<1>5. HandlingInv'
      BY <1>1, <1>2 DEF IInv, TableInv, HandlingInv, Command
<1>6. ChatInv' /\ PressedInv'
      BY <1>1 DEF IInv, ChatInv, PressedInv, MispressNeedsEarlierReview
<1>7. Reopened
      BY <1>1, <1>2 DEF Reopened
<1>8. QED
      BY <1>3, <1>4, <1>5, <1>6, <1>7 DEF IInv, TableInv

LEMMA StatusPutStep ==
  ASSUME IInv, StatusPut PROVE IInv' /\ Reopened
<1>1. /\ command.pc = "statusPut"
      /\ status' = [status EXCEPT ![command.ex] = "deposit_detected"]
      /\ command' = NoCommand /\ Used
      /\ UNCHANGED <<clock, expires, toRemove, cleaning, handling, reviews, pressed>>
      BY DEF StatusPut
<1>2. /\ command.ex \in Exchanges /\ command.seen \in Open
      /\ status \in [Exchanges -> Statuses]
      BY <1>1 DEF IInv, TableInv, CleanInv, CleanupTypeOK, CommandInv
<1>3. CleanInv'
      BY <1>1, <1>2 DEF IInv, TableInv, CleanInv, CleanupTypeOK, Statuses
<1>4. CommandInv'
      BY <1>1, NoCommandIsCommand DEF CommandInv
<1>5. HandlingInv'
      BY <1>1, <1>2, NoCommandIsCommand DEF IInv, TableInv, HandlingInv
<1>6. ChatInv'
      BY <1>1, UsedKeepsChat DEF IInv
<1>7. PressedInv'
      BY <1>1 DEF IInv, PressedInv, MispressNeedsEarlierReview
<1>8. Reopened
      BY <1>1, <1>2 DEF Reopened
<1>9. QED
      BY <1>3, <1>4, <1>5, <1>6, <1>7, <1>8 DEF IInv, TableInv

\* Resolving a review sets a command out from "pending", or does nothing.
LEMMA ResolveStep ==
  ASSUME TableInv, UNCHANGED cleanupVars, NEW h \in Reviews, Resolve(h)
  PROVE  TableInv' /\ Reopened
<1>1. ReviewOf[h] \in Exchanges
      BY MenusAssumption
<1>2. \/ UNCHANGED command
      \/ Begin("amountsGet", ReviewOf[h], "pending") /\ status[ReviewOf[h]] # "absent"
      BY DEF Resolve
<1>3. QED
      BY <1>1, <1>2, BeginStep DEF Open

LEMMA ResolveByHashStep ==
  ASSUME IInv, NEW h \in Reviews, ResolveByHash(h) PROVE IInv' /\ Reopened
<1>1. Resolve(h) /\ UNCHANGED <<cleanupVars, reviews, chat>> /\ pressed' = {}
      BY DEF ResolveByHash
<1>2. TableInv' /\ Reopened
      BY <1>1, ResolveStep DEF IInv
<1>3. ChatInv' /\ PressedInv'
      BY <1>1 DEF IInv, ChatInv, PressedInv, MispressNeedsEarlierReview
<1>4. QED
      BY <1>2, <1>3 DEF IInv

\* A button names the review drawn or, when its list has grown below it, an
\* earlier one.
LEMMA PressReviewStep ==
  ASSUME IInv, NEW i \in Nat, PressReview(i) PROVE IInv' /\ Reopened
<1>1. PICK R \in SUBSET reviews : chat.listed = InKeyOrder(R)
      BY DEF PressReview, PressAt, IInv, ChatInv
<1>2. /\ reviews \in SUBSET Nat /\ IsFiniteSet(reviews) /\ reviews \subseteq Reviews
      /\ R \in SUBSET Nat /\ IsFiniteSet(R) /\ Cardinality(R) \in Nat
      BY <1>1, MenusAssumption, FS_Subset, FS_CardinalityType DEF IInv, ChatInv
<1>3. Len(chat.listed) = Cardinality(R) /\ Len(ReviewList) = Cardinality(reviews)
      BY <1>1, <1>2, InKeyOrderIsSeq DEF ReviewList
<1>4. i \in 1..Cardinality(R)
      BY <1>2, <1>3 DEF PressReview, PressAt
<1>5. PICK label : label = InKeyOrder(R)[i]
      OBVIOUS
<1>6. PICK hit : hit = InKeyOrder(reviews)[i]
      OBVIOUS
<1>7. /\ i \in 1..Cardinality(reviews)
      /\ hit = label \/ (hit < label /\ \E h \in reviews \ R : h < label)
      BY <1>1, <1>2, <1>4, <1>5, <1>6, PositionInLongerList
<1>8. label \in R /\ hit \in reviews
      BY <1>2, <1>4, <1>5, <1>6, <1>7, InKeyOrderIsOrdered DEF Ordered
<1>9. ToSet(chat.listed) \subseteq R
      BY <1>1, <1>2, InKeyOrderIsOrdered DEF ToSet, Ordered
<1>10. PICK newer : newer = reviews \ ToSet(chat.listed)
      OBVIOUS
<1>11. /\ Resolve(hit) /\ UNCHANGED <<cleanupVars, reviews, chat>>
       /\ pressed' = {[label |-> label, hit |-> hit, newer |-> newer]}
  <2>1. i <= Len(ReviewList)
        BY <1>2, <1>3, <1>4, <1>7, FS_CardinalityType
  <2>2. QED
        BY <1>1, <1>5, <1>6, <1>10, <2>1 DEF PressReview, PressAt, ReviewList
<1>12. TableInv' /\ Reopened
       BY <1>2, <1>8, <1>11, ResolveStep DEF IInv
<1>13. ChatInv'
       BY <1>11 DEF IInv, ChatInv
<1>14. PressedInv'
  <2> DEFINE p == [label |-> label, hit |-> hit, newer |-> newer]
  <2>1. p \in [label : Reviews, hit : Reviews, newer : SUBSET Reviews]
        BY <1>2, <1>8, <1>10
  <2>2. p.hit = p.label \/ (p.hit < p.label /\ \E h \in p.newer : h < p.label)
        BY <1>7, <1>9, <1>10
  <2>3. pressed' = {p}
        BY <1>11
  <2> HIDE DEF p
  <2>4. QED
        BY <2>1, <2>2, <2>3 DEF PressedInv, MispressNeedsEarlierReview
<1>15. QED
      BY <1>12, <1>13, <1>14 DEF IInv

-----------------------------------------------------------------------------
LEMMA MenusStep ==
  ASSUME IInv, [Next]_vars PROVE IInv' /\ [Reopened]_vars
<1> DEFINE Goal == IInv' /\ Reopened
<1>1. ASSUME CleanupNext, UNCHANGED <<reviews, chat, command, pressed>> PROVE Goal
  <2>1. TableInv' /\ Reopened
        BY <1>1, CleanupStep DEF IInv
  <2>2. ChatInv' /\ PressedInv'
        BY <1>1 DEF IInv, ChatInv, PressedInv, MispressNeedsEarlierReview
  <2>3. QED
        BY <2>1, <2>2 DEF IInv
<1>2. ASSUME NEW asked \in Int, ShowPage(asked) PROVE Goal
      BY <1>2, ShowPageStep
<1>3. ASSUME TurnPage PROVE Goal
  <2>1. chat.page - 1 \in Int /\ chat.page + 1 \in Int
        BY DEF IInv, ChatInv, Message
  <2>2. ShowPage(chat.page - 1) \/ ShowPage(chat.page + 1)
        BY <1>3 DEF TurnPage
  <2>3. QED
        BY <1>2, <2>1, <2>2
<1>4. ASSUME NEW e \in Exchanges, ShowExchange(e) PROVE Goal
      BY <1>4, ShowExchangeStep
<1>5. ASSUME PressResolve \/ AmountsGet \/ AmountsPut \/ StatusPut PROVE Goal
      BY <1>5, PressResolveStep, AmountsGetStep, AmountsPutStep, StatusPutStep
<1>6. ASSUME NEW h \in Reviews, AddReview(h) PROVE Goal
      BY <1>6, AddReviewStep
<1>7. ASSUME NEW h \in Reviews, ResolveByHash(h) PROVE Goal
      BY <1>7, ResolveByHashStep
<1>8. ASSUME ShowReviews PROVE Goal
      BY <1>8, ShowReviewsStep
<1>9. ASSUME NEW i \in 1..Cardinality(Reviews), PressReview(i) PROVE Goal
  <2>1. i \in Nat
        BY MenusAssumption, FS_CardinalityType
  <2>2. QED
        BY <1>9, <2>1, PressReviewStep
<1>10. CASE UNCHANGED vars
  <2>1. UNCHANGED <<cleanupVars, reviews, chat, command, pressed>>
        BY <1>10 DEF vars
  <2>2. TableInv' /\ ChatInv' /\ PressedInv'
        BY <2>1, TablesUnchanged DEF IInv, ChatInv, PressedInv, MispressNeedsEarlierReview
  <2>3. QED
        BY <1>10, <2>2 DEF IInv
<1>11. CASE Next
  <2> HIDE DEF Goal
  <2>1. ASSUME ShowPage(1) PROVE Goal
        BY <1>2, <2>1
  <2>2. Goal
        BY <1>1, <1>3, <1>4, <1>5, <1>6, <1>7, <1>8, <1>9, <1>11, <2>1 DEF Next
  <2>3. QED
        BY <2>2 DEF Goal
<1>12. QED
      BY <1>10, <1>11

LEMMA Invariant == Spec => []IInv
<1>1. IInv /\ [Next]_vars => IInv'
      BY MenusStep
<1>2. QED
      BY <1>1, InitIInv, PTL DEF Spec

\* The types of the bot's screens hold, the lists they show included.
THEOREM TypeCorrect == Spec => []TypeOK
<1>1. IInv => TypeOK
      BY DEF IInv, TableInv, CleanInv, CommandInv, ChatInv, PressedInv, TypeOK
<1>2. QED
      BY <1>1, Invariant, PTL

\* However many reviews are stored after a list was drawn, and wherever they
\* sort, an old button never resolves a review after the one it names, nor an
\* earlier one unless a new review sorts before it.
THEOREM MispressCorrect == Spec => []MispressNeedsEarlierReview
<1>1. IInv => MispressNeedsEarlierReview
      BY DEF IInv, PressedInv
<1>2. QED
      BY <1>1, Invariant, PTL

\* Nothing but a command that set out when the exchange was open takes it back
\* from its payout, however the command's steps and the handler's interleave.
THEOREM ReopenedByOldCommands == Spec => OnlyOldCommandsReopen
<1>1. IInv /\ [Next]_vars =>
        [\A e \in Exchanges :
           status[e] \in {"sending", "sent"}
           /\ status'[e] \in {"pending", "deposit_detected"} =>
             command.ex = e
             /\ command.seen \in {"pending", "deposit_detected", "error"}]_vars
      BY MenusStep DEF Reopened, Open
<1>2. QED
      BY <1>1, Invariant, PTL DEF Spec, OnlyOldCommandsReopen
=============================================================================
