--------------------------- MODULE PaymentProofs ---------------------------
(***************************************************************************)
(* Every payment balances, takes as few coins as any choice of them would, *)
(* and falls short of the fetched fee rate by what the size estimate       *)
(* leaves out at most, for any coins, values, payouts, rates and addresses. *)
(*                                                                         *)
(* Total is a fold over a set.  What it computes is proved by taking a     *)
(* smallest set that would contradict it (SmallestSubset).                 *)
(***************************************************************************)
EXTENDS Payment, FiniteSetTheorems, TLAPS

-----------------------------------------------------------------------------
(* Totals.                                                                  *)

\* A set of subsets of a finite set has one that holds no other.
LEMMA SmallestSubset ==
  ASSUME NEW S, IsFiniteSet(S), NEW B \in SUBSET (SUBSET S), B # {}
  PROVE  \E U \in B : \A V \in SUBSET U : V # U => V \notin B
<1>1. B \subseteq FiniteSubsetsOf(S)
      BY FS_Subset DEF FiniteSubsetsOf
<1>2. PICK U \in B : \A V \in B : ~(<<V, U>> \in StrictSubsetOrdering(S))
      BY <1>1, FS_StrictSubsetOrderingWellFounded, WFMin
<1>3. ASSUME NEW V \in SUBSET U, V # U, V \in B PROVE FALSE
  <2>1. V \in SUBSET S /\ U \in SUBSET S
        BY <1>3
  <2>2. <<V, U>> \in StrictSubsetOrdering(S)
        BY <1>3, <2>1 DEF StrictSubsetOrdering
  <2>3. QED
        BY <1>2, <1>3, <2>2
<1>4. QED
      BY <1>3

\* The coin the fold takes first, and the function it is defined by.
Chosen(S) == CHOOSE c \in S : TRUE

Sums(f, S) ==
  f = [T \in SUBSET S |->
         IF T = {} THEN 0 ELSE CoinValue[Chosen(T)] + f[T \ {Chosen(T)}]]

LEMMA TotalUnfolds ==
  ASSUME NEW S PROVE Total(S) = (CHOOSE f : Sums(f, S))[S]
BY DEF Total, MapThenSumSet, MapThenFoldSet, Sums, Chosen

LEMMA ChosenIsMember ==
  ASSUME NEW S, S # {} PROVE Chosen(S) \in S
BY DEF Chosen

\* Two such functions agree where both are defined.
LEMMA SumsAgree ==
  ASSUME NEW S \in SUBSET Coins, NEW R \in SUBSET Coins, NEW f, NEW g,
         Sums(f, S), Sums(g, R), NEW T \in SUBSET S, T \in SUBSET R
  PROVE  f[T] = g[T]
<1> DEFINE B == {U \in SUBSET T : f[U] # g[U]}
<1>1. SUFFICES ASSUME B # {} PROVE FALSE
      OBVIOUS
<1>2. IsFiniteSet(T) /\ B \in SUBSET (SUBSET T)
      BY PaymentAssumption, FS_Subset
<1>3. PICK U \in B : \A V \in SUBSET U : V # U => V \notin B
  <2> HIDE DEF B
  <2>1. QED
        BY <1>1, <1>2, SmallestSubset
<1>4. CASE U = {}
      BY <1>4 DEF Sums
<1>5. CASE U # {}
  <2>1. Chosen(U) \in U /\ U \in SUBSET S /\ U \in SUBSET R
        BY <1>5, ChosenIsMember
  <2>2. f[U \ {Chosen(U)}] = g[U \ {Chosen(U)}]
        BY <1>3, <2>1
  <2>3. f[U] = CoinValue[Chosen(U)] + f[U \ {Chosen(U)}]
        BY <1>5, <2>1 DEF Sums
  <2>4. g[U] = CoinValue[Chosen(U)] + g[U \ {Chosen(U)}]
        BY <1>5, <2>1 DEF Sums
  <2>5. QED
        BY <2>2, <2>3, <2>4
<1>6. QED
      BY <1>4, <1>5

\* Where there is one, it gives the totals of all subsets.
LEMMA SumsAreTotals ==
  ASSUME NEW S \in SUBSET Coins, NEW f, Sums(f, S), NEW T \in SUBSET S
  PROVE  Total(T) = f[T]
<1> DEFINE g == [U \in SUBSET T |-> f[U]]
<1>1. Sums(g, T)
  <2>1. ASSUME NEW U \in SUBSET T
        PROVE  g[U] = IF U = {} THEN 0 ELSE CoinValue[Chosen(U)] + g[U \ {Chosen(U)}]
        BY DEF Sums
  <2>2. QED
        BY <2>1 DEF Sums
<1>2. PICK h : Sums(h, T) /\ Total(T) = h[T]
      BY <1>1, TotalUnfolds
<1>3. T \in SUBSET Coins /\ T \in SUBSET T
      OBVIOUS
<1>4. h[T] = f[T]
      BY <1>2, <1>3, SumsAgree
<1>5. QED
      BY <1>2, <1>4

\* There always is one.
LEMMA SumsExist ==
  ASSUME NEW S \in SUBSET Coins PROVE \E f : Sums(f, S)
<1> DEFINE B == {U \in SUBSET S : ~ \E f : Sums(f, U)}
<1>1. SUFFICES ASSUME B # {} PROVE FALSE
      BY S \in SUBSET S
<1>2. IsFiniteSet(S) /\ B \in SUBSET (SUBSET S)
      BY PaymentAssumption, FS_Subset
<1>3. PICK U \in B : \A V \in SUBSET U : V # U => V \notin B
  <2> HIDE DEF B
  <2>1. QED
        BY <1>1, <1>2, SmallestSubset
<1> DEFINE g == [T \in SUBSET U |->
                   IF T = {} THEN 0 ELSE CoinValue[Chosen(T)] + Total(T \ {Chosen(T)})]
<1>4. ASSUME NEW W \in SUBSET U, W # U PROVE g[W] = Total(W)
  <2>1. PICK f : Sums(f, W)
        BY <1>3, <1>4
  <2>2. W \in SUBSET Coins /\ W \in SUBSET W
        BY <1>3
  <2>3. Total(W) = f[W]
        BY <2>1, <2>2, SumsAreTotals
  <2>4. Total(W \ {Chosen(W)}) = f[W \ {Chosen(W)}]
        BY <2>1, <2>2, SumsAreTotals
  <2>5. f[W] = IF W = {} THEN 0 ELSE CoinValue[Chosen(W)] + f[W \ {Chosen(W)}]
        BY <2>1 DEF Sums
  <2>6. QED
        BY <2>3, <2>4, <2>5
<1>5. ASSUME NEW T \in SUBSET U
      PROVE  g[T] = IF T = {} THEN 0 ELSE CoinValue[Chosen(T)] + g[T \ {Chosen(T)}]
  <2>1. CASE T = {}
        BY <2>1
  <2>2. CASE T # {}
    <3>1. T \ {Chosen(T)} \in SUBSET U /\ T \ {Chosen(T)} # U
          BY <2>2, ChosenIsMember
    <3>2. g[T \ {Chosen(T)}] = Total(T \ {Chosen(T)})
          BY <1>4, <3>1
    <3>3. QED
          BY <2>2, <3>2
  <2>3. QED
        BY <2>1, <2>2
<1>6. Sums(g, U)
  <2> DEFINE rhs == [T \in SUBSET U |->
                IF T = {} THEN 0 ELSE CoinValue[Chosen(T)] + g[T \ {Chosen(T)}]]
  <2>1. \A T \in SUBSET U : g[T] = rhs[T]
        BY <1>5
  <2>2. g = rhs
        BY <2>1
  <2>3. QED
        BY <2>2 DEF Sums
<1>7. QED
      BY <1>3, <1>6

\* The equations of the total.
LEMMA TotalRecurs ==
  ASSUME NEW S \in SUBSET Coins
  PROVE  Total(S) = IF S = {} THEN 0 ELSE CoinValue[Chosen(S)] + Total(S \ {Chosen(S)})
<1>1. PICK f : Sums(f, S)
      BY SumsExist
<1>2. S \in SUBSET S /\ S \ {Chosen(S)} \in SUBSET S
      OBVIOUS
<1>3. Total(S) = f[S] /\ Total(S \ {Chosen(S)}) = f[S \ {Chosen(S)}]
      BY <1>1, <1>2, SumsAreTotals
<1>4. QED
      BY <1>1, <1>2, <1>3 DEF Sums

LEMMA TotalIsNat ==
  ASSUME NEW S \in SUBSET Coins PROVE Total(S) \in Nat
<1> DEFINE B == {U \in SUBSET S : Total(U) \notin Nat}
<1>1. SUFFICES ASSUME B # {} PROVE FALSE
      BY S \in SUBSET S
<1>2. IsFiniteSet(S) /\ B \in SUBSET (SUBSET S)
      BY PaymentAssumption, FS_Subset
<1>3. PICK U \in B : \A V \in SUBSET U : V # U => V \notin B
  <2> HIDE DEF B
  <2>1. QED
        BY <1>1, <1>2, SmallestSubset
<1>4. U \in SUBSET Coins /\ U \in SUBSET S
      OBVIOUS
<1>5. CASE U = {}
  <2>1. Total(U) = 0
        BY <1>4, <1>5, TotalRecurs, Zenon
  <2>2. QED
        BY <1>3, <2>1
<1>6. CASE U # {}
  <2>1. Chosen(U) \in U /\ CoinValue[Chosen(U)] \in Nat
        BY <1>4, <1>6, ChosenIsMember, PaymentAssumption
  <2>2. Total(U \ {Chosen(U)}) \in Nat
        BY <1>3, <1>4, <2>1
  <2>3. Total(U) = CoinValue[Chosen(U)] + Total(U \ {Chosen(U)})
        BY <1>4, <1>6, TotalRecurs
  <2>4. QED
        BY <1>3, <2>1, <2>2, <2>3
<1>7. QED
      BY <1>5, <1>6

\* Any coin of the set may be taken first.
LEMMA TotalOfRemoved ==
  ASSUME NEW S \in SUBSET Coins, NEW c \in S
  PROVE  Total(S) = CoinValue[c] + Total(S \ {c})
<1> DEFINE B == {U \in SUBSET S : \E x \in U : Total(U) # CoinValue[x] + Total(U \ {x})}
<1>1. SUFFICES ASSUME B # {} PROVE FALSE
      BY S \in SUBSET S
<1>2. IsFiniteSet(S) /\ B \in SUBSET (SUBSET S)
      BY PaymentAssumption, FS_Subset
<1>3. PICK U \in B : \A V \in SUBSET U : V # U => V \notin B
  <2> HIDE DEF B
  <2>1. QED
        BY <1>1, <1>2, SmallestSubset
<1>4. PICK x \in U : Total(U) # CoinValue[x] + Total(U \ {x})
      BY <1>3
<1>5. PICK y : y = Chosen(U)
      OBVIOUS
<1>6. U \in SUBSET Coins /\ U \in SUBSET S /\ y \in U
      BY <1>3, <1>4, <1>5, ChosenIsMember
<1>7. Total(U) = CoinValue[y] + Total(U \ {y})
      BY <1>4, <1>5, <1>6, TotalRecurs
<1>8. Total(U \ {y}) = CoinValue[x] + Total((U \ {y}) \ {x})
  <2>1. U \ {y} \in SUBSET U /\ U \ {y} # U /\ x \in U \ {y}
        BY <1>4, <1>6, <1>7
  <2>2. QED
        BY <1>3, <2>1
<1>9. Total(U \ {x}) = CoinValue[y] + Total((U \ {x}) \ {y})
  <2>1. U \ {x} \in SUBSET U /\ U \ {x} # U /\ y \in U \ {x}
        BY <1>4, <1>6, <1>7
  <2>2. QED
        BY <1>3, <2>1
<1>10. (U \ {x}) \ {y} = (U \ {y}) \ {x}
      OBVIOUS
<1>11. /\ CoinValue[x] \in Nat /\ CoinValue[y] \in Nat /\ Total((U \ {y}) \ {x}) \in Nat
      BY <1>4, <1>6, TotalIsNat, PaymentAssumption
<1>12. QED
      BY <1>4, <1>7, <1>8, <1>9, <1>10, <1>11

LEMMA TotalOfUnion ==
  ASSUME NEW S \in SUBSET Coins, NEW R \in SUBSET Coins, S \cap R = {}
  PROVE  Total(S \cup R) = Total(S) + Total(R)
<1> DEFINE B == {U \in SUBSET S : Total(U \cup R) # Total(U) + Total(R)}
<1>1. SUFFICES ASSUME B # {} PROVE FALSE
      BY S \in SUBSET S
<1>2. IsFiniteSet(S) /\ B \in SUBSET (SUBSET S)
      BY PaymentAssumption, FS_Subset
<1>3. PICK U \in B : \A V \in SUBSET U : V # U => V \notin B
  <2> HIDE DEF B
  <2>1. QED
        BY <1>1, <1>2, SmallestSubset
<1>4. U \in SUBSET S /\ Total(U \cup R) # Total(U) + Total(R)
      BY <1>3
<1>5. Total(U) \in Nat /\ Total(R) \in Nat
      BY <1>4, TotalIsNat
<1>6. CASE U = {}
  <2>1. Total(U) = 0
        BY <1>6, TotalRecurs, Zenon
  <2>2. U \cup R = R
        BY <1>6
  <2>3. QED
        BY <1>4, <1>5, <2>1, <2>2
<1>7. CASE U # {}
  <2>1. PICK x : x \in U
        BY <1>7
  <2>2. U \ {x} \in SUBSET U /\ U \ {x} # U /\ U \ {x} \in SUBSET S
        BY <1>4, <2>1
  <2>3. Total((U \ {x}) \cup R) = Total(U \ {x}) + Total(R)
        BY <1>3, <2>2
  <2>4. Total(U) = CoinValue[x] + Total(U \ {x})
        BY <1>4, <2>1, TotalOfRemoved
  <2>5. Total(U \cup R) = CoinValue[x] + Total((U \cup R) \ {x})
    <3>1. U \cup R \in SUBSET Coins /\ x \in U \cup R
          BY <1>4, <2>1
    <3>2. QED
          BY <3>1, TotalOfRemoved
  <2>6. (U \cup R) \ {x} = (U \ {x}) \cup R
        BY <1>4, <2>1
  <2>7. CoinValue[x] \in Nat /\ Total(U \ {x}) \in Nat
        BY <1>4, <2>1, TotalIsNat, PaymentAssumption
  <2>8. QED
        BY <1>4, <1>5, <2>3, <2>4, <2>5, <2>6, <2>7
<1>8. QED
      BY <1>6, <1>7

\* At least as many coins, none of a smaller value, are worth no less.
LEMMA MoreAndLarger ==
  ASSUME NEW A \in SUBSET Coins, NEW S \in SUBSET Coins, Cardinality(S) <= Cardinality(A),
         \A a \in A, c \in S : CoinValue[c] <= CoinValue[a]
  PROVE  Total(S) <= Total(A)
<1> DEFINE B == {U \in SUBSET S : \E W \in SUBSET A : /\ Cardinality(U) <= Cardinality(W)
                                                      /\ ~(Total(U) <= Total(W))}
<1>1. SUFFICES ASSUME B # {} PROVE FALSE
      BY S \in SUBSET S, A \in SUBSET A
<1>2. IsFiniteSet(S) /\ IsFiniteSet(A) /\ B \in SUBSET (SUBSET S)
      BY PaymentAssumption, FS_Subset
<1>3. PICK U \in B : \A V \in SUBSET U : V # U => V \notin B
  <2> HIDE DEF B
  <2>1. QED
        BY <1>1, <1>2, SmallestSubset
<1>4. PICK W \in SUBSET A : Cardinality(U) <= Cardinality(W) /\ ~(Total(U) <= Total(W))
      BY <1>3
<1>5. U \in SUBSET S /\ IsFiniteSet(U) /\ IsFiniteSet(W)
      BY <1>2, <1>3, <1>4, FS_Subset
<1>6. Total(U) \in Nat /\ Total(W) \in Nat
      BY <1>4, <1>5, TotalIsNat
<1>7. U # {}
  <2>1. SUFFICES ASSUME U = {} PROVE FALSE
        OBVIOUS
  <2>2. Total(U) = 0
        BY <2>1, TotalRecurs, Zenon
  <2>3. QED
        BY <1>4, <1>6, <2>2
<1>8. Cardinality(U) \in Nat /\ Cardinality(U) # 0 /\ Cardinality(W) \in Nat
      BY <1>5, <1>7, FS_CardinalityType, FS_EmptySet
<1>9. W # {}
      BY <1>4, <1>8, FS_EmptySet
<1>10. PICK c \in U, a \in W : TRUE
      BY <1>7, <1>9
<1>11. /\ Total(U) = CoinValue[c] + Total(U \ {c})
       /\ Total(W) = CoinValue[a] + Total(W \ {a})
      BY <1>4, <1>5, <1>10, TotalOfRemoved
<1>12. Total(U \ {c}) <= Total(W \ {a})
  <2>1. /\ Cardinality(U \ {c}) = Cardinality(U) - 1
        /\ Cardinality(W \ {a}) = Cardinality(W) - 1
        BY <1>5, <1>10, FS_RemoveElement
  <2>2. U \ {c} \in SUBSET U /\ U \ {c} # U /\ U \ {c} \in SUBSET S /\ W \ {a} \in SUBSET A
        BY <1>4, <1>5, <1>10
  <2>3. U \ {c} \notin B
        BY <1>3, <2>2
  <2>4. Cardinality(U \ {c}) <= Cardinality(W \ {a})
        BY <1>4, <1>8, <2>1
  <2>5. QED
        BY <2>2, <2>3, <2>4
<1>13. CoinValue[c] <= CoinValue[a] /\ CoinValue[c] \in Nat /\ CoinValue[a] \in Nat
      BY <1>4, <1>5, <1>10, PaymentAssumption
<1>14. Total(U \ {c}) \in Nat /\ Total(W \ {a}) \in Nat
      BY <1>4, <1>5, TotalIsNat
<1>15. QED
      BY <1>4, <1>11, <1>12, <1>13, <1>14

-----------------------------------------------------------------------------
(* The selection.                                                           *)

LEMMA PrecedesIsTotal ==
  ASSUME NEW c \in Coins, NEW d \in Coins, NEW e \in Coins
  PROVE  /\ c # d => Precedes(c, d) \/ Precedes(d, c)
         /\ Precedes(c, d) /\ Precedes(d, e) => Precedes(c, e)
         /\ ~Precedes(c, c)
         /\ Precedes(c, d) => CoinValue[d] <= CoinValue[c]
         /\ ~Precedes(c, d) => CoinValue[c] <= CoinValue[d]
<1>1. /\ c \in Nat /\ d \in Nat /\ e \in Nat
      /\ CoinValue[c] \in Nat /\ CoinValue[d] \in Nat /\ CoinValue[e] \in Nat
      BY PaymentAssumption
<1>2. QED
      BY <1>1 DEF Precedes

\* A set of coins has one that all others precede.
LEMMA LastCoin ==
  ASSUME NEW S \in SUBSET Coins, S # {}
  PROVE  \E m \in S : \A c \in S \ {m} : Precedes(c, m)
<1> DEFINE B == {U \in SUBSET S : /\ U # {}
                                  /\ ~ \E m \in U : \A c \in U \ {m} : Precedes(c, m)}
<1>1. SUFFICES ASSUME B # {} PROVE FALSE
      BY S \in SUBSET S
<1>2. IsFiniteSet(S) /\ B \in SUBSET (SUBSET S)
      BY PaymentAssumption, FS_Subset
<1>3. PICK U \in B : \A V \in SUBSET U : V # U => V \notin B
  <2> HIDE DEF B
  <2>1. QED
        BY <1>1, <1>2, SmallestSubset
<1>4. PICK x : x \in U
      BY <1>3
<1>5. U \in SUBSET Coins /\ U \ {x} \in SUBSET S
      BY <1>3
<1>6. U \ {x} # {}
  <2>1. SUFFICES ASSUME U \ {x} = {} PROVE \E m \in U : \A c \in U \ {m} : Precedes(c, m)
        BY <1>3
  <2>2. QED
        BY <1>4, <2>1
<1>7. U \ {x} \in SUBSET U /\ U \ {x} # U
      BY <1>4
<1>8. PICK m \in U \ {x} : \A c \in (U \ {x}) \ {m} : Precedes(c, m)
      BY <1>3, <1>5, <1>6, <1>7
<1>9. CASE Precedes(x, m)
  <2>1. \A c \in U \ {m} : Precedes(c, m)
        BY <1>8, <1>9
  <2>2. QED
        BY <1>3, <1>8, <2>1
<1>10. CASE ~Precedes(x, m)
  <2>1. Precedes(m, x)
        BY <1>4, <1>5, <1>8, <1>10, PrecedesIsTotal
  <2>2. \A c \in U \ {x} : Precedes(c, x)
        BY <1>4, <1>5, <1>8, <2>1, PrecedesIsTotal
  <2>3. QED
        BY <1>3, <1>4, <2>2
<1>11. QED
      BY <1>9, <1>10

\* Coins that precede all other listed ones are worth no less than as many
\* others.
LEMMA FirstOnesAreWorthMost ==
  ASSUME NEW listed \in SUBSET Coins, NEW A \in SUBSET listed, NEW S \in SUBSET listed,
         Cardinality(S) <= Cardinality(A),
         \A a \in A, c \in listed \ A : CoinValue[c] <= CoinValue[a]
  PROVE  Total(S) <= Total(A)
<1>1. IsFiniteSet(A) /\ IsFiniteSet(S)
      BY PaymentAssumption, FS_Subset
<1>2. /\ A = (A \ S) \cup (A \cap S) /\ S = (S \ A) \cup (A \cap S)
      /\ (A \ S) \cap (A \cap S) = {} /\ (S \ A) \cap (A \cap S) = {}
      OBVIOUS
<1>3. /\ A \ S \in SUBSET Coins /\ S \ A \in SUBSET Coins /\ A \cap S \in SUBSET Coins
      OBVIOUS
<1>4. Cardinality(S \ A) <= Cardinality(A \ S)
  <2>1. /\ Cardinality(A \ S) = Cardinality(A) - Cardinality(A \cap S)
        /\ Cardinality(S \ A) = Cardinality(S) - Cardinality(S \cap A)
        BY <1>1, FS_Difference
  <2>2. S \cap A = A \cap S
        OBVIOUS
  <2>3. /\ Cardinality(A) \in Nat /\ Cardinality(S) \in Nat /\ Cardinality(A \cap S) \in Nat
        BY <1>1, FS_CardinalityType, FS_Intersection
  <2>4. QED
        BY <2>1, <2>2, <2>3
<1>5. Total(S \ A) <= Total(A \ S)
      BY <1>3, <1>4, MoreAndLarger
<1>6. /\ Total(A) = Total(A \ S) + Total(A \cap S)
      /\ Total(S) = Total(S \ A) + Total(A \cap S)
      BY <1>2, <1>3, TotalOfUnion
<1>7. /\ Total(A \ S) \in Nat /\ Total(S \ A) \in Nat /\ Total(A \cap S) \in Nat
      BY <1>3, TotalIsNat
<1>8. QED
      BY <1>5, <1>6, <1>7

\* No fewer of the listed coins hold the target than those selected for it.
LEMMA LargestFirstIsBest ==
  ASSUME NEW listed \in SUBSET Coins, NEW target \in Int,
         NEW S \in SUBSET listed, Total(S) >= target
  PROVE  Cardinality(S) >= Cardinality(Select(listed, target))
<1> DEFINE selected == Select(listed, target)
<1>1. selected \in SUBSET listed
      BY DEF Select
<1>2. /\ IsFiniteSet(S) /\ IsFiniteSet(selected)
      /\ Cardinality(S) \in Nat /\ Cardinality(selected) \in Nat
      BY <1>1, PaymentAssumption, FS_Subset, FS_CardinalityType
<1> HIDE DEF selected
<1>3. SUFFICES ASSUME Cardinality(S) < Cardinality(selected) PROVE FALSE
      BY <1>2 DEF selected
<1>4. selected # {}
      BY <1>2, <1>3, FS_EmptySet
<1>5. PICK m \in selected : \A c \in selected \ {m} : Precedes(c, m)
  <2>1. selected \in SUBSET Coins
        BY <1>1
  <2>2. QED
        BY <1>4, <2>1, LastCoin
<1> DEFINE A == {d \in listed : Precedes(d, m)}
<1>6. Total(A) < target
      BY <1>5 DEF selected, Select
<1>7. selected \ {m} \in SUBSET A /\ IsFiniteSet(A)
      BY <1>1, <1>5, PaymentAssumption, FS_Subset
<1>8. Cardinality(S) <= Cardinality(A)
  <2>1. Cardinality(selected \ {m}) = Cardinality(selected) - 1
        BY <1>2, <1>5, FS_RemoveElement
  <2>2. Cardinality(selected \ {m}) <= Cardinality(A) /\ Cardinality(A) \in Nat
        BY <1>7, FS_Subset, FS_CardinalityType
  <2>3. QED
        BY <1>2, <1>3, <2>1, <2>2
<1>9. ASSUME NEW a \in A, NEW c \in listed \ A PROVE CoinValue[c] <= CoinValue[a]
  <2>1. /\ m \in Coins /\ a \in Coins /\ c \in Coins
        /\ Precedes(a, m) /\ ~Precedes(c, m)
        BY <1>1, <1>5, <1>9
  <2>2. CoinValue[m] <= CoinValue[a] /\ CoinValue[c] <= CoinValue[m]
        BY <2>1, PrecedesIsTotal
  <2>3. CoinValue[m] \in Nat /\ CoinValue[a] \in Nat /\ CoinValue[c] \in Nat
        BY <2>1, PaymentAssumption
  <2>4. QED
        BY <2>2, <2>3
<1>10. A \in SUBSET listed
      OBVIOUS
<1> HIDE DEF A
<1>11. Total(S) <= Total(A)
      BY <1>8, <1>9, <1>10, FirstOnesAreWorthMost
<1>12. Total(S) \in Nat /\ Total(A) \in Nat
      BY <1>10, TotalIsNat
<1>13. QED
      BY <1>6, <1>11, <1>12

-----------------------------------------------------------------------------
(* The payment.                                                             *)

\* What the handler built, from what it had listed.
TxInv ==
  \A t \in tx :
    /\ t \in TxRecord
    /\ t.fee = t.rate * EstimateVbytes(Cardinality(t.listed), 2)
    /\ t.inputs = Select(t.listed, t.payout + t.fee)
    /\ Total(t.inputs) >= t.payout + t.fee
    /\ t.change = Total(t.inputs) - t.payout - t.fee

\* Inductive.
IInv == TypeOK /\ TxInv

LEMMA EstimateIsNat ==
  ASSUME NEW listed \in SUBSET Coins
  PROVE  /\ Cardinality(listed) \in Nat
         /\ EstimateVbytes(Cardinality(listed), 2) = 77 + 64 * Cardinality(listed)
         /\ EstimateVbytes(Cardinality(listed), 2) \in Nat
<1>1. Cardinality(listed) \in Nat
      BY PaymentAssumption, FS_Subset, FS_CardinalityType
<1>2. QED
      BY <1>1 DEF EstimateVbytes

LEMMA ProductGrows ==
  ASSUME NEW r \in Nat, NEW a \in Nat, NEW b \in Nat, a <= b
  PROVE  r * a \in Nat /\ r * b \in Nat /\ r * a <= r * b
OBVIOUS

LEMMA InitIInv == Init => IInv
BY DEF Init, IInv, TypeOK, TxInv, IdlePay, PayPcs

LEMMA IInvStep ==
  ASSUME IInv, [Next]_vars PROVE IInv'
<1> USE DEF IInv, TypeOK, PayPcs
<1>1. ASSUME NEW amount \in Payouts, NEW size \in OutputSizes, Start(amount, size)
      PROVE  IInv'
  <2>1. amount \in Nat /\ size \in Nat
        BY PaymentAssumption
  <2>2. QED
        BY <1>1, <2>1 DEF Start, TxInv, IdlePay
<1>2. CASE Fail
      BY <1>2 DEF Fail, TxInv, IdlePay
<1>3. CASE Fetch
      BY <1>3 DEF Fetch, TxInv, IdlePay
<1>4. ASSUME NEW rate \in Rates, FetchRate(rate) PROVE IInv'
  <2>1. rate \in Nat
        BY PaymentAssumption
  <2>2. QED
        BY <1>4, <2>1 DEF FetchRate, TxInv
<1>5. CASE Build
  <2> DEFINE fee      == pay.rate * EstimateVbytes(Cardinality(pay.listed), 2)
             selected == Select(pay.listed, pay.payout + fee)
             built    == Built(selected, fee)
  <2>1. /\ pay.listed \in SUBSET Coins /\ pay.payout \in Nat /\ pay.rate \in Nat
        /\ pay.size \in Nat
        OBVIOUS
  <2>2. fee \in Nat
        BY <2>1, EstimateIsNat, ProductGrows
  <2>3. selected \in SUBSET Coins /\ Total(selected) \in Nat
    <3>1. selected \in SUBSET Coins
          BY <2>1 DEF Select
    <3>2. QED
          BY <3>1, TotalIsNat
  <2>4. CASE Total(selected) >= pay.payout + fee
    <3>1. tx' = {built} /\ pay' = [pay EXCEPT !.pc = "broadcast"] /\ coin' = coin
          BY <1>5, <2>4 DEF Build
    <3> HIDE DEF fee, selected
    <3>2. /\ built \in TxRecord /\ built.fee = fee /\ built.inputs = selected
          /\ built.payout = pay.payout /\ built.listed = pay.listed /\ built.rate = pay.rate
          /\ built.change = Total(selected) - pay.payout - fee
          BY <2>1, <2>2, <2>3 DEF Built, TxRecord
    <3>3. /\ built.fee = built.rate * EstimateVbytes(Cardinality(built.listed), 2)
          /\ built.inputs = Select(built.listed, built.payout + built.fee)
          /\ Total(built.inputs) >= built.payout + built.fee
          BY <2>4, <3>2 DEF fee, selected
    <3> HIDE DEF built
    <3>4. TxInv'
          BY <3>1, <3>2, <3>3 DEF TxInv
    <3>5. TypeOK'
          BY <3>1, <3>2
    <3>6. QED
          BY <3>4, <3>5
  <2>5. CASE ~(Total(selected) >= pay.payout + fee)
    <3>1. UNCHANGED tx /\ pay' = IdlePay /\ coin' = coin
          BY <1>5, <2>5 DEF Build
    <3>2. QED
          BY <3>1 DEF TxInv, IdlePay
  <2>6. QED
        BY <2>4, <2>5
<1>6. CASE Broadcast
      BY <1>6 DEF Broadcast, TxInv, IdlePay
<1>7. CASE BroadcastFails
      BY <1>7 DEF BroadcastFails, TxInv, IdlePay
<1>8. ASSUME NEW c \in Coins, CoinStep(c) PROVE IInv'
      BY <1>8 DEF CoinStep, TxInv
<1>9. CASE UNCHANGED vars
      BY <1>9 DEF vars, TxInv
<1>10. QED
      BY <1>1, <1>2, <1>3, <1>4, <1>5, <1>6, <1>7, <1>8, <1>9 DEF Next

LEMMA Invariant == Spec => []IInv
BY InitIInv, IInvStep, PTL DEF Spec

\* The types of the payment hold, of which the sum in the change is the part
\* that is not plain.
THEOREM TypeCorrect == Spec => []TypeOK
<1>1. IInv => TypeOK
      BY DEF IInv
<1>2. QED
      BY <1>1, Invariant, PTL

\* The transactions of send_btc_to_user balance, for any coins and amounts: the
\* subtraction of build_unsigned_tx cannot wrap.
THEOREM PaymentsBalance == Spec => []Balanced
<1>1. IInv => Balanced
  <2>1. SUFFICES ASSUME IInv, NEW t \in tx
                 PROVE  t.change >= 0 /\ Total(t.inputs) = t.payout + t.change + t.fee
        BY DEF Balanced
  <2>2. /\ t \in TxRecord /\ Total(t.inputs) >= t.payout + t.fee
        /\ t.change = Total(t.inputs) - t.payout - t.fee
        BY <2>1 DEF IInv, TxInv
  <2>3. t.payout \in Nat /\ t.fee \in Nat /\ t.inputs \in SUBSET Coins
        BY <2>2 DEF TxRecord
  <2>4. Total(t.inputs) \in Nat
        BY <2>3, TotalIsNat
  <2>5. QED
        BY <2>2, <2>3, <2>4
<1>2. QED
      BY <1>1, Invariant, PTL

\* No choice among the listed coins needs fewer of them than select_utxos takes.
THEOREM InputsAreFewest == Spec => []FewestInputs
<1>1. IInv => FewestInputs
  <2>1. SUFFICES ASSUME IInv, NEW t \in tx, NEW S \in SUBSET t.listed,
                        Total(S) >= t.payout + t.fee
                 PROVE  Cardinality(S) >= Cardinality(t.inputs)
        BY DEF FewestInputs
  <2>2. t \in TxRecord /\ t.inputs = Select(t.listed, t.payout + t.fee)
        BY <2>1 DEF IInv, TxInv
  <2>3. t.listed \in SUBSET Coins /\ t.payout + t.fee \in Int
        BY <2>2 DEF TxRecord
  <2>4. QED
        BY <2>1, <2>2, <2>3, LargestFirstIsBest
<1>2. QED
      BY <1>1, Invariant, PTL

\* What the estimate of estimate_tx_vbytes leaves out, n coins listed and i used.
LEMMA EstimateFallsShort ==
  ASSUME NEW i \in Nat, NEW n \in Nat, NEW o \in {1, 2}, NEW r \in Nat, NEW s \in Nat,
         NEW b \in Nat, s <= 34 + b, i <= n
  PROVE  r * (77 + 64 * n) + r * (4 * i + 2 + o * b) >= r * Vsize(i, o, s)
<1>1. /\ Vsize(i, o, s) \in Nat /\ o * b \in Nat
      /\ Vsize(i, o, s) <= (77 + 64 * n) + (4 * i + 2 + o * b)
  <2>1. CASE o = 1
        BY <2>1 DEF Vsize
  <2>2. CASE o = 2
        BY <2>2 DEF Vsize
  <2>3. QED
        BY <2>1, <2>2
<1>2. PICK x \in Nat : x = 77 + 64 * n
      OBVIOUS
<1>3. PICK y \in Nat : y = 4 * i + 2 + o * b
      BY <1>1
<1>4. r * Vsize(i, o, s) <= r * (x + y) /\ r * Vsize(i, o, s) \in Nat
      BY <1>1, <1>2, <1>3, ProductGrows
<1>5. r * (x + y) = r * x + r * y
      OBVIOUS
<1>6. r * x \in Nat /\ r * y \in Nat
      BY ProductGrows
<1>7. QED
      BY <1>2, <1>3, <1>4, <1>5, <1>6

\* The estimate of estimate_tx_vbytes, taken over every coin listed, is short by
\* sequence numbers, header and long outputs at most, for any coins and address.
THEOREM FeeNearlyEnough == Spec => []FeeIsNearlyEnough
<1>1. IInv => FeeIsNearlyEnough
  <2>1. SUFFICES ASSUME IInv, NEW t \in tx,
                        NEW o \in {1, 2}, o = (IF t.change > 0 THEN 2 ELSE 1),
                        NEW b, b = (IF t.size > 34 THEN t.size - 34 ELSE 0)
                 PROVE  t.fee + t.rate * (4 * Cardinality(t.inputs) + 2 + o * b)
                          >= t.rate * Vsize(Cardinality(t.inputs), o, t.size)
        BY DEF FeeIsNearlyEnough
  <2>2. /\ t \in TxRecord /\ t.fee = t.rate * EstimateVbytes(Cardinality(t.listed), 2)
        /\ t.inputs = Select(t.listed, t.payout + t.fee)
        BY <2>1 DEF IInv, TxInv
  <2>3. /\ t.listed \in SUBSET Coins /\ t.inputs \in SUBSET t.listed /\ t.rate \in Nat
        /\ t.size \in Nat
        BY <2>2 DEF TxRecord, Select
  <2>4. /\ Cardinality(t.listed) \in Nat /\ Cardinality(t.inputs) \in Nat
        /\ t.fee = t.rate * (77 + 64 * Cardinality(t.listed))
        BY <2>2, <2>3, EstimateIsNat
  <2>5. Cardinality(t.inputs) <= Cardinality(t.listed)
        BY <2>3, PaymentAssumption, FS_Subset
  <2>6. b \in Nat /\ t.size <= 34 + b
        BY <2>1, <2>3
  <2>7. PICK i \in Nat, n \in Nat : i = Cardinality(t.inputs) /\ n = Cardinality(t.listed)
        BY <2>4
  <2>8. PICK r \in Nat, s \in Nat : r = t.rate /\ s = t.size
        BY <2>3
  <2>9. r * (77 + 64 * n) + r * (4 * i + 2 + o * b) >= r * Vsize(i, o, s)
    <3>1. i <= n /\ b \in Nat /\ s <= 34 + b
          BY <2>5, <2>6, <2>7, <2>8
    <3>2. QED
          BY <3>1, EstimateFallsShort, Zenon
  <2>10. QED
        BY <2>4, <2>7, <2>8, <2>9
<1>2. QED
      BY <1>1, Invariant, PTL
=============================================================================
