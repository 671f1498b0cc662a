----------------------------- MODULE Sums_proofs -----------------------------
(* Facts about finite sets and about the sums of module Sums, for every      *)
(* function and every finite set.                                          *)
EXTENDS Sums, FiniteSetTheorems, WellFoundedInduction, TLAPS

-----------------------------------------------------------------------------

(* Induction over finite sets: of the sets of which something is not true    *)
(* there is a smallest one.                                                *)

LEMMA SubsetMinimal ==
  ASSUME NEW S, IsFiniteSet(S), NEW T \in SUBSET SUBSET S, T # {}
  PROVE  \E M \in T : \A U \in T : U \subseteq M => U = M
<1>1. IsWellFoundedOn(StrictSubsetOrdering(S), SUBSET S)
  BY FS_StrictSubsetOrderingWellFounded, FS_FiniteSubsetsOfFinite, Zenon
<1>2. PICK M \in T : \A U \in T : ~(<<U, M>> \in StrictSubsetOrdering(S))
  BY <1>1, WFMin, Zenon
<1>3. QED
  BY <1>2, Zenon DEF StrictSubsetOrdering

LEMMA NatMinimal ==
  ASSUME NEW T \in SUBSET Nat, T # {}
  PROVE  Min(T) \in T /\ \A n \in T : Min(T) <= n
<1>1. PICK m \in T : \A n \in T : ~(<<n, m>> \in OpToRel(<, Nat))
  BY NatLessThanWellFounded, WFMin, Zenon
<1>2. \A n \in T : ~(n < m)
  BY <1>1, Zenon DEF OpToRel
<1>3. \E x \in T : \A y \in T : x =< y
  BY <1>2
<1>4. QED
  BY <1>3 DEF Min

LEMMA ImageFinite ==
  ASSUME NEW S, IsFiniteSet(S), NEW h
  PROVE  IsFiniteSet({h[x] : x \in S})
<1> DEFINE T == {h[x] : x \in S}
           f == [x \in S |-> h[x]]
<1>1. f \in Surjection(S, T)
  BY DEF Surjection
<1> QED BY <1>1, FS_Surjection

\* a function to integers takes its greatest and its least value on a finite set
LEMMA GreatestValue ==
  ASSUME NEW S, IsFiniteSet(S), S # {}, NEW f, \A x \in S : f[x] \in Int
  PROVE  \E m \in S : \A x \in S : f[x] <= f[m]
<1> DEFINE Bad == {s \in SUBSET S : s # {} /\ ~ \E m \in s : \A x \in s : f[x] <= f[m]}
<1>1. SUFFICES ASSUME Bad # {} PROVE FALSE
  OBVIOUS
<1>2. PICK M \in Bad : \A U \in Bad : U \subseteq M => U = M
  <2>1. Bad \in SUBSET SUBSET S
    OBVIOUS
  <2> HIDE DEF Bad
  <2> QED BY <1>1, <2>1, SubsetMinimal
<1>3. M \subseteq S /\ M # {} /\ ~ \E m \in M : \A x \in M : f[x] <= f[m]
  BY <1>2
<1>4. PICK p \in M : TRUE
  BY <1>3
<1>5. CASE M = {p}
  BY <1>3, <1>5
<1>6. CASE M # {p}
  <2>1. M \ {p} \in SUBSET S /\ M \ {p} # {} /\ M \ {p} \notin Bad
    BY <1>2, <1>3, <1>4, <1>6
  <2>2. PICK m \in M \ {p} : \A x \in M \ {p} : f[x] <= f[m]
    BY <2>1
  <2>3. CASE f[p] <= f[m]
    BY <1>3, <2>2, <2>3
  <2>4. CASE ~(f[p] <= f[m])
    <3>1. \A x \in M : f[x] <= f[p]
      BY <1>3, <1>4, <2>2, <2>4
    <3> QED BY <1>3, <3>1
  <2> QED BY <2>3, <2>4
<1> QED BY <1>5, <1>6

LEMMA LeastValue ==
  ASSUME NEW S, IsFiniteSet(S), S # {}, NEW f, \A x \in S : f[x] \in Int
  PROVE  \E m \in S : \A x \in S : f[m] <= f[x]
<1> DEFINE g == [x \in S |-> -f[x]]
<1>1. \A x \in S : g[x] \in Int
  OBVIOUS
<1>2. PICK m \in S : \A x \in S : g[x] <= g[m]
  <2> HIDE DEF g
  <2> QED BY <1>1, GreatestValue
<1>3. \A x \in S : f[m] <= f[x]
  BY <1>2
<1> QED BY <1>3

-----------------------------------------------------------------------------
(* The sum exists: Total unfolds as its definition says.                   *)

PickOf(s) == CHOOSE x \in s : TRUE

Unfolds(g, f, S) ==
  g = [s \in SUBSET S |-> IF s = {} THEN 0 ELSE f[PickOf(s)] + g[s \ {PickOf(s)}]]

Unfolding(f, S) == CHOOSE g : Unfolds(g, f, S)

LEMMA TotalUnfolding == \A f, S : Total(f, S) = Unfolding(f, S)[S]
  BY DEF Total, MapThenSumSet, MapThenFoldSet, Unfolding, Unfolds, PickOf

LEMMA PickMember == \A s : s # {} => PickOf(s) \in s
  BY DEF PickOf

LEMMA UnfoldsOnce ==
  ASSUME NEW g, NEW f, NEW S, Unfolds(g, f, S), NEW s \in SUBSET S
  PROVE  g[s] = IF s = {} THEN 0 ELSE f[PickOf(s)] + g[s \ {PickOf(s)}]
  BY Zenon DEF Unfolds

LEMMA UnfoldingUnique ==
  ASSUME NEW f, NEW S, NEW T, NEW g, NEW h, Unfolds(g, f, S), Unfolds(h, f, T),
         NEW W, IsFiniteSet(W), W \subseteq S, W \subseteq T
  PROVE  g[W] = h[W]
<1> DEFINE Bad == {s \in SUBSET W : g[s] # h[s]}
<1>1. SUFFICES ASSUME Bad # {} PROVE FALSE
  OBVIOUS
<1>2. PICK M \in Bad : \A U \in Bad : U \subseteq M => U = M
  <2>1. Bad \in SUBSET SUBSET W
    OBVIOUS
  <2> HIDE DEF Bad
  <2> QED BY <1>1, <2>1, SubsetMinimal
<1>3. M \in SUBSET S /\ M \in SUBSET T /\ g[M] # h[M] /\ M \in SUBSET W
  BY <1>2
<1>4. CASE M = {}
  BY <1>3, <1>4, UnfoldsOnce
<1>5. CASE M # {}
  <2> DEFINE R == M \ {PickOf(M)}
  <2>1. R \in SUBSET W /\ R \subseteq M /\ R # M
    BY <1>3, <1>5, PickMember
  <2>2. R \notin Bad
    BY <2>1, <1>2
  <2>3. g[R] = h[R]
    BY <2>1, <2>2
  <2>4. g[M] = f[PickOf(M)] + g[R]
    BY <1>3, <1>5, UnfoldsOnce
  <2>5. h[M] = f[PickOf(M)] + h[R]
    BY <1>3, <1>5, UnfoldsOnce
  <2> QED BY <2>3, <2>4, <2>5, <1>3
<1> QED BY <1>4, <1>5

LEMMA UnfoldingExists ==
  ASSUME NEW f, NEW S, IsFiniteSet(S)
  PROVE  Unfolds(Unfolding(f, S), f, S)
<1> DEFINE Bad == {s \in SUBSET S : ~ Unfolds(Unfolding(f, s), f, s)}
<1>1. SUFFICES ASSUME Bad # {} PROVE FALSE
  OBVIOUS
<1>2. PICK M \in Bad : \A U \in Bad : U \subseteq M => U = M
  <2>1. Bad \in SUBSET SUBSET S
    OBVIOUS
  <2> HIDE DEF Bad
  <2> QED BY <1>1, <2>1, SubsetMinimal
<1>3. \A U \in SUBSET M : U # M => Unfolds(Unfolding(f, U), f, U)
  BY <1>2
<1>4. \A U \in SUBSET M : IsFiniteSet(U)
  BY FS_Subset, <1>2
<1> DEFINE val(s) == IF s = {} THEN 0
                     ELSE f[PickOf(s)] + Unfolding(f, s \ {PickOf(s)})[s \ {PickOf(s)}]
           g == [s \in SUBSET M |-> val(s)]
<1>5. \A s \in SUBSET M : s # M => Unfolding(f, s)[s] = val(s)
  <2> TAKE s \in SUBSET M
  <2> HAVE s # M
  <2> DEFINE r == s \ {PickOf(s)}
  <2>1. CASE s = {}
    BY <2>1, <1>3, UnfoldsOnce
  <2>2. CASE s # {}
    <3>1. PickOf(s) \in s /\ r \in SUBSET M /\ r # M /\ r \subseteq s
      BY <2>2, PickMember
    <3>2. Unfolding(f, s)[r] = Unfolding(f, r)[r]
      <4>1. Unfolds(Unfolding(f, s), f, s) /\ Unfolds(Unfolding(f, r), f, r)
        BY <1>3, <3>1
      <4>2. IsFiniteSet(r)
        BY <3>1, <1>4
      <4> QED BY <4>1, <4>2, <3>1, UnfoldingUnique
    <3>3. Unfolding(f, s)[s] = f[PickOf(s)] + Unfolding(f, s)[r]
      BY <1>3, <2>2, UnfoldsOnce
    <3> QED BY <3>2, <3>3, <2>2
  <2> QED BY <2>1, <2>2
<1>6. Unfolds(g, f, M)
  <2>1. \A s \in SUBSET M : s # {} => g[s \ {PickOf(s)}] = Unfolding(f, s \ {PickOf(s)})[s \ {PickOf(s)}]
    <3> TAKE s \in SUBSET M
    <3> HAVE s # {}
    <3> DEFINE r == s \ {PickOf(s)}
    <3>1. r \in SUBSET M /\ r # M
      BY PickMember
    <3>2. g[r] = val(r)
      BY <3>1
    <3> QED BY <3>1, <3>2, <1>5
  <2>2. \A s \in SUBSET M : val(s) = IF s = {} THEN 0 ELSE f[PickOf(s)] + g[s \ {PickOf(s)}]
    BY <2>1
  <2> HIDE DEF val
  <2> QED BY <2>2 DEF Unfolds
<1>7. Unfolds(Unfolding(f, M), f, M)
  <2> HIDE DEF g
  <2> QED BY <1>6, Zenon DEF Unfolding
<1> QED BY <1>2, <1>7

LEMMA TotalEmpty == \A f : Total(f, {}) = 0
<1> TAKE f
<1>1. IsFiniteSet({})
  BY FS_EmptySet
<1>2. Unfolding(f, {})[{}] = 0
  BY <1>1, UnfoldingExists, UnfoldsOnce
<1> QED BY <1>2, TotalUnfolding

LEMMA TotalPick ==
  ASSUME NEW f, NEW S, IsFiniteSet(S), S # {}
  PROVE  Total(f, S) = f[PickOf(S)] + Total(f, S \ {PickOf(S)})
<1> DEFINE r == S \ {PickOf(S)}
<1>1. IsFiniteSet(r)
  BY FS_Subset
<1>2. Unfolds(Unfolding(f, S), f, S) /\ Unfolds(Unfolding(f, r), f, r)
  BY <1>1, UnfoldingExists
<1>3. Unfolding(f, S)[S] = f[PickOf(S)] + Unfolding(f, S)[r]
  BY <1>2, UnfoldsOnce
<1>4. Unfolding(f, S)[r] = Unfolding(f, r)[r]
  BY <1>1, <1>2, UnfoldingUnique
<1> QED BY <1>3, <1>4, TotalUnfolding

LEMMA TotalInt ==
  ASSUME NEW f, NEW S, IsFiniteSet(S), \A x \in S : f[x] \in Int
  PROVE  Total(f, S) \in Int
<1> DEFINE Bad == {s \in SUBSET S : Total(f, s) \notin Int}
<1>1. SUFFICES ASSUME Bad # {} PROVE FALSE
  OBVIOUS
<1>2. PICK M \in Bad : \A U \in Bad : U \subseteq M => U = M
  <2>1. Bad \in SUBSET SUBSET S
    OBVIOUS
  <2> HIDE DEF Bad
  <2> QED BY <1>1, <2>1, SubsetMinimal
<1>3. M \subseteq S /\ IsFiniteSet(M) /\ Total(f, M) \notin Int
  BY FS_Subset
<1>4. CASE M = {}
  BY <1>3, <1>4, TotalEmpty
<1>5. CASE M # {}
  <2>1. Total(f, M) = f[PickOf(M)] + Total(f, M \ {PickOf(M)})
    BY <1>3, <1>5, TotalPick
  <2>2. PickOf(M) \in M
    BY <1>5, PickMember
  <2>3. Total(f, M \ {PickOf(M)}) \in Int
    BY <1>2, <1>3, <2>2
  <2> QED BY <1>3, <2>1, <2>2, <2>3
<1> QED BY <1>4, <1>5

LEMMA TotalRemove ==
  ASSUME NEW f, NEW S, IsFiniteSet(S), \A x \in S : f[x] \in Int, NEW y \in S
  PROVE  Total(f, S) = f[y] + Total(f, S \ {y})
<1> DEFINE Bad == {s \in SUBSET S : \E x \in s : Total(f, s) # f[x] + Total(f, s \ {x})}
<1>1. SUFFICES ASSUME Bad # {} PROVE FALSE
  OBVIOUS
<1>2. PICK M \in Bad : \A U \in Bad : U \subseteq M => U = M
  <2>1. Bad \in SUBSET SUBSET S
    OBVIOUS
  <2> HIDE DEF Bad
  <2> QED BY <1>1, <2>1, SubsetMinimal
<1>3. PICK x \in M : Total(f, M) # f[x] + Total(f, M \ {x})
  BY <1>2
<1> DEFINE p == PickOf(M)
<1>4. M \subseteq S /\ IsFiniteSet(M) /\ p \in M
  BY FS_Subset, PickMember
<1>5. Total(f, M) = f[p] + Total(f, M \ {p})
  BY <1>3, <1>4, TotalPick
<1>6. x # p
  BY <1>3, <1>5
<1>7. Total(f, M \ {p}) = f[x] + Total(f, (M \ {p}) \ {x})
  <2>1. M \ {p} \in SUBSET S /\ M \ {p} \notin Bad /\ x \in M \ {p}
    BY <1>2, <1>4, <1>6
  <2> QED BY <2>1
<1>8. Total(f, M \ {x}) = f[p] + Total(f, (M \ {x}) \ {p})
  <2>1. M \ {x} \in SUBSET S /\ M \ {x} \notin Bad /\ p \in M \ {x}
    BY <1>2, <1>4, <1>6
  <2> QED BY <2>1
<1>9. (M \ {x}) \ {p} = (M \ {p}) \ {x}
  OBVIOUS
<1>10. Total(f, (M \ {p}) \ {x}) \in Int /\ f[p] \in Int /\ f[x] \in Int
  <2>1. IsFiniteSet((M \ {p}) \ {x})
    BY <1>4, FS_Subset
  <2> QED BY <1>4, <2>1, TotalInt
<1>11. \A a, b, c \in Int : a + (b + c) = b + (a + c)
  OBVIOUS
<1>12. Total(f, M) = f[p] + (f[x] + Total(f, (M \ {p}) \ {x}))
  BY <1>5, <1>7
<1>13. f[x] + Total(f, M \ {x}) = f[x] + (f[p] + Total(f, (M \ {p}) \ {x}))
  BY <1>8, <1>9
<1> HIDE DEF p
<1> QED BY <1>3, <1>10, <1>11, <1>12, <1>13, Zenon

LEMMA TotalAdd ==
  ASSUME NEW f, NEW S, IsFiniteSet(S), NEW y, y \notin S, \A x \in S \cup {y} : f[x] \in Int
  PROVE  Total(f, S \cup {y}) = f[y] + Total(f, S)
<1>1. IsFiniteSet(S \cup {y}) /\ (S \cup {y}) \ {y} = S
  BY FS_AddElement
<1> QED BY <1>1, TotalRemove

LEMMA TotalSame ==
  ASSUME NEW f, NEW g, NEW S, IsFiniteSet(S), \A x \in S : f[x] = g[x]
  PROVE  Total(f, S) = Total(g, S)
<1> DEFINE Bad == {s \in SUBSET S : Total(f, s) # Total(g, s)}
<1>1. SUFFICES ASSUME Bad # {} PROVE FALSE
  OBVIOUS
<1>2. PICK M \in Bad : \A U \in Bad : U \subseteq M => U = M
  <2>1. Bad \in SUBSET SUBSET S
    OBVIOUS
  <2> HIDE DEF Bad
  <2> QED BY <1>1, <2>1, SubsetMinimal
<1>3. M \subseteq S /\ IsFiniteSet(M) /\ Total(f, M) # Total(g, M)
  BY FS_Subset
<1>4. M # {}
  BY <1>3, TotalEmpty
<1>5. PickOf(M) \in M
  BY <1>4, PickMember
<1>6. Total(f, M \ {PickOf(M)}) = Total(g, M \ {PickOf(M)})
  BY <1>2, <1>3, <1>5
<1> QED BY <1>3, <1>4, <1>5, <1>6, TotalPick

LEMMA TotalChange ==
  ASSUME NEW f, NEW g, NEW S, IsFiniteSet(S), NEW y \in S,
         \A x \in S : f[x] \in Int /\ g[x] \in Int,
         \A x \in S \ {y} : f[x] = g[x]
  PROVE  Total(g, S) = Total(f, S) - f[y] + g[y]
<1>1. IsFiniteSet(S \ {y})
  BY FS_Subset
<1>2. Total(f, S \ {y}) = Total(g, S \ {y})
  BY <1>1, TotalSame
<1>3. Total(f, S \ {y}) \in Int
  BY <1>1, TotalInt
<1>4. Total(f, S) = f[y] + Total(f, S \ {y}) /\ Total(g, S) = g[y] + Total(g, S \ {y})
  BY TotalRemove
<1> QED BY <1>2, <1>3, <1>4

LEMMA TotalNat ==
  ASSUME NEW f, NEW S, IsFiniteSet(S), \A x \in S : f[x] \in Nat
  PROVE  Total(f, S) \in Nat /\ \A x \in S : f[x] <= Total(f, S)
<1> DEFINE Bad == {s \in SUBSET S : ~(Total(f, s) \in Nat)}
<1>1. Bad = {}
  <2>1. SUFFICES ASSUME Bad # {} PROVE FALSE
    OBVIOUS
  <2>2. PICK M \in Bad : \A U \in Bad : U \subseteq M => U = M
    <3>1. Bad \in SUBSET SUBSET S
      OBVIOUS
    <3> HIDE DEF Bad
    <3> QED BY <2>1, <3>1, SubsetMinimal
  <2>3. M \subseteq S /\ IsFiniteSet(M) /\ Total(f, M) \notin Nat
    BY FS_Subset
  <2>4. M # {}
    BY <2>3, TotalEmpty
  <2>5. PickOf(M) \in M
    BY <2>4, PickMember
  <2>6. Total(f, M \ {PickOf(M)}) \in Nat
    BY <2>2, <2>3, <2>5
  <2> QED BY <2>3, <2>4, <2>5, <2>6, TotalPick
<1>2. \A s \in SUBSET S : Total(f, s) \in Nat
  BY <1>1
<1>3. ASSUME NEW x \in S PROVE f[x] <= Total(f, S)
  <2>1. Total(f, S) = f[x] + Total(f, S \ {x})
    BY TotalRemove
  <2> QED BY <1>2, <2>1
<1> QED BY <1>2, <1>3

-----------------------------------------------------------------------------
(* Sums compared and taken apart.                                          *)

LEMMA TotalZero ==
  ASSUME NEW f, NEW S, IsFiniteSet(S), \A x \in S : f[x] = 0
  PROVE  Total(f, S) = 0
<1> DEFINE Bad == {s \in SUBSET S : Total(f, s) # 0}
<1>1. SUFFICES ASSUME Bad # {} PROVE FALSE
  OBVIOUS
<1>2. PICK M \in Bad : \A U \in Bad : U \subseteq M => U = M
  <2>1. Bad \in SUBSET SUBSET S
    OBVIOUS
  <2> HIDE DEF Bad
  <2> QED BY <1>1, <2>1, SubsetMinimal
<1>3. M \subseteq S /\ IsFiniteSet(M) /\ Total(f, M) # 0
  BY FS_Subset
<1>4. M # {}
  BY <1>3, TotalEmpty
<1>5. PickOf(M) \in M
  BY <1>4, PickMember
<1>6. Total(f, M \ {PickOf(M)}) = 0
  BY <1>2, <1>3, <1>5
<1> QED BY <1>3, <1>4, <1>5, <1>6, TotalPick

\* a sum of naturals is positive when one of them is
LEMMA TotalPositive ==
  ASSUME NEW f, NEW S, IsFiniteSet(S), \A x \in S : f[x] \in Nat
  PROVE  Total(f, S) > 0 <=> \E x \in S : f[x] > 0
<1>1. Total(f, S) \in Nat /\ \A x \in S : f[x] <= Total(f, S)
  BY TotalNat
<1>2. (\E x \in S : f[x] > 0) => Total(f, S) > 0
  BY <1>1
<1>3. ~(\E x \in S : f[x] > 0) => Total(f, S) = 0
  <2> SUFFICES ASSUME ~(\E x \in S : f[x] > 0) PROVE Total(f, S) = 0
    OBVIOUS
  <2>1. \A x \in S : f[x] = 0
    OBVIOUS
  <2> QED BY <2>1, TotalZero
<1> QED BY <1>1, <1>2, <1>3

LEMMA TotalDisjoint ==
  ASSUME NEW f, NEW S, IsFiniteSet(S), NEW T, IsFiniteSet(T), S \cap T = {},
         \A x \in S \cup T : f[x] \in Int
  PROVE  Total(f, S \cup T) = Total(f, S) + Total(f, T)
<1> DEFINE Bad == {s \in SUBSET S : Total(f, s \cup T) # Total(f, s) + Total(f, T)}
<1>1. SUFFICES ASSUME Bad # {} PROVE FALSE
  OBVIOUS
<1>2. PICK M \in Bad : \A U \in Bad : U \subseteq M => U = M
  <2>1. Bad \in SUBSET SUBSET S
    OBVIOUS
  <2> HIDE DEF Bad
  <2> QED BY <1>1, <2>1, SubsetMinimal
<1>3. M \subseteq S /\ IsFiniteSet(M) /\ Total(f, M \cup T) # Total(f, M) + Total(f, T)
  BY FS_Subset
<1>4. Total(f, T) \in Int
  BY TotalInt
<1>5. M # {}
  <2>1. M = {} => M \cup T = T
    OBVIOUS
  <2> QED BY <1>3, <1>4, <2>1, TotalEmpty
<1>6. PICK y \in M : TRUE
  BY <1>5
<1> DEFINE R == M \ {y}
<1>7. IsFiniteSet(R) /\ R \cup T = (M \cup T) \ {y} /\ IsFiniteSet(M \cup T) /\ y \in M \cup T
  BY <1>3, FS_Subset, FS_Union
<1>8. Total(f, R \cup T) = Total(f, R) + Total(f, T)
  BY <1>2, <1>3
<1>9. Total(f, M) = f[y] + Total(f, R)
  BY <1>3, TotalRemove
<1>10. Total(f, M \cup T) = f[y] + Total(f, R \cup T)
  <2>1. \A x \in M \cup T : f[x] \in Int
    BY <1>3
  <2> QED BY <1>7, <2>1, TotalRemove
<1>11. Total(f, R) \in Int /\ f[y] \in Int
  BY <1>3, <1>7, TotalInt
<1> QED BY <1>3, <1>4, <1>8, <1>9, <1>10, <1>11

\* smaller values over fewer elements, where the others are not negative
LEMMA TotalLeq ==
  ASSUME NEW f, NEW g, NEW T, IsFiniteSet(T), NEW S \in SUBSET T,
         \A x \in S : f[x] \in Int /\ f[x] <= g[x],
         \A x \in T : g[x] \in Int,
         \A x \in T \ S : g[x] >= 0
  PROVE  Total(f, S) <= Total(g, T)
<1>1. IsFiniteSet(S) /\ IsFiniteSet(T \ S) /\ S \cap (T \ S) = {} /\ S \cup (T \ S) = T
  BY FS_Subset
<1>2. Total(g, T) = Total(g, S) + Total(g, T \ S)
  <2>1. \A x \in S \cup (T \ S) : g[x] \in Int
    OBVIOUS
  <2>2. Total(g, S \cup (T \ S)) = Total(g, S) + Total(g, T \ S)
    BY <1>1, <2>1, TotalDisjoint
  <2> QED BY <1>1, <2>2
<1>3. Total(g, T \ S) \in Nat
  BY <1>1, TotalNat
<1>4. Total(f, S) \in Int /\ Total(g, S) \in Int
  <2>1. \A x \in S : f[x] \in Int /\ g[x] \in Int
    OBVIOUS
  <2> QED BY <1>1, <2>1, TotalInt
<1> DEFINE Bad == {s \in SUBSET S : ~(Total(f, s) <= Total(g, s))}
<1>5. Bad = {}
  <2>1. SUFFICES ASSUME Bad # {} PROVE FALSE
    OBVIOUS
  <2>2. PICK M \in Bad : \A U \in Bad : U \subseteq M => U = M
    <3>1. Bad \in SUBSET SUBSET S
      OBVIOUS
    <3> HIDE DEF Bad
    <3> QED BY <1>1, <2>1, <3>1, SubsetMinimal
  <2>3. M \subseteq S /\ IsFiniteSet(M) /\ ~(Total(f, M) <= Total(g, M))
    BY <1>1, FS_Subset
  <2>4. M # {}
    BY <2>3, TotalEmpty
  <2> DEFINE y == PickOf(M)
  <2>5. y \in M
    BY <2>4, PickMember
  <2>6. Total(f, M \ {y}) <= Total(g, M \ {y})
    BY <2>2, <2>3, <2>5
  <2>7. Total(f, M) = f[y] + Total(f, M \ {y}) /\ Total(g, M) = g[y] + Total(g, M \ {y})
    BY <2>3, <2>4, TotalPick
  <2>8. Total(f, M \ {y}) \in Int /\ Total(g, M \ {y}) \in Int /\ f[y] \in Int /\ g[y] \in Int /\ f[y] <= g[y]
    <3>1. IsFiniteSet(M \ {y}) /\ \A x \in M : f[x] \in Int /\ g[x] \in Int /\ f[x] <= g[x]
      BY <2>3, FS_Subset
    <3> QED BY <2>5, <3>1, TotalInt
  <2> HIDE DEF y
  <2> QED BY <2>3, <2>6, <2>7, <2>8
<1>6. Total(f, S) <= Total(g, S)
  BY <1>5
<1> QED BY <1>2, <1>3, <1>4, <1>6

LEMMA TotalScale ==
  ASSUME NEW f, NEW g, NEW S, IsFiniteSet(S), NEW c \in Int,
         \A x \in S : f[x] \in Int /\ g[x] = c * f[x]
  PROVE  Total(g, S) = c * Total(f, S)
<1> DEFINE Bad == {s \in SUBSET S : Total(g, s) # c * Total(f, s)}
<1>1. SUFFICES ASSUME Bad # {} PROVE FALSE
  OBVIOUS
<1>2. PICK M \in Bad : \A U \in Bad : U \subseteq M => U = M
  <2>1. Bad \in SUBSET SUBSET S
    OBVIOUS
  <2> HIDE DEF Bad
  <2> QED BY <1>1, <2>1, SubsetMinimal
<1>3. M \subseteq S /\ IsFiniteSet(M) /\ Total(g, M) # c * Total(f, M)
  BY FS_Subset
<1>4. M # {}
  <2>1. M = {} => Total(g, M) = 0 /\ Total(f, M) = 0
    BY TotalEmpty
  <2> QED BY <1>3, <2>1
<1> DEFINE y == PickOf(M)
<1>5. y \in M
  BY <1>4, PickMember
<1>6. Total(g, M \ {y}) = c * Total(f, M \ {y})
  BY <1>2, <1>3, <1>5
<1>7. Total(g, M) = g[y] + Total(g, M \ {y}) /\ Total(f, M) = f[y] + Total(f, M \ {y})
  BY <1>3, <1>4, TotalPick
<1>8. f[y] \in Int /\ g[y] = c * f[y] /\ Total(f, M \ {y}) \in Int
  <2>1. IsFiniteSet(M \ {y})
    BY <1>3, FS_Subset
  <2> QED BY <1>3, <1>5, <2>1, TotalInt
<1>9. \A a, b, d \in Int : a * b + a * d = a * (b + d)
  OBVIOUS
<1> HIDE DEF y
<1>10. c * f[y] + c * Total(f, M \ {y}) = c * (f[y] + Total(f, M \ {y}))
  BY <1>8, <1>9
<1> QED BY <1>3, <1>6, <1>7, <1>8, <1>10, Zenon

\* the same values in the same number, under other names
LEMMA TotalRenamed ==
  ASSUME NEW f, NEW g, NEW S, IsFiniteSet(S), NEW h,
         \A x \in S : f[x] \in Int /\ g[h[x]] = f[x],
         \A x, y \in S : h[x] = h[y] => x = y
  PROVE  Total(g, {h[x] : x \in S}) = Total(f, S)
<1> DEFINE Image(s) == {h[x] : x \in s}
           Bad == {s \in SUBSET S : Total(g, Image(s)) # Total(f, s)}
<1>1. SUFFICES ASSUME Bad # {} PROVE FALSE
  OBVIOUS
<1>2. PICK M \in Bad : \A U \in Bad : U \subseteq M => U = M
  <2>1. Bad \in SUBSET SUBSET S
    OBVIOUS
  <2> HIDE DEF Bad
  <2> QED BY <1>1, <2>1, SubsetMinimal
<1>3. M \subseteq S /\ IsFiniteSet(M) /\ Total(g, Image(M)) # Total(f, M)
  BY FS_Subset
<1>4. M # {}
  <2>1. M = {} => Image(M) = {}
    OBVIOUS
  <2> HIDE DEF Image
  <2> QED BY <1>3, <2>1, TotalEmpty
<1>5. PICK y \in M : TRUE
  BY <1>4
<1> DEFINE R == M \ {y}
<1>6. Total(g, Image(R)) = Total(f, R)
  BY <1>2, <1>3
<1>7. Total(f, M) = f[y] + Total(f, R)
  BY <1>3, TotalRemove
<1>8. IsFiniteSet(R) /\ R \subseteq S
  BY <1>3, FS_Subset
<1>9. IsFiniteSet(Image(R)) /\ \A z \in Image(R) : g[z] \in Int
  <2>1. IsFiniteSet(Image(R))
    BY <1>8, ImageFinite
  <2> QED BY <1>8, <2>1
<1>10. h[y] \notin Image(R) /\ Image(M) = Image(R) \cup {h[y]}
  BY <1>3
<1>11. Total(g, Image(R) \cup {h[y]}) = g[h[y]] + Total(g, Image(R))
  <2>1. g[h[y]] \in Int
    BY <1>3
  <2> HIDE DEF Image, R
  <2> QED BY <1>9, <1>10, <2>1, TotalAdd
<1>12. g[h[y]] = f[y]
  BY <1>3
<1> HIDE DEF Image, R
<1> QED BY <1>3, <1>6, <1>7, <1>10, <1>11, <1>12

\* a sum over a set taken apart by a key of its elements
LEMMA TotalByKey ==
  ASSUME NEW f, NEW S, IsFiniteSet(S), NEW T, IsFiniteSet(T), NEW key, NEW of, NEW part,
         \A x \in S : f[x] \in Int /\ key[x] \in T,
         \A k \in T : part[k] = Total(f, of[k]),
         \A k \in T : \A x : x \in of[k] <=> x \in S /\ key[x] = k
  PROVE  Total(f, S) = Total(part, T)
<1> DEFINE In(U) == {x \in S : key[x] \in U}
           Of(k) == {x \in S : key[x] = k}
           Bad == {U \in SUBSET T : Total(f, In(U)) # Total(part, U)}
<1>1. Bad = {}
  <2>1. SUFFICES ASSUME Bad # {} PROVE FALSE
    OBVIOUS
  <2>2. PICK M \in Bad : \A U \in Bad : U \subseteq M => U = M
    <3>1. Bad \in SUBSET SUBSET T
      OBVIOUS
    <3> HIDE DEF Bad
    <3> QED BY <2>1, <3>1, SubsetMinimal
  <2>3. M \subseteq T /\ IsFiniteSet(M) /\ Total(f, In(M)) # Total(part, M)
    BY FS_Subset
  <2>4. M # {}
    <3>1. M = {} => In(M) = {}
      OBVIOUS
    <3> HIDE DEF In
    <3> QED BY <2>3, <3>1, TotalEmpty
  <2> DEFINE y == PickOf(M)
             R == M \ {y}
  <2>5. y \in M
    BY <2>4, PickMember
  <2>6. Total(f, In(R)) = Total(part, R)
    BY <2>2, <2>3, <2>5
  <2>7. Total(part, M) = part[y] + Total(part, R)
    BY <2>3, <2>4, TotalPick
  <2>8. In(M) = Of(y) \cup In(R) /\ Of(y) \cap In(R) = {}
    BY <2>5
  <2>9. IsFiniteSet(In(R)) /\ IsFiniteSet(Of(y)) /\ \A x \in Of(y) \cup In(R) : f[x] \in Int
    BY FS_Subset
  <2>10. part[y] = Total(f, Of(y))
    <3>1. y \in T
      BY <2>3, <2>5
    <3>2. of[y] = Of(y)
      BY <3>1
    <3> HIDE DEF Of, y
    <3> QED BY <3>1, <3>2
  <2>11. Total(f, Of(y) \cup In(R)) = Total(f, Of(y)) + Total(f, In(R))
    <3> HIDE DEF In, Of, R, y
    <3> QED BY <2>8, <2>9, TotalDisjoint
  <2> HIDE DEF In, Of, R, y
  <2> QED BY <2>3, <2>6, <2>7, <2>8, <2>10, <2>11
<1>2. In(T) = S
  OBVIOUS
<1>3. Total(f, In(T)) = Total(part, T)
  BY <1>1
<1> QED BY <1>2, <1>3

=============================================================================
