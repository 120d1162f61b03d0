----------------------------- MODULE SumTheorems -----------------------------
(***************************************************************************)
(* What MapThenSumSet computes over a finite set: it is defined by a       *)
(* recursive function that takes the elements in an order nobody knows.    *)
(* An induction over finite sets is written as the choice of a smallest    *)
(* set for which the claim fails, of which there is none.                  *)
(***************************************************************************)
EXTENDS Integers, FiniteSets, FiniteSetsExt, TLAPS, FiniteSetTheorems

(* The element a sum takes next.                                           *)
Pick(s) == CHOOSE x \in s : TRUE

(* g is the sum of w over every subset of S.                               *)
Sums(w, S, g) ==
  g = [s \in SUBSET S |-> IF s = {} THEN 0 ELSE w[Pick(s)] + g[s \ {Pick(s)}]]

(* The sum of w over S.                                                    *)
Total(w, S) == (CHOOSE g : Sums(w, S, g))[S]

\* Pick takes a member of the set.
LEMMA PickIn ==
    ASSUME NEW s, s # {}
    PROVE  Pick(s) \in s
  BY DEF Pick

(* Of sets of subsets of a finite set, one has no smaller one in it.       *)
LEMMA SmallestSet ==
    ASSUME NEW S, IsFiniteSet(S), NEW B, B \subseteq SUBSET S, B # {}
    PROVE  \E T \in B : \A U \in B : U \subseteq T => U = T
  <1>1. B \subseteq FiniteSubsetsOf(S)
    BY FS_Subset DEF FiniteSubsetsOf
  <1>2. IsWellFoundedOn(StrictSubsetOrdering(S), FiniteSubsetsOf(S))
    BY FS_StrictSubsetOrderingWellFounded
  <1>3. PICK T \in B : \A U \in B : <<U, T>> \notin StrictSubsetOrdering(S)
    BY <1>1, <1>2, WFMin
  <1>4. ASSUME NEW U \in B, U \subseteq T PROVE U = T
    BY <1>3, <1>4 DEF StrictSubsetOrdering
  <1> QED BY <1>4

(* Two sums of w agree wherever both are defined.                          *)
LEMMA SumsAgree ==
    ASSUME NEW w, NEW S, IsFiniteSet(S), NEW U, U \subseteq S, NEW V, V \subseteq S,
           NEW g, NEW h, Sums(w, U, g), Sums(w, V, h),
           NEW r, r \subseteq U, r \subseteq V
    PROVE  g[r] = h[r]
  <1> DEFINE B == {s \in SUBSET (U \cap V) : g[s] # h[s]}
  <1>1. SUFFICES ASSUME B # {} PROVE FALSE
    OBVIOUS
  <1>2. PICK T \in B : \A s \in B : s \subseteq T => s = T
    <2>1. B \subseteq SUBSET S
      OBVIOUS
    <2> HIDE DEF B
    <2> QED BY <1>1, <2>1, SmallestSet
  <1>3. T \in SUBSET U /\ T \in SUBSET V /\ g[T] # h[T]
    OBVIOUS
  <1>4. /\ g[T] = IF T = {} THEN 0 ELSE w[Pick(T)] + g[T \ {Pick(T)}]
        /\ h[T] = IF T = {} THEN 0 ELSE w[Pick(T)] + h[T \ {Pick(T)}]
    BY <1>3 DEF Sums
  <1>5. T # {}
    BY <1>3, <1>4
  <1>6. T \ {Pick(T)} # T
    BY <1>5, PickIn
  <1>7. g[T \ {Pick(T)}] = h[T \ {Pick(T)}]
    BY <1>2, <1>6
  <1> QED BY <1>3, <1>4, <1>5, <1>7

\* Two functions of sums agree on a set both have.
LEMMA SumsAgreeAt ==
    ASSUME NEW w, NEW U, IsFiniteSet(U), NEW V, V \subseteq U,
           NEW g, NEW h, Sums(w, U, g), Sums(w, V, h)
    PROVE  g[V] = h[V]
  <1>1. U \in SUBSET U /\ V \in SUBSET U /\ V \in SUBSET (U \cap V)
    OBVIOUS
  <1> QED BY <1>1, SumsAgree

(* Every finite set has a sum over its subsets.                            *)
LEMMA SumsExist ==
    ASSUME NEW w, NEW S, IsFiniteSet(S)
    PROVE  \E g : Sums(w, S, g)
  <1> DEFINE B == {T \in SUBSET S : ~ \E g : Sums(w, T, g)}
  <1>1. SUFFICES ASSUME B # {} PROVE FALSE
    OBVIOUS
  <1>2. PICK T \in B : \A s \in B : s \subseteq T => s = T
    <2>1. B \subseteq SUBSET S
      OBVIOUS
    <2> HIDE DEF B
    <2> QED BY <1>1, <2>1, SmallestSet
  <1> DEFINE G(U) == CHOOSE g : Sums(w, U, g)
  <1>3. ASSUME NEW U \in SUBSET T, U # T PROVE Sums(w, U, G(U))
    <2>1. \E g : Sums(w, U, g)
      BY <1>2, <1>3
    <2> QED BY <2>1
  <1> DEFINE t == [s \in SUBSET T |-> IF s = {} THEN 0
                                      ELSE w[Pick(s)] + G(s \ {Pick(s)})[s \ {Pick(s)}]]
  <1>4. ASSUME NEW s \in SUBSET T, s # {} PROVE t[s \ {Pick(s)}] = G(s \ {Pick(s)})[s \ {Pick(s)}]
    <2> DEFINE U == s \ {Pick(s)}
    <2>1. U \in SUBSET T /\ U # T
      BY <1>4, PickIn
    <2>2. Sums(w, U, G(U))
      BY <1>3, <2>1
    <2>3. G(U)[U] = IF U = {} THEN 0 ELSE w[Pick(U)] + G(U)[U \ {Pick(U)}]
      <3> HIDE DEF G, U
      <3> QED BY <2>2 DEF Sums
    <2>4. t[U] = IF U = {} THEN 0 ELSE w[Pick(U)] + G(U \ {Pick(U)})[U \ {Pick(U)}]
      <3> HIDE DEF G, U
      <3> QED BY <2>1
    <2>5. ASSUME U # {} PROVE G(U)[U \ {Pick(U)}] = G(U \ {Pick(U)})[U \ {Pick(U)}]
      <3> DEFINE V == U \ {Pick(U)}
      <3>1. V \in SUBSET T /\ V # T /\ V \subseteq U
        BY <2>1, <2>5, PickIn
      <3>2. Sums(w, V, G(V))
        BY <1>3, <3>1
      <3> DEFINE gU == G(U)
      <3> DEFINE gV == G(V)
      <3> HIDE DEF U, V
      <3>3. IsFiniteSet(U) /\ V \subseteq U
        BY <2>1, <3>1, FS_Subset
      <3>4. Sums(w, U, gU) /\ Sums(w, V, gV)
        BY <2>2, <3>2
      <3>5. gU[V] = gV[V]
        <4> HIDE DEF gU, gV
        <4> QED BY <3>3, <3>4, SumsAgreeAt
      <3> QED BY <3>5 DEF V, gU, gV
    <2> HIDE DEF G, U, t
    <2>6. t[U] = G(U)[U]
      BY <2>3, <2>4, <2>5
    <2> QED BY <2>6 DEF U
  <1>5. Sums(w, T, t)
    <2>1. t = [s \in SUBSET T |-> IF s = {} THEN 0 ELSE w[Pick(s)] + t[s \ {Pick(s)}]]
      <3> HIDE DEF G
      <3>1. \A s \in SUBSET T : t[s] = IF s = {} THEN 0 ELSE w[Pick(s)] + t[s \ {Pick(s)}]
        BY <1>4
      <3>2. t = [s \in SUBSET T |-> t[s]]
        OBVIOUS
      <3> HIDE DEF t
      <3> QED BY <3>1, <3>2
    <2> QED BY <2>1 DEF Sums
  <1> QED BY <1>2, <1>5

(* The sum over S is a sum over every subset.                              *)
LEMMA TotalSums ==
    ASSUME NEW w, NEW S, IsFiniteSet(S)
    PROVE  Sums(w, S, CHOOSE g : Sums(w, S, g))
  BY SumsExist

\* The sum over a part is what the function of sums says of it.
LEMMA TotalOfPart ==
    ASSUME NEW w, NEW S, IsFiniteSet(S), NEW g, Sums(w, S, g), NEW T, T \subseteq S
    PROVE  g[T] = Total(w, T)
  <1> DEFINE h == CHOOSE i : Sums(w, T, i)
  <1>1. IsFiniteSet(T)
    BY FS_Subset
  <1>2. Sums(w, T, h)
    BY <1>1, TotalSums
  <1>3. h[T] = Total(w, T)
    BY DEF Total
  <1> HIDE DEF h
  <1>4. g[T] = h[T]
    BY <1>2, SumsAgreeAt
  <1> QED BY <1>3, <1>4

(* The recursive equation of the sum.                                      *)
LEMMA TotalEquation ==
    ASSUME NEW w, NEW S, IsFiniteSet(S)
    PROVE  Total(w, S) = IF S = {} THEN 0 ELSE w[Pick(S)] + Total(w, S \ {Pick(S)})
  <1>1. PICK g : Sums(w, S, g)
    BY SumsExist
  <1>2. g[S] = Total(w, S) /\ g[S \ {Pick(S)}] = Total(w, S \ {Pick(S)})
    BY <1>1, TotalOfPart
  <1>3. g[S] = IF S = {} THEN 0 ELSE w[Pick(S)] + g[S \ {Pick(S)}]
    BY <1>1 DEF Sums
  <1> QED BY <1>2, <1>3

(* A sum of natural numbers is one.                                        *)
LEMMA TotalType ==
    ASSUME NEW w, NEW S, IsFiniteSet(S), \A x \in S : w[x] \in Nat
    PROVE  Total(w, S) \in Nat
  <1> DEFINE B == {T \in SUBSET S : Total(w, T) \notin Nat}
  <1>1. SUFFICES ASSUME B # {} PROVE FALSE
    OBVIOUS
  <1>2. PICK T \in B : \A s \in B : s \subseteq T => s = T
    <2>1. B \subseteq SUBSET S
      OBVIOUS
    <2> HIDE DEF B
    <2> QED BY <1>1, <2>1, SmallestSet
  <1>3. IsFiniteSet(T) /\ T \subseteq S /\ Total(w, T) \notin Nat
    BY FS_Subset
  <1>4. Total(w, T) = IF T = {} THEN 0 ELSE w[Pick(T)] + Total(w, T \ {Pick(T)})
    BY <1>3, TotalEquation
  <1>5. T # {}
    BY <1>3, <1>4
  <1>6. Pick(T) \in T
    BY <1>5, PickIn
  <1>7. Total(w, T \ {Pick(T)}) \in Nat
    BY <1>2, <1>3, <1>6
  <1> QED BY <1>3, <1>4, <1>5, <1>6, <1>7

(* Equal summands have equal sums.                                         *)
LEMMA TotalEqual ==
    ASSUME NEW w, NEW v, NEW S, IsFiniteSet(S), \A x \in S : w[x] = v[x]
    PROVE  Total(w, S) = Total(v, S)
  <1> DEFINE B == {T \in SUBSET S : Total(w, T) # Total(v, T)}
  <1>1. SUFFICES ASSUME B # {} PROVE FALSE
    OBVIOUS
  <1>2. PICK T \in B : \A s \in B : s \subseteq T => s = T
    <2>1. B \subseteq SUBSET S
      OBVIOUS
    <2> HIDE DEF B
    <2> QED BY <1>1, <2>1, SmallestSet
  <1>3. IsFiniteSet(T) /\ T \subseteq S /\ Total(w, T) # Total(v, T)
    BY FS_Subset
  <1>4. /\ Total(w, T) = IF T = {} THEN 0 ELSE w[Pick(T)] + Total(w, T \ {Pick(T)})
        /\ Total(v, T) = IF T = {} THEN 0 ELSE v[Pick(T)] + Total(v, T \ {Pick(T)})
    BY <1>3, TotalEquation
  <1>5. T # {}
    BY <1>3, <1>4
  <1>6. Pick(T) \in T
    BY <1>5, PickIn
  <1>7. Total(w, T \ {Pick(T)}) = Total(v, T \ {Pick(T)})
    BY <1>2, <1>3, <1>6
  <1> QED BY <1>3, <1>4, <1>5, <1>6, <1>7

(* Whichever element is taken out, the sum is it and the sum of the rest.  *)
LEMMA TotalWithout ==
    ASSUME NEW w, NEW S, IsFiniteSet(S), \A x \in S : w[x] \in Nat, NEW e \in S
    PROVE  Total(w, S) = w[e] + Total(w, S \ {e})
  <1> DEFINE B == {T \in SUBSET S : \E x \in T : Total(w, T) # w[x] + Total(w, T \ {x})}
  <1>1. SUFFICES ASSUME B # {} PROVE FALSE
    OBVIOUS
  <1>2. PICK T \in B : \A s \in B : s \subseteq T => s = T
    <2>1. B \subseteq SUBSET S
      OBVIOUS
    <2> HIDE DEF B
    <2> QED BY <1>1, <2>1, SmallestSet
  <1>3. T \subseteq S /\ IsFiniteSet(T)
    BY FS_Subset
  <1>4. PICK x \in T : Total(w, T) # w[x] + Total(w, T \ {x})
    OBVIOUS
  <1> DEFINE c == Pick(T)
  <1>5. c \in T
    BY <1>4, PickIn
  <1>6. Total(w, T) = w[c] + Total(w, T \ {c})
    BY <1>3, <1>4, TotalEquation
  <1> HIDE DEF c
  <1>7. x # c
    BY <1>4, <1>6
  <1>8. Total(w, T \ {c}) = w[x] + Total(w, (T \ {c}) \ {x})
    <2>1. T \ {c} \notin B /\ T \ {c} \in SUBSET S /\ x \in T \ {c}
      BY <1>2, <1>3, <1>4, <1>5, <1>7
    <2> QED BY <2>1
  <1>9. Total(w, T \ {x}) = w[c] + Total(w, (T \ {x}) \ {c})
    <2>1. T \ {x} \notin B /\ T \ {x} \in SUBSET S /\ c \in T \ {x}
      BY <1>2, <1>3, <1>4, <1>5, <1>7
    <2> QED BY <2>1
  <1> DEFINE R == (T \ {c}) \ {x}
  <1>10. R = (T \ {x}) \ {c} /\ R \subseteq S
    BY <1>3
  <1>11. Total(w, R) \in Nat
    <2> HIDE DEF R
    <2>1. IsFiniteSet(R) /\ \A y \in R : w[y] \in Nat
      BY <1>10, FS_Subset
    <2> QED BY <2>1, TotalType
  <1>12. Total(w, T \ {c}) = w[x] + Total(w, R) /\ Total(w, T \ {x}) = w[c] + Total(w, R)
    BY <1>8, <1>9, <1>10
  <1>13. w[x] \in Nat /\ w[c] \in Nat
    BY <1>3, <1>4, <1>5
  <1> HIDE DEF R, B
  <1> QED BY <1>4, <1>6, <1>11, <1>12, <1>13

(* One summand is one more, and so is the sum.                             *)
LEMMA TotalGains ==
    ASSUME NEW S, IsFiniteSet(S), NEW w, \A x \in S : w[x] \in Nat, NEW v, NEW e \in S,
           \A x \in S : v[x] = IF x = e THEN w[e] + 1 ELSE w[x]
    PROVE  Total(v, S) = Total(w, S) + 1
  <1> DEFINE rest == S \ {e}
  <1>1. IsFiniteSet(rest) /\ \A x \in S : v[x] \in Nat
    BY FS_RemoveElement
  <1>2. Total(v, S) = v[e] + Total(v, rest) /\ Total(w, S) = w[e] + Total(w, rest)
    BY <1>1, TotalWithout
  <1>3. Total(v, rest) = Total(w, rest)
    BY <1>1, TotalEqual
  <1>4. Total(w, rest) \in Nat
    BY <1>1, TotalType
  <1>5. v[e] = w[e] + 1 /\ w[e] \in Nat
    OBVIOUS
  <1> HIDE DEF rest
  <1> QED BY <1>2, <1>3, <1>4, <1>5

(* The sum of two functions.                                               *)
LEMMA TotalPlus ==
    ASSUME NEW S, IsFiniteSet(S), NEW w, \A x \in S : w[x] \in Nat,
           NEW v, \A x \in S : v[x] \in Nat, NEW u, \A x \in S : u[x] = w[x] + v[x]
    PROVE  Total(u, S) = Total(w, S) + Total(v, S)
  <1> DEFINE B == {T \in SUBSET S : Total(u, T) # Total(w, T) + Total(v, T)}
  <1>1. SUFFICES ASSUME B # {} PROVE FALSE
    OBVIOUS
  <1>2. PICK T \in B : \A s \in B : s \subseteq T => s = T
    <2>1. B \subseteq SUBSET S
      OBVIOUS
    <2> HIDE DEF B
    <2> QED BY <1>1, <2>1, SmallestSet
  <1>3. IsFiniteSet(T) /\ T \subseteq S /\ Total(u, T) # Total(w, T) + Total(v, T)
    BY FS_Subset
  <1> DEFINE c == Pick(T)
             R == T \ {c}
  <1>4. /\ Total(u, T) = IF T = {} THEN 0 ELSE u[c] + Total(u, R)
        /\ Total(w, T) = IF T = {} THEN 0 ELSE w[c] + Total(w, R)
        /\ Total(v, T) = IF T = {} THEN 0 ELSE v[c] + Total(v, R)
    BY <1>3, TotalEquation
  <1>5. T # {}
    BY <1>3, <1>4
  <1>6. c \in T
    BY <1>5, PickIn
  <1>7. R \subseteq S /\ R \in SUBSET S /\ R \notin B
    BY <1>2, <1>3, <1>6
  <1>8. Total(u, R) = Total(w, R) + Total(v, R)
    BY <1>7
  <1>9. IsFiniteSet(R)
    BY <1>7, FS_Subset
  <1> HIDE DEF R, c, B
  <1>10. Total(w, R) \in Nat /\ Total(v, R) \in Nat
    BY <1>7, <1>9, TotalType
  <1>11. u[c] = w[c] + v[c] /\ w[c] \in Nat /\ v[c] \in Nat
    BY <1>3, <1>6
  <1> QED BY <1>3, <1>4, <1>5, <1>8, <1>10, <1>11

(* How many members of T the function f takes to each member of S.         *)
Fibres(f, T, S) == [j \in S |-> Cardinality({d \in T : f[d] = j})]

(* The sum of nothing but zeros.                                           *)
LEMMA TotalZero ==
    ASSUME NEW w, NEW S, IsFiniteSet(S), \A x \in S : w[x] = 0
    PROVE  Total(w, S) = 0
  <1> DEFINE B == {T \in SUBSET S : Total(w, T) # 0}
  <1>1. SUFFICES ASSUME B # {} PROVE FALSE
    OBVIOUS
  <1>2. PICK T \in B : \A s \in B : s \subseteq T => s = T
    <2>1. B \subseteq SUBSET S
      OBVIOUS
    <2> HIDE DEF B
    <2> QED BY <1>1, <2>1, SmallestSet
  <1>3. IsFiniteSet(T) /\ T \subseteq S /\ Total(w, T) # 0
    BY FS_Subset
  <1>4. Total(w, T) = IF T = {} THEN 0 ELSE w[Pick(T)] + Total(w, T \ {Pick(T)})
    BY <1>3, TotalEquation
  <1>5. T # {}
    BY <1>3, <1>4
  <1>6. Pick(T) \in T
    BY <1>5, PickIn
  <1>7. Total(w, T \ {Pick(T)}) = 0
    BY <1>2, <1>3, <1>6
  <1> QED BY <1>3, <1>4, <1>5, <1>6, <1>7

(* Every member of T is counted once.                                      *)
LEMMA TotalFibres ==
    ASSUME NEW S, IsFiniteSet(S), NEW D, IsFiniteSet(D), NEW f, \A d \in D : f[d] \in S
    PROVE  Total(Fibres(f, D, S), S) = Cardinality(D)
  <1> DEFINE B == {T \in SUBSET D : Total(Fibres(f, T, S), S) # Cardinality(T)}
  <1>1. SUFFICES ASSUME B # {} PROVE FALSE
    OBVIOUS
  <1>2. PICK T \in B : \A s \in B : s \subseteq T => s = T
    <2>1. B \subseteq SUBSET D
      OBVIOUS
    <2> HIDE DEF B
    <2> QED BY <1>1, <2>1, SmallestSet
  <1>3. IsFiniteSet(T) /\ T \subseteq D /\ Total(Fibres(f, T, S), S) # Cardinality(T)
    BY FS_Subset
  <1>4. T # {}
    <2>1. SUFFICES ASSUME T = {} PROVE FALSE
      OBVIOUS
    <2>2. Cardinality({}) = 0
      BY FS_EmptySet
    <2>3. \A j \in S : Fibres(f, T, S)[j] = 0
      <3> TAKE j \in S
      <3>1. {d \in T : f[d] = j} = {}
        BY <2>1
      <3> QED BY <2>2, <3>1 DEF Fibres
    <2>4. Total(Fibres(f, T, S), S) = 0
      BY <2>3, TotalZero
    <2> QED BY <1>3, <2>1, <2>2, <2>4
  <1>5. PICK c \in T : TRUE
    BY <1>4
  <1> DEFINE R == T \ {c}
             e == f[c]
             v == Fibres(f, T, S)
             w == Fibres(f, R, S)
  <1>6. R \in SUBSET D /\ R \notin B /\ IsFiniteSet(R) /\ e \in S
    <2>1. R \in SUBSET D /\ R \subseteq T /\ R # T
      BY <1>3, <1>5
    <2>2. IsFiniteSet(R)
      BY <2>1, FS_Subset
    <2>3. e \in S
      BY <1>3, <1>5
    <2> HIDE DEF R, B
    <2> QED BY <1>2, <2>1, <2>2, <2>3
  <1>7. Total(w, S) = Cardinality(R)
    BY <1>6
  <1>8. Cardinality(T) = Cardinality(R) + 1 /\ Cardinality(R) \in Nat
    <2>1. Cardinality(R) = Cardinality(T) - 1 /\ Cardinality(T) \in Nat
      BY <1>3, <1>5, FS_RemoveElement, FS_CardinalityType
    <2>2. Cardinality(R) \in Nat
      BY <1>6, FS_CardinalityType
    <2> QED BY <2>1, <2>2
  <1>9. ASSUME NEW j \in S PROVE v[j] = (IF j = e THEN w[e] + 1 ELSE w[j]) /\ w[j] \in Nat
    <2> DEFINE X == {d \in R : f[d] = j}
               Y == {d \in T : f[d] = j}
    <2>1. X \in SUBSET R /\ IsFiniteSet(X) /\ Cardinality(X) \in Nat
      <3>1. X \in SUBSET R
        OBVIOUS
      <3> HIDE DEF X, R
      <3> QED BY <1>6, <3>1, FS_Subset, FS_CardinalityType
    <2>2. v[j] = Cardinality(Y) /\ w[j] = Cardinality(X)
      BY DEF Fibres
    <2>3. CASE j = e
      <3>1. Y = X \cup {c} /\ c \notin X
        BY <1>5, <2>3
      <3> HIDE DEF X, Y, v, w
      <3>2. Cardinality(Y) = Cardinality(X) + 1
        BY <2>1, <3>1, FS_AddElement
      <3> QED BY <2>1, <2>2, <2>3, <3>2
    <2>4. CASE j # e
      <3>1. Y = X
        BY <2>4
      <3> HIDE DEF X, Y, v, w
      <3> QED BY <2>1, <2>2, <2>4, <3>1
    <2> QED BY <2>3, <2>4
  <1> HIDE DEF v, w, R, e, B
  <1>10. Total(v, S) = Total(w, S) + 1
    BY <1>6, <1>9, TotalGains
  <1> QED BY <1>3, <1>7, <1>8, <1>10 DEF v
==============================================================================
