----------------------------- MODULE DataProofs -----------------------------
(***************************************************************************)
(* What the models compute over finite sets and sequences: the sum of a      *)
(* weight over a set (MapThenSumSet), which is how byte counts and token     *)
(* counts are defined, and the elements of a sequence that are in a set      *)
(* (Keeping).  Both are recursions; the induction they call for is by a      *)
(* least counterexample, as the induction theorems of the library take the   *)
(* property as a parameter.                                                 *)
(***************************************************************************)
EXTENDS Integers, Sequences, SequencesExt, Keep, FiniteSetTheorems, TLAPS

K == INSTANCE FoldTheory WITH Op <- KeepIn

(* The operators of the library are the same in the instance. *)
LEMMA KSame ==
    /\ \A S : K!IsFiniteSet(S) <=> IsFiniteSet(S)
    /\ \A S : K!Cardinality(S) = Cardinality(S)
    /\ \A S : K!Max(S) = Max(S)
<1>1. \A S : K!IsFiniteSet(S) <=> IsFiniteSet(S)
  BY DEF K!IsFiniteSet, IsFiniteSet
<1>2. \A S : K!Cardinality(S) = Cardinality(S)
  BY DEF K!Cardinality, Cardinality
<1>3. \A S : K!Max(S) = Max(S)
  BY DEF K!Max, Max
<1> QED  BY <1>1, <1>2, <1>3

(* A fold with this operator. *)
LEMMA KFolded == \A T, s : Keeping(s, T) = K!Folded(T, << >>, s)
<1> QED  BY DEF Keeping, FoldLeft, MapThenFoldSet, Max, K!Folded, K!FoldLeft,
                K!MapThenFoldSet, K!Max

(* Every set of naturals that is not empty has a least element. *)
LEMMA Smallest ==
    ASSUME NEW S \in SUBSET Nat, S # {}
    PROVE  \E m \in S : \A s \in S : m <= s
<1> QED  BY K!Smallest

(* A nonempty set of naturals with a bound has a greatest element: the one  *)
(* at the least distance from the bound.                                   *)
LEMMA Greatest ==
    ASSUME NEW n \in Nat, NEW S \in SUBSET (1 .. n), S # {}
    PROVE  \E m \in S : \A s \in S : s <= m
<1> DEFINE T == {k \in Nat : k <= n /\ n - k \in S}
<1>1. T \subseteq Nat /\ T # {}
  <2>1. PICK s \in S : TRUE
    OBVIOUS
  <2>2. n - s \in T
    BY <2>1
  <2> QED  BY <2>2
<1>2. PICK k \in T : \A l \in T : k <= l
  <2> HIDE DEF T
  <2> QED  BY <1>1, Smallest
<1>3. ASSUME NEW s \in S
      PROVE  s <= n - k
  <2>1. n - s \in T /\ s \in Nat
    OBVIOUS
  <2>2. k \in Nat /\ k <= n - s
    BY <1>2, <2>1
  <2> QED  BY <2>1, <2>2
<1>4. n - k \in S
  BY <1>2
<1> QED  BY <1>3, <1>4

(* A set of finite sets that is not empty has one with the fewest elements. *)
LEMMA Fewest ==
    ASSUME NEW C, C # {}, \A S \in C : IsFiniteSet(S)
    PROVE  \E S \in C : \A T \in C : ~(Cardinality(T) < Cardinality(S))
<1> QED  BY KSame, K!Fewest

(* What holds of the empty sequence, and of every sequence with one element   *)
(* more than one it holds of, holds of all sequences.                       *)
LEMMA SeqInduction ==
    ASSUME NEW V, NEW C, << >> \in C,
           \A s \in Seq(V), x \in V : s \in C => Append(s, x) \in C
    PROVE  Seq(V) \subseteq C
<1> QED  BY K!SeqInduction

-----------------------------------------------------------------------------
(* One element more is one more in the set of the elements. *)
LEMMA ToSetAppend ==
    ASSUME NEW V, NEW s \in Seq(V), NEW x \in V
    PROVE  ToSet(Append(s, x)) = ToSet(s) \cup {x}
<1>1. PICK n \in Nat : n = Len(s)
  OBVIOUS
<1>2. PICK t : t = Append(s, x)
  OBVIOUS
<1>3. /\ DOMAIN t = 1 .. n + 1 /\ DOMAIN s = 1 .. n /\ t[n + 1] = x
      /\ \A i \in 1 .. n : t[i] = s[i]
  BY <1>1, <1>2
<1>4. 1 .. n + 1 = (1 .. n) \cup {n + 1}
  OBVIOUS
<1> QED  BY <1>2, <1>3, <1>4 DEF ToSet

(* Of nothing nothing is kept. *)
LEMMA KeepEmpty == \A T : Keeping(<< >>, T) = << >>
<1> QED  BY KFolded, K!FoldEmpty

(* One element more is kept or is not. *)
LEMMA KeepAppend ==
    ASSUME NEW T, NEW V, NEW s \in Seq(V), NEW x \in V
    PROVE  Keeping(Append(s, x), T)
                = IF x \in T THEN Append(Keeping(s, T), x) ELSE Keeping(s, T)
<1>1. K!Folded(T, << >>, Append(s, x)) = KeepIn(T, K!Folded(T, << >>, s), x)
  BY K!FoldAppend
<1> QED  BY <1>1, KFolded DEF KeepIn

(* What is kept is what there is of the set. *)
LEMMA KeepSet ==
    ASSUME NEW T, NEW V, NEW s \in Seq(V)
    PROVE  /\ Keeping(s, T) \in Seq(V \cap T)
           /\ ToSet(Keeping(s, T)) = ToSet(s) \cap T
           /\ Len(Keeping(s, T)) <= Len(s)
<1> DEFINE C == {t \in Seq(V) : /\ Keeping(t, T) \in Seq(V \cap T)
                                /\ ToSet(Keeping(t, T)) = ToSet(t) \cap T
                                /\ Len(Keeping(t, T)) <= Len(t)}
<1>1. << >> \in C
  <2>1. PICK e : e = << >>
    OBVIOUS
  <2>2. Keeping(e, T) = e
    BY <2>1, KeepEmpty
  <2>3. ToSet(e) = {}
    BY <2>1 DEF ToSet
  <2>4. e \in Seq(V \cap T) /\ e \in Seq(V) /\ Len(e) <= Len(e)
    BY <2>1
  <2>5. e \in C
    BY <2>2, <2>3, <2>4
  <2> QED  BY <2>1, <2>5
<1>2. ASSUME NEW t \in Seq(V), NEW x \in V, t \in C
      PROVE  Append(t, x) \in C
  <2>1. PICK k : k = Keeping(t, T)
    OBVIOUS
  <2>2. k \in Seq(V \cap T) /\ ToSet(k) = ToSet(t) \cap T /\ Len(k) <= Len(t)
    BY <1>2, <2>1
  <2>3. ToSet(Append(t, x)) = ToSet(t) \cup {x} /\ Append(t, x) \in Seq(V)
    BY ToSetAppend
  <2>4. CASE x \in T
    <3>1. Keeping(Append(t, x), T) = Append(k, x)
      BY <2>1, <2>4, KeepAppend
    <3>2. ToSet(Append(k, x)) = ToSet(k) \cup {x}
      BY <2>2, <2>4, ToSetAppend
    <3>3. Append(k, x) \in Seq(V \cap T) /\ Len(Append(k, x)) <= Len(Append(t, x))
      BY <2>2, <2>4
    <3>4. ToSet(Append(k, x)) = ToSet(Append(t, x)) \cap T
      BY <2>2, <2>3, <2>4, <3>2
    <3> QED  BY <2>3, <3>1, <3>3, <3>4
  <2>5. CASE x \notin T
    <3>1. Keeping(Append(t, x), T) = k
      BY <2>1, <2>5, KeepAppend
    <3>2. Len(k) <= Len(Append(t, x))
      BY <2>2
    <3> QED  BY <2>2, <2>3, <2>5, <3>1, <3>2
  <2> QED  BY <2>4, <2>5
<1>3. Seq(V) \subseteq C
  <2> HIDE DEF C
  <2> QED  BY <1>1, <1>2, SeqInduction
<1> QED  BY <1>3

-----------------------------------------------------------------------------
Sum(w, S) == MapThenSumSet(LAMBDA x : w[x], S)

(* The recursion of MapThenSumSet. *)
Pick(T) == CHOOSE x \in T : TRUE

IsSum(g, w, S) ==
    g = [T \in SUBSET S |-> IF T = {} THEN 0 ELSE w[Pick(T)] + g[T \ {Pick(T)}]]

(* Sum is the value at S of a solution of that equation. *)
LEMMA SumChosen == \A w, S : Sum(w, S) = (CHOOSE g : IsSum(g, w, S))[S]
<1> QED  BY DEF Sum, MapThenSumSet, MapThenFoldSet, IsSum, Pick

(* Its solutions over two sets agree on what is common to the sets. *)
LEMMA SumUnique ==
    ASSUME NEW w, NEW R, NEW S, NEW g, NEW h, IsSum(g, w, R), IsSum(h, w, S),
           NEW U, IsFiniteSet(U), U \subseteq R, U \subseteq S
    PROVE  g[U] = h[U]
<1> DEFINE C == {T \in SUBSET U : g[T] # h[T]}
<1>1. SUFFICES ASSUME C # {} PROVE FALSE
  OBVIOUS
<1>2. \A T \in C : IsFiniteSet(T)
  BY FS_Subset
<1>3. PICK T \in C : \A V \in C : ~(Cardinality(V) < Cardinality(T))
  <2> HIDE DEF C
  <2> QED  BY <1>1, <1>2, Fewest
<1>4. T \in SUBSET R /\ T \in SUBSET S
  OBVIOUS
<1>5. CASE T = {}
  BY <1>4, <1>5 DEF IsSum
<1>6. CASE T # {}
  <2>1. Pick(T) \in T
    BY <1>6 DEF Pick
  <2>2. /\ g[T] = w[Pick(T)] + g[T \ {Pick(T)}]
        /\ h[T] = w[Pick(T)] + h[T \ {Pick(T)}]
    BY <1>4, <1>6 DEF IsSum
  <2>3. g[T \ {Pick(T)}] # h[T \ {Pick(T)}]
    BY <2>2
  <2>4. T \ {Pick(T)} \in C
    BY <2>3
  <2>5. Cardinality(T \ {Pick(T)}) < Cardinality(T)
    <3>1. IsFiniteSet(T)
      BY <1>2
    <3>2. Cardinality(T) \in Nat /\ Cardinality(T \ {Pick(T)}) = Cardinality(T) - 1
      BY <2>1, <3>1, FS_RemoveElement, FS_CardinalityType
    <3> QED  BY <3>2
  <2> QED  BY <1>3, <2>4, <2>5
<1> QED  BY <1>5, <1>6

(* There is one over every finite set. *)
LEMMA SumExists ==
    ASSUME NEW w, NEW S, IsFiniteSet(S)
    PROVE  \E g : IsSum(g, w, S)
<1> DEFINE C == {T \in SUBSET S : ~ \E g : IsSum(g, w, T)}
<1>1. SUFFICES ASSUME C # {} PROVE FALSE
  OBVIOUS
<1>2. \A T \in SUBSET S : IsFiniteSet(T)
  BY FS_Subset
<1>3. PICK T \in C : \A V \in C : ~(Cardinality(V) < Cardinality(T))
  <2>1. \A V \in C : IsFiniteSet(V)
    BY <1>2
  <2> HIDE DEF C
  <2> QED  BY <1>1, <2>1, Fewest
<1> DEFINE rest(U) == U \ {Pick(U)}
           G == [U \in SUBSET T |->
                    IF U = {} THEN 0 ELSE w[Pick(U)] + Sum(w, rest(U))]
<1>4. ASSUME NEW U \in SUBSET T, U # {}
      PROVE  rest(U) \in SUBSET T /\ IsSum(CHOOSE g : IsSum(g, w, rest(U)), w, rest(U))
  <2>1. Pick(U) \in U
    BY <1>4 DEF Pick
  <2>2. Cardinality(rest(U)) < Cardinality(T)
    <3>1. IsFiniteSet(T) /\ IsFiniteSet(U) /\ Cardinality(U) <= Cardinality(T)
      BY <1>2, FS_Subset
    <3>2. Cardinality(rest(U)) = Cardinality(U) - 1
      BY <2>1, <3>1, FS_RemoveElement
    <3>3. Cardinality(U) \in Nat /\ Cardinality(T) \in Nat
      BY <3>1, FS_CardinalityType
    <3> QED  BY <3>1, <3>2, <3>3
  <2>3. rest(U) \notin C /\ rest(U) \in SUBSET S
    BY <1>3, <2>2
  <2> QED  BY <2>3
<1>5. ASSUME NEW U \in SUBSET T, U # {}
      PROVE  Sum(w, rest(U)) = G[rest(U)]
  <2>1. PICK V : V = rest(U)
    OBVIOUS
  <2>2. PICK g : g = (CHOOSE f : IsSum(f, w, V))
    OBVIOUS
  <2>3. IsSum(g, w, V) /\ V \in SUBSET T /\ Sum(w, V) = g[V]
    BY <1>4, <1>5, <2>1, <2>2, SumChosen
  <2>4. CASE V = {}
    BY <2>1, <2>3, <2>4 DEF IsSum
  <2>5. CASE V # {}
    <3>1. PICK h : h = (CHOOSE f : IsSum(f, w, rest(V)))
      OBVIOUS
    <3>2. IsSum(h, w, rest(V)) /\ Sum(w, rest(V)) = h[rest(V)]
      BY <1>4, <2>3, <2>5, <3>1, SumChosen
    <3>3. g[rest(V)] = h[rest(V)]
      <4>1. IsFiniteSet(rest(V)) /\ rest(V) \subseteq V
        BY <1>2, <2>3
      <4> HIDE DEF rest
      <4> QED  BY <2>3, <3>2, <4>1, SumUnique
    <3>4. g[V] = w[Pick(V)] + g[rest(V)]
      BY <2>3, <2>5 DEF IsSum
    <3> QED  BY <2>1, <2>3, <2>5, <3>2, <3>3, <3>4
  <2> QED  BY <2>4, <2>5
<1>6. G = [U \in SUBSET T |-> IF U = {} THEN 0 ELSE w[Pick(U)] + G[rest(U)]]
  BY <1>5
<1>7. IsSum(G, w, T)
  BY <1>6 DEF IsSum
<1> QED  BY <1>3, <1>7

(* The recursion, of the sum itself. *)
LEMMA SumRecursion ==
    ASSUME NEW w, NEW S, IsFiniteSet(S)
    PROVE  Sum(w, S) = IF S = {} THEN 0 ELSE w[Pick(S)] + Sum(w, S \ {Pick(S)})
<1>1. PICK g : g = (CHOOSE f : IsSum(f, w, S))
  OBVIOUS
<1>2. IsSum(g, w, S) /\ Sum(w, S) = g[S]
  BY <1>1, SumExists, SumChosen
<1>3. PICK V : V = S \ {Pick(S)}
  OBVIOUS
<1>4. IsFiniteSet(V) /\ V \subseteq S
  BY <1>3, FS_Subset
<1>5. PICK h : h = (CHOOSE f : IsSum(f, w, V))
  OBVIOUS
<1>6. IsSum(h, w, V) /\ Sum(w, V) = h[V]
  BY <1>4, <1>5, SumExists, SumChosen
<1>7. g[V] = h[V]
  BY <1>2, <1>4, <1>6, SumUnique
<1>8. g[S] = IF S = {} THEN 0 ELSE w[Pick(S)] + g[V]
  BY <1>2, <1>3 DEF IsSum
<1> QED  BY <1>2, <1>3, <1>6, <1>7, <1>8

(* Nothing sums to 0. *)
LEMMA SumEmpty == ASSUME NEW w PROVE Sum(w, {}) = 0
<1> QED  BY FS_EmptySet, SumRecursion

(* Weights that are naturals sum to a natural. *)
LEMMA SumNat ==
    ASSUME NEW w, NEW S, IsFiniteSet(S), \A x \in S : w[x] \in Nat
    PROVE  Sum(w, S) \in Nat
<1> DEFINE C == {T \in SUBSET S : Sum(w, T) \notin Nat}
<1>1. SUFFICES ASSUME C # {} PROVE FALSE
  OBVIOUS
<1>2. \A T \in SUBSET S : IsFiniteSet(T)
  BY FS_Subset
<1>3. PICK T \in C : \A V \in C : ~(Cardinality(V) < Cardinality(T))
  <2>1. \A V \in C : IsFiniteSet(V)
    BY <1>2
  <2> HIDE DEF C
  <2> QED  BY <1>1, <2>1, Fewest
<1>4. T # {}
  <2>1. Sum(w, T) \notin Nat
    OBVIOUS
  <2> QED  BY <2>1, SumEmpty
<1>5. PICK V : V = T \ {Pick(T)}
  OBVIOUS
<1>6. Pick(T) \in T
  BY <1>4 DEF Pick
<1>7. Cardinality(V) < Cardinality(T)
  <2>1. IsFiniteSet(T)
    BY <1>2
  <2>2. Cardinality(T) \in Nat /\ Cardinality(V) = Cardinality(T) - 1
    BY <1>5, <1>6, <2>1, FS_RemoveElement, FS_CardinalityType
  <2> QED  BY <2>2
<1>8. V \notin C /\ V \in SUBSET S
  BY <1>3, <1>5, <1>7
<1>9. Sum(w, T) = w[Pick(T)] + Sum(w, V) /\ w[Pick(T)] \in Nat
  BY <1>2, <1>4, <1>5, <1>6, SumRecursion
<1> QED  BY <1>8, <1>9

(* Any element may be the one that is added. *)
LEMMA SumElement ==
    ASSUME NEW w, NEW S, IsFiniteSet(S), \A x \in S : w[x] \in Nat,
           NEW e \in S
    PROVE  Sum(w, S) = w[e] + Sum(w, S \ {e})
<1> DEFINE C == {T \in SUBSET S : \E x \in T : Sum(w, T) # w[x] + Sum(w, T \ {x})}
<1>1. SUFFICES ASSUME C # {} PROVE FALSE
  OBVIOUS
<1>2. \A T \in SUBSET S : IsFiniteSet(T) /\ Sum(w, T) \in Nat
  BY FS_Subset, SumNat
<1>3. PICK T \in C : \A V \in C : ~(Cardinality(V) < Cardinality(T))
  <2>1. \A V \in C : IsFiniteSet(V)
    BY <1>2
  <2> HIDE DEF C
  <2> QED  BY <1>1, <2>1, Fewest
<1>4. PICK x \in T : Sum(w, T) # w[x] + Sum(w, T \ {x})
  OBVIOUS
<1>5. PICK p : p = Pick(T)
  OBVIOUS
<1>6. p \in T /\ Sum(w, T) = w[p] + Sum(w, T \ {p}) /\ x # p
  <2>1. IsFiniteSet(T) /\ T # {}
    BY <1>2
  <2>2. Sum(w, T) = w[p] + Sum(w, T \ {p})
    BY <1>5, <2>1, SumRecursion
  <2>3. p \in T
    BY <1>5, <2>1 DEF Pick
  <2> QED  BY <1>4, <2>2, <2>3
<1>7. ASSUME NEW y \in T, NEW z \in T, y # z
      PROVE  Sum(w, T \ {y}) = w[z] + Sum(w, T \ {y, z})
  <2>1. IsFiniteSet(T)
    BY <1>2
  <2>2. Cardinality(T) \in Nat /\ Cardinality(T \ {y}) = Cardinality(T) - 1
    BY <2>1, FS_RemoveElement, FS_CardinalityType
  <2>3. T \ {y} \in SUBSET S
    OBVIOUS
  <2>4. Cardinality(T \ {y}) < Cardinality(T)
    BY <2>2
  <2>5. T \ {y} \notin C
    BY <1>3, <2>4
  <2>6. (T \ {y}) \ {z} = T \ {y, z} /\ z \in T \ {y}
    BY <1>7
  <2> QED  BY <2>3, <2>5, <2>6
<1>8. PICK V : V = T \ {p, x} /\ V = T \ {x, p}
  OBVIOUS
<1>9. /\ Sum(w, T \ {p}) = w[x] + Sum(w, V)
      /\ Sum(w, T \ {x}) = w[p] + Sum(w, V)
  BY <1>6, <1>7, <1>8
<1>10. w[x] \in Nat /\ w[p] \in Nat /\ Sum(w, V) \in Nat
  BY <1>2, <1>6, <1>8
<1> HIDE DEF C
<1> QED  BY <1>4, <1>6, <1>9, <1>10

(* The sum over two sets with no element in common. *)
LEMMA SumDisjoint ==
    ASSUME NEW w, NEW A, NEW B, IsFiniteSet(A), IsFiniteSet(B), A \cap B = {},
           \A x \in A \cup B : w[x] \in Nat
    PROVE  Sum(w, A \cup B) = Sum(w, A) + Sum(w, B)
<1> DEFINE C == {T \in SUBSET A : Sum(w, T \cup B) # Sum(w, T) + Sum(w, B)}
<1>1. SUFFICES ASSUME C # {} PROVE FALSE
  OBVIOUS
<1>2. \A T \in SUBSET A : /\ IsFiniteSet(T) /\ Sum(w, T) \in Nat
                          /\ IsFiniteSet(T \cup B)
  BY FS_Subset, FS_Union, SumNat
<1>3. PICK T \in C : \A V \in C : ~(Cardinality(V) < Cardinality(T))
  <2>1. \A V \in C : IsFiniteSet(V)
    BY <1>2
  <2> HIDE DEF C
  <2> QED  BY <1>1, <2>1, Fewest
<1>4. Sum(w, B) \in Nat
  BY SumNat
<1>5. T # {}
  <2>1. Sum(w, {}) = 0
    BY SumEmpty
  <2>2. {} \cup B = B
    OBVIOUS
  <2>3. Sum(w, {} \cup B) = Sum(w, {}) + Sum(w, B)
    BY <1>4, <2>1, <2>2
  <2> QED  BY <2>3
<1>6. PICK a : a \in T
  BY <1>5
<1>7. Sum(w, (T \ {a}) \cup B) = Sum(w, T \ {a}) + Sum(w, B)
  <2>1. IsFiniteSet(T)
    BY <1>2
  <2>2. Cardinality(T) \in Nat /\ Cardinality(T \ {a}) = Cardinality(T) - 1
    BY <1>6, <2>1, FS_RemoveElement, FS_CardinalityType
  <2>3. T \ {a} \notin C /\ T \ {a} \in SUBSET A
    BY <1>3, <2>2
  <2> QED  BY <2>3
<1>8. Sum(w, T) = w[a] + Sum(w, T \ {a})
  BY <1>2, <1>6, SumElement
<1>9. Sum(w, T \cup B) = w[a] + Sum(w, (T \ {a}) \cup B)
  <2>1. (T \cup B) \ {a} = (T \ {a}) \cup B /\ a \in T \cup B
    BY <1>6
  <2>2. \A x \in T \cup B : w[x] \in Nat
    OBVIOUS
  <2>3. Sum(w, T \cup B) = w[a] + Sum(w, (T \cup B) \ {a})
    BY <1>2, <2>1, <2>2, SumElement
  <2> QED  BY <2>1, <2>3
<1>10. Sum(w, T \ {a}) \in Nat /\ w[a] \in Nat
  BY <1>2, <1>6
<1> QED  BY <1>4, <1>7, <1>8, <1>9, <1>10

(* Only the weights of the elements matter. *)
LEMMA SumSame ==
    ASSUME NEW v, NEW w, NEW S, IsFiniteSet(S), \A x \in S : v[x] = w[x]
    PROVE  Sum(v, S) = Sum(w, S)
<1> DEFINE C == {T \in SUBSET S : Sum(v, T) # Sum(w, T)}
<1>1. SUFFICES ASSUME C # {} PROVE FALSE
  OBVIOUS
<1>2. \A T \in SUBSET S : IsFiniteSet(T)
  BY FS_Subset
<1>3. PICK T \in C : \A V \in C : ~(Cardinality(V) < Cardinality(T))
  <2>1. \A V \in C : IsFiniteSet(V)
    BY <1>2
  <2> HIDE DEF C
  <2> QED  BY <1>1, <2>1, Fewest
<1>4. /\ Sum(v, T) = IF T = {} THEN 0 ELSE v[Pick(T)] + Sum(v, T \ {Pick(T)})
      /\ Sum(w, T) = IF T = {} THEN 0 ELSE w[Pick(T)] + Sum(w, T \ {Pick(T)})
  BY <1>2, SumRecursion
<1>5. T # {} /\ Pick(T) \in T
  BY <1>4 DEF Pick
<1>6. Sum(v, T \ {Pick(T)}) = Sum(w, T \ {Pick(T)})
  <2>1. IsFiniteSet(T)
    BY <1>2
  <2>2. /\ Cardinality(T) \in Nat
        /\ Cardinality(T \ {Pick(T)}) = Cardinality(T) - 1
    BY <1>5, <2>1, FS_RemoveElement, FS_CardinalityType
  <2>3. T \ {Pick(T)} \notin C /\ T \ {Pick(T)} \in SUBSET S
    BY <1>3, <2>2
  <2> QED  BY <2>3
<1> QED  BY <1>4, <1>5, <1>6

(* A part weighs no more than the whole. *)
LEMMA SumMonotone ==
    ASSUME NEW w, NEW A, NEW B, IsFiniteSet(B), A \subseteq B,
           \A x \in B : w[x] \in Nat
    PROVE  Sum(w, A) <= Sum(w, B) /\ Sum(w, B \ A) = Sum(w, B) - Sum(w, A)
<1>1. PICK R : R = B \ A
  OBVIOUS
<1>2. IsFiniteSet(A) /\ IsFiniteSet(R) /\ A \cap R = {} /\ A \cup R = B
  BY <1>1, FS_Subset
<1>3. \A x \in A \cup R : w[x] \in Nat
  BY <1>2
<1>4. Sum(w, A) \in Nat /\ Sum(w, R) \in Nat
  BY <1>2, <1>3, SumNat
<1>5. Sum(w, B) = Sum(w, A) + Sum(w, R)
  BY <1>2, <1>3, SumDisjoint
<1> QED  BY <1>1, <1>4, <1>5
=============================================================================
