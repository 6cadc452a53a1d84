------------------------------ MODULE FoldTheory ------------------------------
(***************************************************************************)
(* What a fold over a sequence computes.  FoldLeft is a recursion over sets  *)
(* of indices; here it is shown to go through the sequence one element after *)
(* the other, so that a set which holds its base, and which the operator     *)
(* does not leave, holds its result.                                        *)
(*                                                                         *)
(* The operator is a parameter of the module, and so may be any: a module    *)
(* that reasons about a fold of its own instantiates this one.               *)
(***************************************************************************)
EXTENDS Integers, Sequences, SequencesExt, FiniteSetTheorems, WellFoundedInduction, TLAPS

CONSTANT Op(_, _, _)    \* of a parameter, what was made so far, and an element

-----------------------------------------------------------------------------
Below == {p \in Nat \X Nat : p[1] < p[2]}

(* Every set of naturals that is not empty has a least element. *)
LEMMA Smallest ==
    ASSUME NEW S \in SUBSET Nat, S # {}
    PROVE  \E m \in S : \A s \in S : m <= s
<1>1. IsWellFoundedOn(Below, Nat)
  BY NatLessThanWellFounded, Zenon DEF OpToRel, Below
<1>2. PICK m \in S : \A s \in S : <<s, m>> \notin Below
  BY <1>1, WFMin
<1>3. ASSUME NEW s \in S
      PROVE  m <= s
  <2>1. m \in Nat /\ s \in Nat /\ ~(s < m)
    BY <1>2 DEF Below
  <2> QED  BY <2>1
<1> QED  BY <1>3

(* A set of finite sets that is not empty has one with the fewest elements. *)
LEMMA Fewest ==
    ASSUME NEW C, C # {}, \A S \in C : IsFiniteSet(S)
    PROVE  \E S \in C : \A T \in C : ~(Cardinality(T) < Cardinality(S))
<1>1. PICK N : N = {Cardinality(S) : S \in C}
  OBVIOUS
<1>2. \A S \in C : Cardinality(S) \in Nat
  BY FS_CardinalityType
<1>3. N \in SUBSET Nat /\ N # {}
  BY <1>1, <1>2
<1>4. PICK n \in N : \A m \in N : n <= m
  BY <1>3, Smallest
<1>5. PICK S \in C : n = Cardinality(S)
  BY <1>1, <1>4
<1>6. \A T \in C : ~(Cardinality(T) < Cardinality(S))
  BY <1>1, <1>2, <1>4, <1>5
<1> QED  BY <1>6

(* A set of numbers up to n that is not empty has a greatest one. *)
LEMMA Greatest ==
    ASSUME NEW n \in Nat, NEW S, S \subseteq 1 .. n, S # {}
    PROVE  Max(S) \in S /\ \A s \in S : s <= Max(S)
<1> DEFINE above == {m \in Nat : \A s \in S : s <= m}
<1>1. n \in above
  OBVIOUS
<1>2. PICK m \in above : \A k \in above : m <= k
  BY <1>1, Smallest
<1>3. m \in S
  <2>1. CASE m = 0
    <3>1. PICK s \in S : s \in 1 .. n
      OBVIOUS
    <3>2. s <= m
      BY <1>2
    <3> QED  BY <2>1, <3>1, <3>2
  <2>2. CASE m # 0
    <3>1. m - 1 \in Nat /\ m - 1 \notin above
      BY <1>2, <2>2
    <3>2. PICK s \in S : ~(s <= m - 1)
      BY <3>1
    <3>3. s = m
      BY <1>2, <3>2
    <3> QED  BY <3>3
  <2> QED  BY <2>1, <2>2
<1>4. \E x \in S : \A y \in S : x >= y
  BY <1>2, <1>3
<1>5. Max(S) \in S /\ \A y \in S : Max(S) >= y
  BY <1>4 DEF Max
<1> QED  BY <1>5

(* What holds of the empty sequence, and of every sequence with one element   *)
(* more than one it holds of, holds of all sequences: as a set, the property  *)
(* can be named in a lemma.                                                 *)
LEMMA SeqInduction ==
    ASSUME NEW V, NEW C, << >> \in C,
           \A s \in Seq(V), x \in V : s \in C => Append(s, x) \in C
    PROVE  Seq(V) \subseteq C
<1> DEFINE bad == {n \in Nat : \E s \in Seq(V) : Len(s) = n /\ s \notin C}
<1>1. SUFFICES ASSUME NEW t \in Seq(V), t \notin C PROVE FALSE
  OBVIOUS
<1>2. bad # {}
  BY <1>1
<1>3. PICK n \in bad : \A m \in bad : n <= m
  BY <1>2, Smallest
<1>4. PICK s \in Seq(V) : Len(s) = n /\ s \notin C
  OBVIOUS
<1>5. n # 0
  <2>1. Len(s) = 0 => s = << >>
    OBVIOUS
  <2> QED  BY <1>4, <2>1
<1> DEFINE front == SubSeq(s, 1, n - 1)
<1>6. n \in Nat /\ n - 1 \in Nat /\ s[n] \in V
  BY <1>4, <1>5
<1>7. front \in Seq(V) /\ Len(front) = n - 1 /\ s = Append(front, s[n])
  BY <1>4, <1>6
<1>8. front \in C
  <2>1. SUFFICES ASSUME front \notin C PROVE FALSE
    OBVIOUS
  <2>2. n - 1 \in bad
    BY <1>6, <1>7, <2>1
  <2>3. n <= n - 1
    BY <1>3, <2>2
  <2> QED  BY <1>6, <2>3
<1> QED  BY <1>4, <1>6, <1>7, <1>8

-----------------------------------------------------------------------------
Folded(p, base, s) == FoldLeft(LAMBDA a, x : Op(p, a, x), base, s)

IsFold(g, p, base, s, S) ==
    g = [T \in SUBSET S |-> IF T = {} THEN base ELSE Op(p, g[T \ {Max(T)}], s[Max(T)])]

Solution(p, base, s, S) == CHOOSE g : IsFold(g, p, base, s, S)

(* A set of indices *)
Indices(U) == \E n \in Nat : U \subseteq 1 .. n

(* Every part of a set of indices is one, is finite, and has a greatest one. *)
LEMMA IndicesParts ==
    ASSUME NEW U, Indices(U), NEW T, T \subseteq U
    PROVE  Indices(T) /\ IsFiniteSet(T) /\ (T # {} => Max(T) \in T)
<1>1. PICK n \in Nat : U \subseteq 1 .. n
  BY DEF Indices
<1>2. T \subseteq 1 .. n /\ IsFiniteSet(1 .. n)
  BY <1>1, FS_Interval
<1>3. Indices(T)
  BY <1>2 DEF Indices
<1>4. IsFiniteSet(T)
  BY <1>2, FS_Subset
<1> QED  BY <1>2, <1>3, <1>4, Greatest

(* The definition of FoldLeft. *)
LEMMA FoldChosen ==
    \A p, base, s : Folded(p, base, s) = Solution(p, base, s, DOMAIN s)[DOMAIN s]
<1> QED  BY DEF Folded, FoldLeft, MapThenFoldSet, IsFold, Solution

(* Two solutions agree where the sequences do. *)
LEMMA FoldUnique ==
    ASSUME NEW p, NEW base, NEW s, NEW t, NEW R, NEW S, NEW g, NEW h,
           IsFold(g, p, base, s, R), IsFold(h, p, base, t, S),
           NEW U, Indices(U), U \subseteq R, U \subseteq S,
           \A i \in U : s[i] = t[i]
    PROVE  g[U] = h[U]
<1> DEFINE C == {T \in SUBSET U : g[T] # h[T]}
<1>1. SUFFICES ASSUME C # {} PROVE FALSE
  OBVIOUS
<1>2. \A T \in C : IsFiniteSet(T)
  BY IndicesParts
<1>3. PICK T \in C : \A V \in C : ~(Cardinality(V) < Cardinality(T))
  <2> HIDE DEF C
  <2> QED  BY <1>1, <1>2, Fewest
<1>4. T \in SUBSET R /\ T \in SUBSET S
  OBVIOUS
<1>5. CASE T = {}
  BY <1>4, <1>5 DEF IsFold
<1>6. CASE T # {}
  <2>1. PICK x : x = Max(T)
    OBVIOUS
  <2>2. x \in T
    BY <1>6, <2>1, IndicesParts
  <2>3. /\ g[T] = Op(p, g[T \ {x}], s[x])
        /\ h[T] = Op(p, h[T \ {x}], t[x])
    BY <1>4, <1>6, <2>1 DEF IsFold
  <2>4. g[T \ {x}] # h[T \ {x}]
    BY <2>2, <2>3
  <2>5. T \ {x} \in C
    BY <2>4
  <2>6. Cardinality(T \ {x}) < Cardinality(T)
    <3>1. Cardinality(T) \in Nat /\ Cardinality(T \ {x}) = Cardinality(T) - 1
      BY <1>2, <2>2, FS_RemoveElement, FS_CardinalityType
    <3> QED  BY <3>1
  <2> QED  BY <1>3, <2>5, <2>6
<1> QED  BY <1>5, <1>6

(* There is one for every sequence. *)
LEMMA FoldExists ==
    ASSUME NEW p, NEW base, NEW s, NEW S, Indices(S)
    PROVE  IsFold(Solution(p, base, s, S), p, base, s, S)
<1> DEFINE C == {T \in SUBSET S : ~ IsFold(Solution(p, base, s, T), p, base, s, T)}
<1>1. SUFFICES ASSUME C # {} PROVE FALSE
  OBVIOUS
<1>2. \A T \in SUBSET S : IsFiniteSet(T) /\ Indices(T)
  BY IndicesParts
<1>3. PICK T \in C : \A V \in C : ~(Cardinality(V) < Cardinality(T))
  <2>1. \A V \in C : IsFiniteSet(V)
    BY <1>2
  <2> HIDE DEF C
  <2> QED  BY <1>1, <2>1, Fewest
<1> DEFINE rest(U) == U \ {Max(U)}
           value(U) == Solution(p, base, s, U)[U]
           G == [U \in SUBSET T |-> IF U = {} THEN base ELSE Op(p, value(rest(U)), s[Max(U)])]
<1>4. ASSUME NEW U \in SUBSET T, U # {}
      PROVE  /\ rest(U) \in SUBSET T
             /\ IsFold(Solution(p, base, s, rest(U)), p, base, s, rest(U))
  <2>1. Max(U) \in U
    <3>1. U \in SUBSET S
      OBVIOUS
    <3> QED  BY <1>2, <1>4, <3>1, IndicesParts
  <2>2. Cardinality(rest(U)) < Cardinality(T)
    <3>1. IsFiniteSet(T) /\ IsFiniteSet(U) /\ Cardinality(U) <= Cardinality(T)
      BY <1>2, FS_Subset
    <3>2. Cardinality(rest(U)) = Cardinality(U) - 1
      BY <2>1, <3>1, FS_RemoveElement
    <3>3. Cardinality(U) \in Nat /\ Cardinality(T) \in Nat
      BY <3>1, FS_CardinalityType
    <3> QED  BY <3>1, <3>2, <3>3
  <2>3. rest(U) \notin C /\ rest(U) \in SUBSET S
    BY <1>3, <2>2
  <2> QED  BY <2>3
<1>5. ASSUME NEW U \in SUBSET T, U # {}
      PROVE  value(rest(U)) = G[rest(U)]
  <2>1. PICK V : V = rest(U)
    OBVIOUS
  <2>2. PICK g : g = Solution(p, base, s, V)
    OBVIOUS
  <2>3. IsFold(g, p, base, s, V) /\ V \in SUBSET T /\ value(V) = g[V]
    BY <1>4, <1>5, <2>1, <2>2
  <2>4. CASE V = {}
    BY <2>1, <2>3, <2>4 DEF IsFold
  <2>5. CASE V # {}
    <3>1. PICK h : h = Solution(p, base, s, rest(V))
      OBVIOUS
    <3>2. IsFold(h, p, base, s, rest(V)) /\ value(rest(V)) = h[rest(V)]
      BY <1>4, <2>3, <2>5, <3>1
    <3>3. g[rest(V)] = h[rest(V)]
      <4>1. PICK W : W = rest(V)
        OBVIOUS
      <4>2. Indices(W) /\ W \subseteq V /\ W \subseteq W
        <5>1. W \subseteq V /\ W \in SUBSET S
          BY <2>3, <4>1
        <5> QED  BY <1>2, <5>1
      <4> HIDE DEF value, G, rest, C
      <4>3. IsFold(h, p, base, s, W)
        BY <3>2, <4>1
      <4>4. \A i \in W : s[i] = s[i]
        OBVIOUS
      <4>5. g[W] = h[W]
        <5>1. IsFold(g, p, base, s, V)
          BY <2>3
        <5> QED  BY <4>2, <4>3, <4>4, <5>1, FoldUnique
      <4> QED  BY <4>1, <4>5
    <3>4. g[V] = Op(p, g[rest(V)], s[Max(V)])
      BY <2>3, <2>5 DEF IsFold
    <3> QED  BY <2>1, <2>3, <2>5, <3>2, <3>3, <3>4
  <2> QED  BY <2>4, <2>5
<1>6. G = [U \in SUBSET T |-> IF U = {} THEN base ELSE Op(p, G[rest(U)], s[Max(U)])]
  BY <1>5
<1>7. IsFold(G, p, base, s, T)
  BY <1>6 DEF IsFold
<1>8. IsFold(Solution(p, base, s, T), p, base, s, T)
  BY <1>7 DEF Solution
<1> QED  BY <1>3, <1>8

(* Nothing folds to the base. *)
LEMMA FoldEmpty == \A p, base : Folded(p, base, << >>) = base
<1> TAKE p, base
<1>1. DOMAIN << >> = {} /\ Indices({})
  BY DEF Indices
<1>2. PICK g : g = Solution(p, base, << >>, {})
  OBVIOUS
<1>3. IsFold(g, p, base, << >>, {}) /\ Folded(p, base, << >>) = g[{}]
  BY <1>1, <1>2, FoldExists, FoldChosen
<1> QED  BY <1>3 DEF IsFold

(* One element more is one step more. *)
LEMMA FoldAppend ==
    ASSUME NEW p, NEW base, NEW V, NEW s \in Seq(V), NEW x \in V
    PROVE  Folded(p, base, Append(s, x)) = Op(p, Folded(p, base, s), x)
<1>1. PICK n \in Nat : n = Len(s) + 1
  OBVIOUS
<1>2. PICK t : t = Append(s, x)
  OBVIOUS
<1>3. PICK R : R = 1 .. n
  OBVIOUS
<1>4. PICK U : U = 1 .. n - 1
  OBVIOUS
<1>5. /\ R = DOMAIN t /\ U = DOMAIN s /\ t[n] = x
      /\ \A i \in U : t[i] = s[i]
  BY <1>1, <1>2, <1>3, <1>4
<1>6. /\ Indices(R) /\ Indices(U) /\ U \subseteq R /\ U \subseteq U
      /\ R # {} /\ U = R \ {n}
  <2>1. n - 1 \in Nat /\ Len(s) \in Nat
    BY <1>1
  <2>2. Indices(R) /\ Indices(U)
    BY <1>3, <1>4, <2>1 DEF Indices
  <2>3. n \in R /\ U = R \ {n}
    BY <1>1, <1>3, <1>4, <2>1
  <2> QED  BY <2>2, <2>3
<1>7. Max(R) = n
  <2>1. n \in R /\ R \subseteq 1 .. n
    BY <1>1, <1>3
  <2>2. Max(R) \in R /\ n <= Max(R)
    BY <2>1, Greatest
  <2> QED  BY <1>3, <2>2
<1>8. PICK g : g = Solution(p, base, t, R)
  OBVIOUS
<1>9. PICK h : h = Solution(p, base, s, U)
  OBVIOUS
<1>10. /\ IsFold(g, p, base, t, R) /\ Folded(p, base, t) = g[R]
       /\ IsFold(h, p, base, s, U) /\ Folded(p, base, s) = h[U]
  BY <1>5, <1>6, <1>8, <1>9, FoldExists, FoldChosen
<1>11. g[U] = h[U]
  BY <1>5, <1>6, <1>10, FoldUnique
<1>12. g[R] = Op(p, g[U], t[n])
  BY <1>6, <1>7, <1>10 DEF IsFold
<1> QED  BY <1>2, <1>5, <1>10, <1>11, <1>12

(* A set that holds the base, and that the operator does not leave, holds     *)
(* what is made of a sequence.                                              *)
LEMMA FoldIn ==
    ASSUME NEW p, NEW base, NEW V, NEW s \in Seq(V), NEW T, base \in T,
           \A a \in T, x \in V : Op(p, a, x) \in T
    PROVE  Folded(p, base, s) \in T
<1> DEFINE C == {t \in Seq(V) : Folded(p, base, t) \in T}
<1>1. << >> \in C
  BY FoldEmpty
<1>2. ASSUME NEW t \in Seq(V), NEW x \in V, t \in C
      PROVE  Append(t, x) \in C
  BY <1>2, FoldAppend
<1>3. Seq(V) \subseteq C
  <2> HIDE DEF C
  <2> QED  BY <1>1, <1>2, SeqInduction
<1> QED  BY <1>3

(* What comes later goes on from what was made of what came before. *)
LEMMA FoldConcat ==
    ASSUME NEW p, NEW base, NEW V, NEW s \in Seq(V), NEW t \in Seq(V)
    PROVE  Folded(p, base, s \o t) = Folded(p, Folded(p, base, s), t)
<1> DEFINE C == {u \in Seq(V) : Folded(p, base, s \o u) = Folded(p, Folded(p, base, s), u)}
<1>1. << >> \in C
  <2>1. s \o << >> = s
    OBVIOUS
  <2> QED  BY <2>1, FoldEmpty
<1>2. ASSUME NEW u \in Seq(V), NEW x \in V, u \in C
      PROVE  Append(u, x) \in C
  <2>1. s \o Append(u, x) = Append(s \o u, x) /\ s \o u \in Seq(V)
    OBVIOUS
  <2>2. Folded(p, base, Append(s \o u, x)) = Op(p, Folded(p, base, s \o u), x)
    <3> HIDE DEF C
    <3>1. PICK v \in Seq(V) : v = s \o u
      BY <2>1
    <3>2. Folded(p, base, Append(v, x)) = Op(p, Folded(p, base, v), x)
      BY FoldAppend
    <3> QED  BY <3>1, <3>2, Zenon
  <2>3. Folded(p, Folded(p, base, s), Append(u, x))
            = Op(p, Folded(p, Folded(p, base, s), u), x)
    BY FoldAppend
  <2>4. Append(u, x) \in Seq(V)
    OBVIOUS
  <2>5. Folded(p, base, s \o u) = Folded(p, Folded(p, base, s), u)
    BY <1>2
  <2> QED  BY <2>1, <2>2, <2>3, <2>4, <2>5
<1>3. Seq(V) \subseteq C
  <2> HIDE DEF C
  <2> QED  BY <1>1, <1>2, SeqInduction
<1> QED  BY <1>3
=============================================================================
