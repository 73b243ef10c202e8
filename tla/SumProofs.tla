------------------------------ MODULE SumProofs ------------------------------
(***************************************************************************)
(* Sums of a function over a finite set (SumFunctionOnSet of Functions),   *)
(* which the ledger invariants are stated with.  The operator takes the    *)
(* elements in an order nobody knows; these lemmas say that the order does *)
(* not matter and how a sum changes with its set and with its terms.       *)
(*                                                                         *)
(* There is no induction rule to cite (a rule's property would be an       *)
(* operator), so a fact about every finite set is proved from a smallest   *)
(* subset that it is false of.                                             *)
(***************************************************************************)
EXTENDS Functions, FiniteSetTheorems, WellFoundedInduction, TLAPS

Chosen(T) == CHOOSE x \in T : TRUE

\* What the recursion of SumFunctionOnSet says of the sums s of all subsets of S.
IsSum(f, S, s) ==
    s = [T \in SUBSET S |-> IF T = {} THEN 0 ELSE f[Chosen(T)] + s[T \ {Chosen(T)}]]

\* The same for any element in place of the chosen one.
Additive(f, S, h) ==
    /\ h \in [SUBSET S -> Int]
    /\ h[{}] = 0
    /\ \A T \in SUBSET S : \A x \in T : h[T] = f[x] + h[T \ {x}]

Ints(f, S) == \A x \in S : f[x] \in Int

-----------------------------------------------------------------------------
(* Every finite set has sums that do not depend on the order, and the        *)
(* recursion has no other solution.                                          *)

LEMMA SumIsChosen ==
  ASSUME NEW f, NEW S
  PROVE  SumFunctionOnSet(f, S) = (CHOOSE s : IsSum(f, S, s))[S]
  BY Zenon DEF SumFunctionOnSet, FoldFunctionOnSet, MapThenFoldSet, IsSum, Chosen

LEMMA SmallestSubset ==
  ASSUME NEW S, IsFiniteSet(S), NEW B \in SUBSET SUBSET S, B # {}
  PROVE  \E T \in B : \A U \in B : ~(U \subseteq T /\ U # T)
PROOF
<1>1. IsWellFoundedOn(StrictSubsetOrdering(S), SUBSET S)
  BY FS_StrictSubsetOrderingWellFounded, FS_FiniteSubsetsOfFinite
<1>2. \E T \in B : \A U \in B : ~ (<<U, T>> \in StrictSubsetOrdering(S))
  BY <1>1, WFMin
<1>3. ASSUME NEW U \in B, NEW T \in B, U \subseteq T, U # T
      PROVE  <<U, T>> \in StrictSubsetOrdering(S)
  BY <1>3 DEF StrictSubsetOrdering
<1> QED  BY <1>2, <1>3

LEMMA AdditiveExists ==
  ASSUME NEW S, IsFiniteSet(S), NEW f, Ints(f, S)
  PROVE  \E h : Additive(f, S, h)
PROOF
<1> DEFINE B == {T \in SUBSET S : ~ \E h : Additive(f, T, h)}
<1>1. SUFFICES ASSUME B # {} PROVE FALSE
  OBVIOUS
<1>2. B \in SUBSET SUBSET S
  OBVIOUS
<1>3. \E T \in B : \A U \in B : ~(U \subseteq T /\ U # T)
  <2> HIDE DEF B
  <2> QED  BY <1>1, <1>2, SmallestSubset
<1>4. PICK T \in B : \A U \in B : ~(U \subseteq T /\ U # T)
  BY <1>3
<1>5. CASE T = {}
  <2> DEFINE h == [U \in SUBSET {} |-> 0]
  <2>1. Additive(f, T, h)
    BY <1>5 DEF Additive
  <2> QED  BY <2>1
<1>6. CASE T # {}
  <2>1. PICK x \in T : TRUE
    BY <1>6
  <2>2. PICK g : Additive(f, T \ {x}, g)
    BY <1>4, <2>1
  <2> DEFINE h == [U \in SUBSET T |-> IF x \in U THEN f[x] + g[U \ {x}] ELSE g[U]]
  <2>3. /\ \A U \in SUBSET T : U \ {x} \in SUBSET (T \ {x})
        /\ \A U \in SUBSET T : x \notin U => U \in SUBSET (T \ {x})
    OBVIOUS
  <2>4. h \in [SUBSET T -> Int]
    <3>1. f[x] \in Int
      BY <2>1 DEF Ints
    <3> QED  BY <3>1, <2>2, <2>3 DEF Additive
  <2>5. h[{}] = 0
    BY <2>2 DEF Additive
  <2>6. ASSUME NEW U \in SUBSET T, NEW y \in U PROVE h[U] = f[y] + h[U \ {y}]
    <3>1. CASE y = x
      <4>1. U \ {x} \in SUBSET T /\ x \notin U \ {x} /\ x \in U
        BY <3>1
      <4>2. h[U] = f[x] + g[U \ {x}] /\ h[U \ {x}] = g[U \ {x}]
        BY <4>1
      <4> QED  BY <4>2, <3>1
    <3>2. CASE y # x /\ x \in U
      <4> DEFINE V == U \ {x}
      <4>1. /\ V \in SUBSET (T \ {x}) /\ y \in V
            /\ U \ {y} \in SUBSET T /\ x \in U \ {y} /\ (U \ {y}) \ {x} = V \ {y}
        BY <3>2
      <4>2. h[U] = f[x] + g[V] /\ h[U \ {y}] = f[x] + g[V \ {y}]
        BY <4>1, <3>2
      <4>3. g[V] = f[y] + g[V \ {y}] /\ g[V \ {y}] \in Int
        BY <4>1, <2>2 DEF Additive
      <4>4. f[x] \in Int /\ f[y] \in Int
        BY DEF Ints
      <4> HIDE DEF h, V
      <4> QED  BY <4>2, <4>3, <4>4
    <3>3. CASE x \notin U
      <4>1. U \in SUBSET (T \ {x}) /\ U \ {y} \in SUBSET T /\ x \notin U \ {y}
        BY <3>3
      <4>2. h[U] = g[U] /\ h[U \ {y}] = g[U \ {y}]
        BY <4>1, <3>3
      <4> QED  BY <4>1, <4>2, <2>2 DEF Additive
    <3> QED  BY <3>1, <3>2, <3>3
  <2>7. Additive(f, T, h)
    BY <2>4, <2>5, <2>6 DEF Additive
  <2> QED  BY <2>7
<1> QED  BY <1>5, <1>6

LEMMA SumsAgree ==
  ASSUME NEW S, IsFiniteSet(S), NEW f, NEW s, NEW t, IsSum(f, S, s), IsSum(f, S, t)
  PROVE  s = t
PROOF
<1> DEFINE B == {T \in SUBSET S : s[T] # t[T]}
<1>1. B = {}
  <2>1. SUFFICES ASSUME B # {} PROVE FALSE
    OBVIOUS
  <2>2. B \in SUBSET SUBSET S
    OBVIOUS
  <2>3. \E T \in B : \A U \in B : ~(U \subseteq T /\ U # T)
    <3> HIDE DEF B
    <3> QED  BY <2>1, <2>2, SmallestSubset
  <2>4. PICK T \in B : \A U \in B : ~(U \subseteq T /\ U # T)
    BY <2>3
  <2>5. /\ s[T] = IF T = {} THEN 0 ELSE f[Chosen(T)] + s[T \ {Chosen(T)}]
        /\ t[T] = IF T = {} THEN 0 ELSE f[Chosen(T)] + t[T \ {Chosen(T)}]
    BY DEF IsSum
  <2>6. T # {} => Chosen(T) \in T
    BY DEF Chosen
  <2>7. T # {} => s[T \ {Chosen(T)}] = t[T \ {Chosen(T)}]
    BY <2>4, <2>6
  <2> QED  BY <2>4, <2>5, <2>7
<1>2. s = [T \in SUBSET S |-> s[T]] /\ t = [T \in SUBSET S |-> t[T]]
  BY DEF IsSum
<1> QED  BY <1>1, <1>2

LEMMA SumIsAdditive ==
  ASSUME NEW S, IsFiniteSet(S), NEW f, NEW h, Additive(f, S, h)
  PROVE  SumFunctionOnSet(f, S) = h[S]
PROOF
<1>1. IsSum(f, S, h)
  <2>1. ASSUME NEW T \in SUBSET S
        PROVE  h[T] = IF T = {} THEN 0 ELSE f[Chosen(T)] + h[T \ {Chosen(T)}]
    <3>1. CASE T = {}
      BY <3>1 DEF Additive
    <3>2. CASE T # {}
      <4>1. Chosen(T) \in T
        BY <3>2 DEF Chosen
      <4> QED  BY <4>1, <3>2 DEF Additive
    <3> QED  BY <3>1, <3>2
  <2>2. h = [T \in SUBSET S |-> h[T]]
    BY DEF Additive
  <2> QED  BY <2>1, <2>2 DEF IsSum
<1>2. IsSum(f, S, CHOOSE s : IsSum(f, S, s))
  BY <1>1
<1>3. (CHOOSE s : IsSum(f, S, s)) = h
  BY <1>1, <1>2, SumsAgree
<1> QED  BY <1>3, SumIsChosen

-----------------------------------------------------------------------------
(* What the ledger proofs use.                                               *)

LEMMA SumEmpty ==
  ASSUME NEW f PROVE SumFunctionOnSet(f, {}) = 0
PROOF
<1>1. IsFiniteSet({}) /\ Ints(f, {})
  BY FS_EmptySet DEF Ints
<1>2. PICK h : Additive(f, {}, h)
  BY <1>1, AdditiveExists
<1> QED  BY <1>1, <1>2, SumIsAdditive DEF Additive

LEMMA SumType ==
  ASSUME NEW S, IsFiniteSet(S), NEW f, Ints(f, S)
  PROVE  SumFunctionOnSet(f, S) \in Int
PROOF
<1>1. PICK h : Additive(f, S, h)
  BY AdditiveExists
<1>2. h[S] \in Int
  BY <1>1 DEF Additive
<1> QED  BY <1>1, <1>2, SumIsAdditive

\* Equal terms, equal sums.
LEMMA SumEqual ==
  ASSUME NEW S, IsFiniteSet(S), NEW f, NEW g, Ints(f, S), \A x \in S : f[x] = g[x]
  PROVE  SumFunctionOnSet(f, S) = SumFunctionOnSet(g, S)
PROOF
<1>1. PICK h : Additive(f, S, h)
  BY AdditiveExists
<1>2. Additive(g, S, h)
  BY <1>1 DEF Additive
<1> QED  BY <1>1, <1>2, SumIsAdditive

\* Any one element can be taken out.
LEMMA SumRemove ==
  ASSUME NEW S, IsFiniteSet(S), NEW f, Ints(f, S), NEW x \in S
  PROVE  SumFunctionOnSet(f, S) = f[x] + SumFunctionOnSet(f, S \ {x})
PROOF
<1>1. PICK h : Additive(f, S, h)
  BY AdditiveExists
<1> DEFINE g == [T \in SUBSET (S \ {x}) |-> h[T]]
<1>2. Additive(f, S \ {x}, g)
  BY <1>1 DEF Additive
<1>3. IsFiniteSet(S \ {x})
  BY FS_RemoveElement
<1>4. SumFunctionOnSet(f, S \ {x}) = g[S \ {x}]
  BY <1>2, <1>3, SumIsAdditive
<1>5. g[S \ {x}] = h[S \ {x}]
  OBVIOUS
<1>6. h[S] = f[x] + h[S \ {x}]
  BY <1>1 DEF Additive
<1> QED  BY <1>1, <1>4, <1>5, <1>6, SumIsAdditive

\* A new element adds its term, whatever else the new function says elsewhere.
LEMMA SumAdd ==
  ASSUME NEW S, IsFiniteSet(S), NEW f, NEW g, Ints(f, S), \A y \in S : f[y] = g[y],
         NEW x, g[x] \in Int, x \notin S
  PROVE  /\ IsFiniteSet(S \cup {x})
         /\ SumFunctionOnSet(g, S \cup {x}) = SumFunctionOnSet(f, S) + g[x]
PROOF
<1> DEFINE T == S \cup {x}
<1>1. IsFiniteSet(T) /\ x \in T /\ T \ {x} = S /\ Ints(g, T)
  BY FS_AddElement DEF Ints
<1> HIDE DEF T
<1>2. SumFunctionOnSet(g, T) = g[x] + SumFunctionOnSet(g, S)
  BY <1>1, SumRemove
<1>3. SumFunctionOnSet(f, S) = SumFunctionOnSet(g, S) /\ SumFunctionOnSet(f, S) \in Int
  BY SumType, SumEqual
<1> QED  BY <1>1, <1>2, <1>3 DEF T

\* One term changes.
LEMMA SumChange ==
  ASSUME NEW S, IsFiniteSet(S), NEW f, NEW g, Ints(f, S),
         NEW x \in S, g[x] \in Int, \A y \in S : y # x => g[y] = f[y]
  PROVE  SumFunctionOnSet(g, S) = SumFunctionOnSet(f, S) + g[x] - f[x]
PROOF
<1> DEFINE T == S \ {x}
<1>1. IsFiniteSet(T) /\ Ints(f, T) /\ (\A y \in T : f[y] = g[y]) /\ Ints(g, S) /\ f[x] \in Int
  BY FS_RemoveElement DEF Ints
<1>2. /\ SumFunctionOnSet(f, S) = f[x] + SumFunctionOnSet(f, T)
      /\ SumFunctionOnSet(g, S) = g[x] + SumFunctionOnSet(g, T)
  BY <1>1, SumRemove
<1> HIDE DEF T
<1>3. SumFunctionOnSet(f, T) = SumFunctionOnSet(g, T) /\ SumFunctionOnSet(f, T) \in Int
  BY <1>1, SumType, SumEqual
<1> QED  BY <1>1, <1>2, <1>3

\* Two sets with no element in common.
LEMMA SumUnion ==
  ASSUME NEW S, IsFiniteSet(S), NEW U, IsFiniteSet(U), S \cap U = {}, NEW f, Ints(f, S \cup U)
  PROVE  SumFunctionOnSet(f, S \cup U) = SumFunctionOnSet(f, S) + SumFunctionOnSet(f, U)
PROOF
<1>0. PICK h : Additive(f, U, h)
  BY AdditiveExists DEF Ints
<1>1. SumFunctionOnSet(f, U) = h[U]
  BY <1>0, SumIsAdditive
<1> DEFINE B == {T \in SUBSET U : SumFunctionOnSet(f, S \cup T) # SumFunctionOnSet(f, S) + h[T]}
<1>2. B = {}
  <2>1. SUFFICES ASSUME B # {} PROVE FALSE
    OBVIOUS
  <2>2. B \in SUBSET SUBSET U
    OBVIOUS
  <2>3. \E T \in B : \A V \in B : ~(V \subseteq T /\ V # T)
    <3> HIDE DEF B
    <3> QED  BY <2>1, <2>2, SmallestSubset
  <2>4. PICK T \in B : \A V \in B : ~(V \subseteq T /\ V # T)
    BY <2>3
  <2>5. SumFunctionOnSet(f, S) \in Int /\ h \in [SUBSET U -> Int]
    BY <1>0, SumType DEF Ints, Additive
  <2>6. CASE T = {}
    <3>1. S \cup T = S /\ h[T] = 0
      BY <1>0, <2>6 DEF Additive
    <3>2. SumFunctionOnSet(f, S \cup T) # SumFunctionOnSet(f, S) + h[T]
      BY <2>4
    <3>3. SumFunctionOnSet(f, S \cup T) = SumFunctionOnSet(f, S)
      BY <3>1
    <3> HIDE DEF B
    <3> QED  BY <2>5, <3>1, <3>2, <3>3
  <2>7. CASE T # {}
    <3>1. PICK x \in T : TRUE
      BY <2>7
    <3> DEFINE V == T \ {x}
               W == S \cup T
    <3>2. V \in SUBSET U /\ V \notin B /\ T \in SUBSET U
      BY <2>4, <3>1
    <3>3. SumFunctionOnSet(f, S \cup V) = SumFunctionOnSet(f, S) + h[V]
      BY <3>2
    <3>4. IsFiniteSet(W) /\ x \in W /\ Ints(f, W) /\ W \ {x} = S \cup V
      <4>1. IsFiniteSet(T)
        BY <3>2, FS_Subset
      <4> QED  BY <4>1, <3>1, <3>2, FS_Union DEF Ints
    <3>5. h[T] = f[x] + h[V] /\ h[V] \in Int /\ f[x] \in Int
      BY <1>0, <3>2, <3>1, <2>5 DEF Additive, Ints
    <3>6. SumFunctionOnSet(f, S \cup T) # SumFunctionOnSet(f, S) + h[T]
      BY <2>4
    <3> HIDE DEF V, B
    <3>7. SumFunctionOnSet(f, W) = f[x] + SumFunctionOnSet(f, S \cup V)
      <4> HIDE DEF W
      <4> QED  BY <3>4, SumRemove
    <3> QED  BY <2>5, <3>3, <3>5, <3>6, <3>7
  <2> QED  BY <2>6, <2>7
<1>3. U \in SUBSET U
  OBVIOUS
<1> QED  BY <1>1, <1>2, <1>3

\* The same terms under other names.
LEMMA SumReindex ==
  ASSUME NEW S, IsFiniteSet(S), NEW f, Ints(f, S), NEW g, NEW h,
         \A x \in S : g[h[x]] = f[x],
         \A x, y \in S : h[x] = h[y] => x = y
  PROVE  SumFunctionOnSet(g, {h[x] : x \in S}) = SumFunctionOnSet(f, S)
PROOF
<1> DEFINE H(T) == {h[x] : x \in T}
           Same(T) == IsFiniteSet(H(T)) /\ SumFunctionOnSet(g, H(T)) = SumFunctionOnSet(f, T)
           B == {T \in SUBSET S : ~Same(T)}
<1>1. B = {}
  <2>1. SUFFICES ASSUME B # {} PROVE FALSE
    OBVIOUS
  <2>2. B \in SUBSET SUBSET S
    OBVIOUS
  <2>3. \E T \in B : \A U \in B : ~(U \subseteq T /\ U # T)
    <3> HIDE DEF B
    <3> QED  BY <2>1, <2>2, SmallestSubset
  <2>4. PICK T \in B : \A U \in B : ~(U \subseteq T /\ U # T)
    BY <2>3
  <2>5. ~Same(T)
    <3> HIDE DEF Same
    <3> QED  BY <2>4
  <2>6. CASE T = {}
    <3>1. H(T) = {}
      BY <2>6
    <3> QED  BY <2>5, <2>6, <3>1, FS_EmptySet, SumEmpty
  <2>7. CASE T # {}
    <3>1. PICK x \in T : TRUE
      BY <2>7
    <3> DEFINE V == T \ {x}
               W == H(V)
    <3>2. V \in SUBSET S /\ Same(V) /\ T \in SUBSET S
      <4> HIDE DEF Same
      <4> QED  BY <2>4, <3>1
    <3>3. IsFiniteSet(W) /\ SumFunctionOnSet(g, W) = SumFunctionOnSet(f, V)
      BY <3>2
    <3>4. H(T) = W \cup {h[x]} /\ h[x] \notin W /\ Ints(g, W) /\ g[h[x]] = f[x] /\ f[x] \in Int
      BY <3>1, <3>2 DEF Ints
    <3>5. IsFiniteSet(T) /\ Ints(f, T)
      BY <3>2, FS_Subset DEF Ints
    <3>6. SumFunctionOnSet(f, T) = f[x] + SumFunctionOnSet(f, V)
      BY <3>1, <3>5, SumRemove
    <3>7. IsFiniteSet(V) /\ Ints(f, V)
      BY <3>5, FS_RemoveElement DEF Ints
    <3>8. SumFunctionOnSet(f, V) \in Int
      <4> HIDE DEF V
      <4> QED  BY <3>7, SumType
    <3> HIDE DEF W, V, H
    <3>9. \A y \in W : g[y] = g[y]
      OBVIOUS
    <3>10. PICK z : z = h[x]
      OBVIOUS
    <3>11. z \notin W /\ g[z] \in Int
      BY <3>4, <3>10
    <3>12. IsFiniteSet(W \cup {z}) /\ SumFunctionOnSet(g, W \cup {z}) = SumFunctionOnSet(g, W) + g[z]
      BY <3>3, <3>4, <3>9, <3>11, SumAdd
    <3> QED  BY <2>5, <3>3, <3>4, <3>6, <3>8, <3>10, <3>12
  <2> QED  BY <2>6, <2>7
<1>2. Same(S)
  <2> HIDE DEF Same
  <2> QED  BY <1>1
<1> QED  BY <1>2

\* A family of sets with no element in common, one after the other.
LEMMA SumFamily ==
  ASSUME NEW S, IsFiniteSet(S), NEW R, \A x \in S : IsFiniteSet(R[x]),
         \A x, y \in S : x # y => R[x] \cap R[y] = {},
         NEW f, \A x \in S : Ints(f, R[x]),
         NEW g, \A x \in S : g[x] = SumFunctionOnSet(f, R[x])
  PROVE  /\ IsFiniteSet(UNION {R[x] : x \in S})
         /\ SumFunctionOnSet(f, UNION {R[x] : x \in S}) = SumFunctionOnSet(g, S)
PROOF
<1> DEFINE H(T) == UNION {R[x] : x \in T}
           Same(T) == IsFiniteSet(H(T)) /\ SumFunctionOnSet(f, H(T)) = SumFunctionOnSet(g, T)
           B == {T \in SUBSET S : ~Same(T)}
<1>0. \A x \in S : g[x] \in Int
  BY SumType
<1>1. B = {}
  <2>1. SUFFICES ASSUME B # {} PROVE FALSE
    OBVIOUS
  <2>2. B \in SUBSET SUBSET S
    OBVIOUS
  <2>3. \E T \in B : \A U \in B : ~(U \subseteq T /\ U # T)
    <3> HIDE DEF B
    <3> QED  BY <2>1, <2>2, SmallestSubset
  <2>4. PICK T \in B : \A U \in B : ~(U \subseteq T /\ U # T)
    BY <2>3
  <2>5. ~Same(T)
    <3> HIDE DEF Same
    <3> QED  BY <2>4
  <2>6. CASE T = {}
    <3>1. H(T) = {}
      BY <2>6
    <3> QED  BY <2>5, <2>6, <3>1, FS_EmptySet, SumEmpty
  <2>7. CASE T # {}
    <3>1. PICK x \in T : TRUE
      BY <2>7
    <3> DEFINE V == T \ {x}
               W == H(V)
    <3>2. V \in SUBSET S /\ Same(V) /\ T \in SUBSET S /\ x \in S
      <4> HIDE DEF Same
      <4> QED  BY <2>4, <3>1
    <3>3. IsFiniteSet(W) /\ SumFunctionOnSet(f, W) = SumFunctionOnSet(g, V)
      BY <3>2
    <3>4. H(T) = W \cup R[x] /\ W \cap R[x] = {} /\ Ints(f, W \cup R[x]) /\ IsFiniteSet(R[x])
      BY <3>1, <3>2 DEF Ints
    <3>5. IsFiniteSet(T) /\ Ints(g, T)
      BY <1>0, <3>2, FS_Subset DEF Ints
    <3>6. SumFunctionOnSet(g, T) = g[x] + SumFunctionOnSet(g, V)
      BY <3>1, <3>5, SumRemove
    <3>7. IsFiniteSet(V) /\ Ints(g, V)
      BY <3>5, FS_RemoveElement DEF Ints
    <3>8. SumFunctionOnSet(g, V) \in Int
      <4> HIDE DEF V
      <4> QED  BY <3>7, SumType
    <3> HIDE DEF W, V, H
    <3>9. PICK U : U = R[x]
      OBVIOUS
    <3>10. W \cap U = {} /\ Ints(f, W \cup U) /\ IsFiniteSet(U)
      BY <3>4, <3>9
    <3>11. SumFunctionOnSet(f, W \cup U) = SumFunctionOnSet(f, W) + SumFunctionOnSet(f, U)
      BY <3>3, <3>10, SumUnion
    <3>12. IsFiniteSet(W \cup U)
      BY <3>3, <3>10, FS_Union
    <3>13. g[x] = SumFunctionOnSet(f, U) /\ g[x] \in Int
      BY <1>0, <3>2, <3>9
    <3> QED  BY <2>5, <3>3, <3>4, <3>6, <3>8, <3>9, <3>11, <3>12, <3>13
  <2> QED  BY <2>6, <2>7
<1>2. Same(S)
  <2> HIDE DEF Same
  <2> QED  BY <1>1
<1> QED  BY <1>2

-----------------------------------------------------------------------------
(* Sums of several functions, and of one over several sets.                  *)

\* A property that fails of a set, and not of the empty one, fails first with some element.
LEMMA FirstFailure ==
  ASSUME NEW S, IsFiniteSet(S), NEW B \in SUBSET SUBSET S, B # {}, {} \notin B
  PROVE  \E T \in B : \E x \in T : T \ {x} \in SUBSET S /\ T \ {x} \notin B
PROOF
<1>1. PICK T \in B : \A U \in B : ~(U \subseteq T /\ U # T)
  BY SmallestSubset
<1>2. PICK x \in T : TRUE
  BY <1>1
<1> QED  BY <1>1, <1>2

LEMMA SumPlus ==
  ASSUME NEW S, IsFiniteSet(S), NEW f, NEW g, NEW h, Ints(f, S), Ints(g, S),
         \A x \in S : h[x] = f[x] + g[x]
  PROVE  SumFunctionOnSet(h, S) = SumFunctionOnSet(f, S) + SumFunctionOnSet(g, S)
PROOF
<1> DEFINE B == {T \in SUBSET S :
                    SumFunctionOnSet(h, T) # SumFunctionOnSet(f, T) + SumFunctionOnSet(g, T)}
<1>1. {} \notin B
  BY SumEmpty
<1>2. SUFFICES ASSUME B # {} PROVE FALSE
  OBVIOUS
<1>3. PICK T \in B : \E x \in T : T \ {x} \in SUBSET S /\ T \ {x} \notin B
  <2>1. B \in SUBSET SUBSET S
    OBVIOUS
  <2> HIDE DEF B
  <2> QED  BY <1>1, <1>2, <2>1, FirstFailure
<1>4. PICK x \in T : T \ {x} \in SUBSET S /\ T \ {x} \notin B
  BY <1>3
<1> DEFINE V == T \ {x}
<1>5. IsFiniteSet(T) /\ IsFiniteSet(V) /\ x \in S /\ V \subseteq S
  BY <1>3, <1>4, FS_Subset, FS_RemoveElement
<1>6. Ints(f, T) /\ Ints(g, T) /\ Ints(h, T) /\ Ints(f, V) /\ Ints(g, V)
  BY <1>3, <1>4 DEF Ints
<1>7. /\ SumFunctionOnSet(f, T) = f[x] + SumFunctionOnSet(f, V)
      /\ SumFunctionOnSet(g, T) = g[x] + SumFunctionOnSet(g, V)
      /\ SumFunctionOnSet(h, T) = h[x] + SumFunctionOnSet(h, V)
  BY <1>4, <1>5, <1>6, SumRemove
<1>8. SumFunctionOnSet(f, V) \in Int /\ SumFunctionOnSet(g, V) \in Int
  <2> HIDE DEF V
  <2> QED  BY <1>5, <1>6, SumType
<1>9. SumFunctionOnSet(h, V) = SumFunctionOnSet(f, V) + SumFunctionOnSet(g, V)
  BY <1>4
<1>10. h[x] = f[x] + g[x] /\ f[x] \in Int /\ g[x] \in Int
  BY <1>5 DEF Ints
<1>11. SumFunctionOnSet(h, T) # SumFunctionOnSet(f, T) + SumFunctionOnSet(g, T)
  BY <1>3
<1> HIDE DEF V
<1> QED  BY <1>7, <1>8, <1>9, <1>10, <1>11

\* No term less, no sum less.
LEMMA SumLess ==
  ASSUME NEW S, IsFiniteSet(S), NEW f, NEW g, Ints(f, S), Ints(g, S), \A x \in S : f[x] <= g[x]
  PROVE  SumFunctionOnSet(f, S) <= SumFunctionOnSet(g, S)
PROOF
<1> DEFINE B == {T \in SUBSET S : ~(SumFunctionOnSet(f, T) <= SumFunctionOnSet(g, T))}
<1>1. {} \notin B
  BY SumEmpty
<1>2. SUFFICES ASSUME B # {} PROVE FALSE
  OBVIOUS
<1>3. PICK T \in B : \E x \in T : T \ {x} \in SUBSET S /\ T \ {x} \notin B
  <2>1. B \in SUBSET SUBSET S
    OBVIOUS
  <2> HIDE DEF B
  <2> QED  BY <1>1, <1>2, <2>1, FirstFailure
<1>4. PICK x \in T : T \ {x} \in SUBSET S /\ T \ {x} \notin B
  BY <1>3
<1> DEFINE V == T \ {x}
<1>5. IsFiniteSet(T) /\ IsFiniteSet(V) /\ x \in S /\ V \subseteq S
  BY <1>3, <1>4, FS_Subset, FS_RemoveElement
<1>6. Ints(f, T) /\ Ints(g, T) /\ Ints(f, V) /\ Ints(g, V)
  BY <1>3, <1>4 DEF Ints
<1>7. /\ SumFunctionOnSet(f, T) = f[x] + SumFunctionOnSet(f, V)
      /\ SumFunctionOnSet(g, T) = g[x] + SumFunctionOnSet(g, V)
  BY <1>4, <1>5, <1>6, SumRemove
<1>8. SumFunctionOnSet(f, V) \in Int /\ SumFunctionOnSet(g, V) \in Int
  <2> HIDE DEF V
  <2> QED  BY <1>5, <1>6, SumType
<1>9. SumFunctionOnSet(f, V) <= SumFunctionOnSet(g, V)
  BY <1>4
<1>10. f[x] <= g[x] /\ f[x] \in Int /\ g[x] \in Int
  BY <1>5 DEF Ints
<1>11. ~(SumFunctionOnSet(f, T) <= SumFunctionOnSet(g, T))
  BY <1>3
<1> HIDE DEF V
<1> QED  BY <1>7, <1>8, <1>9, <1>10, <1>11

LEMMA SumZeros ==
  ASSUME NEW S, IsFiniteSet(S), NEW f, \A x \in S : f[x] = 0
  PROVE  SumFunctionOnSet(f, S) = 0
PROOF
<1>1. Ints(f, S) /\ \A x \in S : f[x] = f[x] + f[x]
  BY DEF Ints
<1>2. SumFunctionOnSet(f, S) = SumFunctionOnSet(f, S) + SumFunctionOnSet(f, S)
  BY <1>1, SumPlus
<1> QED  BY <1>1, <1>2, SumType

\* Terms of nothing may be added.
LEMMA SumExtend ==
  ASSUME NEW S, IsFiniteSet(S), NEW T \in SUBSET S, NEW f, NEW g, Ints(f, T),
         \A x \in T : g[x] = f[x], \A x \in S \ T : g[x] = 0
  PROVE  SumFunctionOnSet(g, S) = SumFunctionOnSet(f, T)
PROOF
<1> DEFINE U == S \ T
<1>1. IsFiniteSet(T) /\ IsFiniteSet(U) /\ T \cap U = {} /\ S = T \cup U
  BY FS_Subset, FS_Difference
<1>2. Ints(g, T) /\ Ints(g, S)
  BY DEF Ints
<1>3. \A x \in U : g[x] = 0
  OBVIOUS
<1> HIDE DEF U
<1>4. SumFunctionOnSet(g, S) = SumFunctionOnSet(g, T) + SumFunctionOnSet(g, U)
  BY <1>1, <1>2, SumUnion
<1>5. SumFunctionOnSet(g, U) = 0
  BY <1>1, <1>3, SumZeros
<1>6. SumFunctionOnSet(g, T) = SumFunctionOnSet(f, T) /\ SumFunctionOnSet(g, T) \in Int
  BY <1>1, <1>2, SumEqual, SumType
<1> QED  BY <1>4, <1>5, <1>6

\* What is not negative adds up to no less over more.
LEMMA SumWithin ==
  ASSUME NEW S, IsFiniteSet(S), NEW T \in SUBSET S, NEW f, \A x \in S : f[x] \in Nat
  PROVE  /\ SumFunctionOnSet(f, T) \in Nat /\ SumFunctionOnSet(f, S) \in Nat
         /\ SumFunctionOnSet(f, T) <= SumFunctionOnSet(f, S)
PROOF
<1> DEFINE U    == S \ T
           zero == [x \in S |-> 0]
<1>1. IsFiniteSet(T) /\ IsFiniteSet(U) /\ T \cap U = {} /\ S = T \cup U
  BY FS_Subset, FS_Difference
<1>2. Ints(f, T) /\ Ints(f, U) /\ Ints(f, S) /\ Ints(zero, S) /\ Ints(zero, T) /\ Ints(zero, U)
  BY DEF Ints
<1>3. /\ \A x \in T : zero[x] = 0 /\ zero[x] <= f[x]
      /\ \A x \in U : zero[x] = 0 /\ zero[x] <= f[x]
  OBVIOUS
<1> HIDE DEF U, zero
<1>4. SumFunctionOnSet(f, S) = SumFunctionOnSet(f, T) + SumFunctionOnSet(f, U)
  BY <1>1, <1>2, SumUnion
<1>5. SumFunctionOnSet(zero, T) = 0 /\ SumFunctionOnSet(zero, U) = 0
  BY <1>1, <1>3, SumZeros
<1>6. 0 <= SumFunctionOnSet(f, T) /\ 0 <= SumFunctionOnSet(f, U)
  <2>1. SumFunctionOnSet(zero, T) <= SumFunctionOnSet(f, T)
    BY <1>1, <1>2, <1>3, SumLess
  <2>2. SumFunctionOnSet(zero, U) <= SumFunctionOnSet(f, U)
    BY <1>1, <1>2, <1>3, SumLess
  <2> QED  BY <1>5, <2>1, <2>2
<1>7. SumFunctionOnSet(f, T) \in Int /\ SumFunctionOnSet(f, U) \in Int
  BY <1>1, <1>2, SumType
<1> QED  BY <1>4, <1>6, <1>7

\* Ones add up to the number of elements.
LEMMA SumOnes ==
  ASSUME NEW S, IsFiniteSet(S), NEW f, \A x \in S : f[x] = 1
  PROVE  SumFunctionOnSet(f, S) = Cardinality(S)
PROOF
<1> DEFINE B == {T \in SUBSET S : SumFunctionOnSet(f, T) # Cardinality(T)}
<1>1. {} \notin B
  BY SumEmpty, FS_EmptySet
<1>2. SUFFICES ASSUME B # {} PROVE FALSE
  OBVIOUS
<1>3. PICK T \in B : \E x \in T : T \ {x} \in SUBSET S /\ T \ {x} \notin B
  <2>1. B \in SUBSET SUBSET S
    OBVIOUS
  <2> HIDE DEF B
  <2> QED  BY <1>1, <1>2, <2>1, FirstFailure
<1>4. PICK x \in T : T \ {x} \in SUBSET S /\ T \ {x} \notin B
  BY <1>3
<1> DEFINE V == T \ {x}
<1>5. IsFiniteSet(T) /\ IsFiniteSet(V) /\ Ints(f, T) /\ f[x] = 1
  BY <1>3, <1>4, FS_Subset, FS_RemoveElement DEF Ints
<1>6. SumFunctionOnSet(f, T) = f[x] + SumFunctionOnSet(f, V)
  BY <1>4, <1>5, SumRemove
<1>7. Cardinality(V) = Cardinality(T) - 1 /\ Cardinality(T) \in Nat
  BY <1>4, <1>5, FS_RemoveElement, FS_CardinalityType
<1>8. SumFunctionOnSet(f, V) = Cardinality(V) /\ SumFunctionOnSet(f, T) # Cardinality(T)
  BY <1>3, <1>4
<1> HIDE DEF V
<1> QED  BY <1>5, <1>6, <1>7, <1>8
=============================================================================
