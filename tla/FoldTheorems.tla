---------------------------- MODULE FoldTheorems ----------------------------
(***************************************************************************)
(* What the picks and folds of the community modules give over finite      *)
(* sets.  A fold is a recursive function given by CHOOSE; that it exists,  *)
(* and that a sum does not depend on the order in which it is taken, is    *)
(* shown by a least counterexample.                                        *)
(***************************************************************************)
EXTENDS Integers, FiniteSets, FiniteSetsExt, FiniteSetTheorems, WellFoundedInduction, TLAPS

-----------------------------------------------------------------------------
(* Least and greatest elements.                                            *)

(* A nonempty set of naturals has a least element.                         *)
LEMMA LeastNat ==
    ASSUME NEW S, S \subseteq Nat, S # {}
    PROVE  \E x \in S : \A y \in S : x <= y
<1>1. PICK x \in S : \A y \in S : ~(<<y, x>> \in OpToRel(<, Nat))
  BY NatLessThanWellFounded, WFMin, Zenon
<1>2. \A y \in S : ~(y < x)
  BY <1>1 DEF OpToRel
<1> QED BY <1>2, SMT

(* Min picks an element of a nonempty set of naturals.                     *)
LEMMA MinIn ==
    ASSUME NEW S, S \subseteq Nat, S # {}
    PROVE  Min(S) \in S
BY LeastNat, Zenon DEF Min

(* Max picks an element of a nonempty bounded set of naturals.             *)
LEMMA MaxIn ==
    ASSUME NEW n \in Nat, NEW S, S \subseteq 1..n, S # {}
    PROVE  Max(S) \in S
<1> DEFINE D == {n - x : x \in S}
<1>1. \A x \in S : x \in Nat /\ n - x \in Nat
  BY SMT
<1>2. D \subseteq Nat /\ D # {}
  BY <1>1, Zenon
<1>3. PICK d \in D : \A e \in D : d <= e
  BY <1>2, LeastNat, Zenon
<1>4. PICK x \in S : d = n - x
  BY <1>3, Zenon
<1>5. \A y \in S : x >= y
  <2> SUFFICES ASSUME NEW y \in S PROVE x >= y
    OBVIOUS
  <2>1. n - x <= n - y
    BY <1>3, <1>4, Zenon
  <2> QED BY <2>1, <1>1, SMT
<1> QED BY <1>5, Zenon DEF Max
-----------------------------------------------------------------------------
(* Sums over finite sets.                                                  *)

(* What holds of zero and of every successor holds of every natural.       *)
LEMMA EveryNat ==
    ASSUME NEW Q, 0 \in Q, \A n \in Nat : n \in Q => n + 1 \in Q
    PROVE  Nat \subseteq Q
<1> SUFFICES ASSUME ~(Nat \subseteq Q) PROVE FALSE OBVIOUS
<1> DEFINE R == {n \in Nat : n \notin Q}
<1>1. PICK m \in R : \A n \in R : m <= n BY LeastNat, Zenon
<1>2. m \in Nat /\ m \notin Q /\ m # 0 BY <1>1
<1>3. m - 1 \in Nat BY <1>2
<1>4. m - 1 \in Q
  <2> SUFFICES ASSUME m - 1 \notin Q PROVE FALSE OBVIOUS
  <2>1. m <= m - 1 BY <1>1, <1>3
  <2> QED BY <1>2, <2>1
<1>5. (m - 1) + 1 \in Q BY <1>3, <1>4
<1> QED BY <1>2, <1>5

(* A family of subsets of a finite set that has the empty set, and with    *)
(* each of its members that member with an element more, has the set.      *)
LEMMA EveryFinite ==
    ASSUME NEW S, IsFiniteSet(S), NEW Q, {} \in Q,
           \A T \in SUBSET S : \A x \in S \ T : T \in Q => T \cup {x} \in Q
    PROVE  S \in Q
<1> DEFINE L == {n \in Nat : \A T \in SUBSET S : Cardinality(T) = n => T \in Q}
<1>1. \A T \in SUBSET S : IsFiniteSet(T) /\ Cardinality(T) \in Nat
  BY FS_Subset, FS_CardinalityType
<1>2. 0 \in L BY <1>1, FS_EmptySet
<1>3. ASSUME NEW n \in Nat, n \in L PROVE n + 1 \in L
  <2> SUFFICES ASSUME NEW T \in SUBSET S, Cardinality(T) = n + 1 PROVE T \in Q
    OBVIOUS
  <2>1. T # {} BY <1>1, FS_EmptySet
  <2>2. PICK x \in T : TRUE BY <2>1
  <2>3. Cardinality(T \ {x}) = n
    <3>1. Cardinality(T \ {x}) = Cardinality(T) - 1 BY <1>1, FS_RemoveElement
    <3> QED BY <3>1
  <2>4. T \ {x} \in Q BY <1>3, <2>3
  <2>5. (T \ {x}) \cup {x} \in Q BY <2>4
  <2>6. (T \ {x}) \cup {x} = T OBVIOUS
  <2> QED BY <2>5, <2>6
<1> HIDE DEF L
<1>4. Nat \subseteq L BY <1>2, <1>3, EveryNat
<1>5. Cardinality(S) \in L BY <1>1, <1>4
<1> QED BY <1>5 DEF L

(* The sums MapThenSumSet computes: g sums f over every subset of S, by    *)
(* taking the elements in the order Pick gives them.                       *)
Pick(s) == CHOOSE x \in s : TRUE
Adds(g, f, s) == IF s = {} THEN 0 ELSE f[Pick(s)] + g[s \ {Pick(s)}]
SumsOver(g, f, S) == g = [s \in SUBSET S |-> Adds(g, f, s)]
Total(f, S) == (CHOOSE g : SumsOver(g, f, S))[S]

(* Pick takes one of the elements.                                         *)
LEMMA PickIn == ASSUME NEW s, s # {} PROVE Pick(s) \in s
BY Zenon DEF Pick

(* Sums exist: the sums of the sets of at most n elements give those of    *)
(* the sets of n + 1.                                                      *)
LEMMA SumsExist ==
    ASSUME NEW S, IsFiniteSet(S), NEW f
    PROVE  \E g : SumsOver(g, f, S)
<1> DEFINE Upto(n) == {s \in SUBSET S : Cardinality(s) <= n}
           Q == {n \in Nat : \E g : g = [s \in Upto(n) |-> Adds(g, f, s)]}
<1>1. \A s \in SUBSET S : IsFiniteSet(s) /\ Cardinality(s) \in Nat
  BY FS_Subset, FS_CardinalityType
<1>2. 0 \in Q
  <2> DEFINE g == [s \in Upto(0) |-> 0]
  <2>1. \A s \in Upto(0) : s = {}
    <3> SUFFICES ASSUME NEW s \in Upto(0) PROVE s = {} OBVIOUS
    <3>1. Cardinality(s) = 0 /\ IsFiniteSet(s) BY <1>1
    <3> QED BY <3>1, FS_EmptySet
  <2>2. \A s \in Upto(0) : Adds(g, f, s) = 0 BY <2>1, Zenon DEF Adds
  <2> HIDE DEF Upto
  <2>3. g = [s \in Upto(0) |-> Adds(g, f, s)] BY <2>2, Zenon
  <2> QED BY <2>3, Zenon
<1>3. ASSUME NEW n \in Nat, n \in Q PROVE n + 1 \in Q
  <2>1. PICK g : g = [s \in Upto(n) |-> Adds(g, f, s)] BY <1>3, Zenon
  <2> DEFINE h == [s \in Upto(n + 1) |-> Adds(g, f, s)]
  <2>2. Upto(n) \subseteq Upto(n + 1) BY <1>1
  <2>3. \A s \in Upto(n + 1) : s # {} => s \ {Pick(s)} \in Upto(n)
    <3> SUFFICES ASSUME NEW s \in Upto(n + 1), s # {} PROVE s \ {Pick(s)} \in Upto(n)
      OBVIOUS
    <3>1. Pick(s) \in s BY PickIn
    <3>2. IsFiniteSet(s) /\ Cardinality(s) \in Nat /\ Cardinality(s) <= n + 1 BY <1>1
    <3>3. Cardinality(s \ {Pick(s)}) = Cardinality(s) - 1 BY <3>1, <3>2, FS_RemoveElement
    <3> QED BY <3>2, <3>3
  <2> HIDE DEF Upto
  <2>4. \A s \in Upto(n) : h[s] = g[s]
    <3> SUFFICES ASSUME NEW s \in Upto(n) PROVE h[s] = g[s] OBVIOUS
    <3>1. h[s] = Adds(g, f, s) BY <2>2, Zenon
    <3>2. g[s] = Adds(g, f, s) BY <2>1, Zenon
    <3> QED BY <3>1, <3>2
  <2>5. \A s \in Upto(n + 1) : Adds(h, f, s) = Adds(g, f, s)
    <3> HIDE DEF h
    <3> QED BY <2>3, <2>4, Zenon DEF Adds
  <2>6. h = [s \in Upto(n + 1) |-> Adds(h, f, s)] BY <2>5, Zenon
  <2>7. n + 1 \in Nat OBVIOUS
  <2> QED BY <2>6, <2>7, Zenon
<1> HIDE DEF Q
<1>4. Nat \subseteq Q BY <1>2, <1>3, EveryNat
<1>5. Cardinality(S) \in Q BY <1>1, <1>4
<1>6. PICK g : g = [s \in Upto(Cardinality(S)) |-> Adds(g, f, s)] BY <1>5, Zenon DEF Q
<1>7. Upto(Cardinality(S)) = SUBSET S
  <2>1. \A s \in SUBSET S : Cardinality(s) <= Cardinality(S) BY FS_Subset
  <2> QED BY <2>1
<1> QED BY <1>6, <1>7, Zenon DEF SumsOver

(* Sums are determined by what is summed.                                  *)
LEMMA SumsAgree ==
    ASSUME NEW S, IsFiniteSet(S), NEW T, S \subseteq T, NEW f, NEW e, NEW g, NEW h,
           \A x \in S : f[x] = e[x], SumsOver(g, f, S), SumsOver(h, e, T)
    PROVE  g[S] = h[S]
<1> DEFINE Q == {n \in Nat : \A s \in SUBSET S : Cardinality(s) = n => g[s] = h[s]}
<1>1. \A s \in SUBSET S : IsFiniteSet(s) /\ Cardinality(s) \in Nat
  BY FS_Subset, FS_CardinalityType
<1>2. \A s \in SUBSET S : g[s] = Adds(g, f, s) /\ h[s] = Adds(h, e, s)
  <2> SUFFICES ASSUME NEW s \in SUBSET S PROVE g[s] = Adds(g, f, s) /\ h[s] = Adds(h, e, s)
    OBVIOUS
  <2>1. s \in SUBSET T OBVIOUS
  <2> QED BY <2>1, Zenon DEF SumsOver
<1>3. 0 \in Q
  <2> SUFFICES ASSUME NEW s \in SUBSET S, Cardinality(s) = 0 PROVE g[s] = h[s] OBVIOUS
  <2>1. s = {} BY <1>1, FS_EmptySet
  <2> QED BY <1>2, <2>1, Zenon DEF Adds
<1>4. ASSUME NEW n \in Nat, n \in Q PROVE n + 1 \in Q
  <2> SUFFICES ASSUME NEW s \in SUBSET S, Cardinality(s) = n + 1 PROVE g[s] = h[s] OBVIOUS
  <2>1. s # {} BY FS_EmptySet
  <2>2. Pick(s) \in s BY <2>1, PickIn
  <2>3. Cardinality(s \ {Pick(s)}) = n
    <3>1. Cardinality(s \ {Pick(s)}) = Cardinality(s) - 1 BY <1>1, <2>2, FS_RemoveElement
    <3> QED BY <3>1
  <2>4. g[s \ {Pick(s)}] = h[s \ {Pick(s)}] BY <1>4, <2>3
  <2>5. f[Pick(s)] = e[Pick(s)] BY <2>2
  <2> QED BY <1>2, <2>1, <2>4, <2>5, Zenon DEF Adds
<1> HIDE DEF Q
<1>5. Nat \subseteq Q BY <1>3, <1>4, EveryNat
<1>6. Cardinality(S) \in Q BY <1>1, <1>5
<1> QED BY <1>6 DEF Q

(* The total is what a step of the recursion says.                         *)
LEMMA TotalSums ==
    ASSUME NEW S, IsFiniteSet(S), NEW f, NEW g, SumsOver(g, f, S)
    PROVE  Total(f, S) = g[S]
<1> DEFINE h == CHOOSE h : SumsOver(h, f, S)
<1>1. SumsOver(h, f, S) BY Zenon
<1> HIDE DEF h
<1>2. S \subseteq S /\ \A x \in S : f[x] = f[x] OBVIOUS
<1>3. h[S] = g[S] BY <1>1, <1>2, SumsAgree
<1> QED BY <1>3, Zenon DEF Total, h

(* Nothing adds up to zero.                                                *)
LEMMA TotalEmpty == \A f : Total(f, {}) = 0
<1> SUFFICES ASSUME NEW f PROVE Total(f, {}) = 0 OBVIOUS
<1>1. IsFiniteSet({}) BY FS_EmptySet
<1>2. PICK g : SumsOver(g, f, {}) BY <1>1, SumsExist, Zenon
<1>3. g[{}] = 0 BY <1>2, Zenon DEF SumsOver, Adds
<1> QED BY <1>1, <1>2, <1>3, TotalSums, Zenon

(* Functions that agree on a set have the same total over it.              *)
LEMMA TotalSame ==
    ASSUME NEW S, IsFiniteSet(S), NEW f, NEW e, \A x \in S : f[x] = e[x]
    PROVE  Total(f, S) = Total(e, S)
<1>1. PICK g : SumsOver(g, f, S) BY SumsExist, Zenon
<1>2. PICK h : SumsOver(h, e, S) BY SumsExist, Zenon
<1>3. S \subseteq S OBVIOUS
<1>4. g[S] = h[S] BY <1>1, <1>2, <1>3, SumsAgree
<1> QED BY <1>1, <1>2, <1>4, TotalSums, Zenon

(* One step of the recursion.                                              *)
LEMMA TotalPick ==
    ASSUME NEW S, IsFiniteSet(S), S # {}, NEW f
    PROVE  Total(f, S) = f[Pick(S)] + Total(f, S \ {Pick(S)})
<1> DEFINE T == S \ {Pick(S)}
<1>1. IsFiniteSet(T) BY FS_Subset
<1>2. PICK g : SumsOver(g, f, S) BY SumsExist, Zenon
<1>3. PICK h : SumsOver(h, f, T) BY <1>1, SumsExist, Zenon
<1>4. h[T] = g[T]
  <2>1. T \subseteq S /\ \A x \in T : f[x] = f[x] OBVIOUS
  <2> HIDE DEF T
  <2> QED BY <1>1, <1>2, <1>3, <2>1, SumsAgree
<1>5. g[S] = f[Pick(S)] + g[T] BY <1>2, Zenon DEF SumsOver, Adds
<1>6. Total(f, S) = g[S] /\ Total(f, T) = h[T]
  <2> HIDE DEF T
  <2> QED BY <1>1, <1>2, <1>3, TotalSums, Zenon
<1> QED BY <1>4, <1>5, <1>6, Zenon

(* A total of integers is an integer.                                      *)
LEMMA TotalInt ==
    ASSUME NEW S, IsFiniteSet(S), NEW f, \A x \in S : f[x] \in Int
    PROVE  Total(f, S) \in Int
<1> DEFINE Q == {n \in Nat : \A T \in SUBSET S : Cardinality(T) = n => Total(f, T) \in Int}
<1>1. \A T \in SUBSET S : IsFiniteSet(T) /\ Cardinality(T) \in Nat
  BY FS_Subset, FS_CardinalityType
<1>2. 0 \in Q
  <2> SUFFICES ASSUME NEW T \in SUBSET S, Cardinality(T) = 0 PROVE Total(f, T) \in Int OBVIOUS
  <2>1. T = {} BY <1>1, FS_EmptySet
  <2>2. 0 \in Int OBVIOUS
  <2> QED BY <2>1, <2>2, TotalEmpty, Zenon
<1>3. ASSUME NEW n \in Nat, n \in Q PROVE n + 1 \in Q
  <2> SUFFICES ASSUME NEW T \in SUBSET S, Cardinality(T) = n + 1 PROVE Total(f, T) \in Int
    OBVIOUS
  <2>1. T # {} BY FS_EmptySet
  <2>2. Pick(T) \in T BY <2>1, PickIn
  <2>3. Cardinality(T \ {Pick(T)}) = n
    <3>1. Cardinality(T \ {Pick(T)}) = Cardinality(T) - 1 BY <1>1, <2>2, FS_RemoveElement
    <3> QED BY <3>1
  <2>4. Total(f, T \ {Pick(T)}) \in Int BY <1>3, <2>3
  <2>5. f[Pick(T)] \in Int BY <2>2
  <2>6. Total(f, T) = f[Pick(T)] + Total(f, T \ {Pick(T)}) BY <1>1, <2>1, TotalPick, Zenon
  <2> QED BY <2>4, <2>5, <2>6
<1> HIDE DEF Q
<1>4. Nat \subseteq Q BY <1>2, <1>3, EveryNat
<1>5. Cardinality(S) \in Q BY <1>1, <1>4
<1> QED BY <1>5 DEF Q

(* The order does not matter: any element may be taken first.              *)
LEMMA TotalTake ==
    ASSUME NEW S, IsFiniteSet(S), NEW f, \A x \in S : f[x] \in Int, NEW y \in S
    PROVE  Total(f, S) = f[y] + Total(f, S \ {y})
<1> DEFINE Q == {n \in Nat : \A T \in SUBSET S : Cardinality(T) = n =>
                     \A x \in T : Total(f, T) = f[x] + Total(f, T \ {x})}
<1>1. \A T \in SUBSET S : IsFiniteSet(T) /\ Cardinality(T) \in Nat /\ Total(f, T) \in Int
  <2> SUFFICES ASSUME NEW T \in SUBSET S
               PROVE  IsFiniteSet(T) /\ Cardinality(T) \in Nat /\ Total(f, T) \in Int
    OBVIOUS
  <2>1. IsFiniteSet(T) BY FS_Subset
  <2>2. Total(f, T) \in Int BY <2>1, TotalInt
  <2> QED BY <2>1, <2>2, FS_CardinalityType
<1>2. 0 \in Q
  <2> SUFFICES ASSUME NEW T \in SUBSET S, Cardinality(T) = 0 PROVE T = {} OBVIOUS
  <2> QED BY <1>1, FS_EmptySet
<1>3. ASSUME NEW n \in Nat, n \in Q PROVE n + 1 \in Q
  <2> SUFFICES ASSUME NEW T \in SUBSET S, Cardinality(T) = n + 1, NEW x \in T
               PROVE  Total(f, T) = f[x] + Total(f, T \ {x})
    OBVIOUS
  <2> DEFINE p == Pick(T)
  <2>1. p \in T BY PickIn
  <2>2. Total(f, T) = f[p] + Total(f, T \ {p}) BY <1>1, TotalPick, Zenon
  <2> HIDE DEF p
  <2>3. CASE x = p BY <2>2, <2>3
  <2>4. CASE x # p
    <3>1. ASSUME NEW z \in T PROVE T \ {z} \in SUBSET S /\ Cardinality(T \ {z}) = n
      <4>1. Cardinality(T \ {z}) = Cardinality(T) - 1 BY <1>1, FS_RemoveElement
      <4> QED BY <4>1
    <3>2. Total(f, T \ {p}) = f[x] + Total(f, (T \ {p}) \ {x})
      <4>1. x \in T \ {p} BY <2>4
      <4> QED BY <1>3, <2>1, <3>1, <4>1, Zenon
    <3>3. Total(f, T \ {x}) = f[p] + Total(f, (T \ {x}) \ {p})
      <4>1. p \in T \ {x} BY <2>1, <2>4
      <4> QED BY <1>3, <3>1, <4>1, Zenon
    <3>4. (T \ {p}) \ {x} = (T \ {x}) \ {p} OBVIOUS
    <3> DEFINE rest == Total(f, (T \ {p}) \ {x})
    <3>5. rest \in Int /\ f[x] \in Int /\ f[p] \in Int BY <1>1, <2>1
    <3>6. Total(f, T) = f[p] + (f[x] + rest) /\ Total(f, T \ {x}) = f[p] + rest
      BY <2>2, <3>2, <3>3, <3>4, Zenon
    <3> HIDE DEF rest
    <3>7. f[p] + (f[x] + rest) = f[x] + (f[p] + rest) BY <3>5
    <3> QED BY <3>6, <3>7, Zenon
  <2> QED BY <2>3, <2>4
<1> HIDE DEF Q
<1>4. Nat \subseteq Q BY <1>2, <1>3, EveryNat
<1>5. Cardinality(S) \in Q BY <1>1, <1>4
<1>6. S \in SUBSET S OBVIOUS
<1> QED BY <1>5, <1>6, Zenon DEF Q

(* Changing one summand changes the total by as much.                      *)
LEMMA TotalChange ==
    ASSUME NEW S, IsFiniteSet(S), NEW f, NEW e, NEW y \in S,
           \A x \in S : f[x] \in Int /\ e[x] \in Int,
           \A x \in S : x # y => e[x] = f[x]
    PROVE  Total(e, S) = Total(f, S) + (e[y] - f[y])
<1>1. IsFiniteSet(S \ {y}) BY FS_Subset
<1>2. Total(e, S \ {y}) = Total(f, S \ {y})
  <2>1. \A x \in S \ {y} : e[x] = f[x] OBVIOUS
  <2> QED BY <1>1, <2>1, TotalSame
<1>3. Total(f, S \ {y}) \in Int /\ f[y] \in Int /\ e[y] \in Int
  <2>1. \A x \in S \ {y} : f[x] \in Int OBVIOUS
  <2> QED BY <1>1, <2>1, TotalInt
<1>4. Total(f, S) = f[y] + Total(f, S \ {y}) BY TotalTake
<1>5. Total(e, S) = e[y] + Total(e, S \ {y}) BY TotalTake
<1> QED BY <1>2, <1>3, <1>4, <1>5

(* A total of naturals is a natural.                                       *)
LEMMA TotalNat ==
    ASSUME NEW S, IsFiniteSet(S), NEW f, \A x \in S : f[x] \in Nat
    PROVE  Total(f, S) \in Nat
<1> DEFINE Q == {T \in SUBSET S : Total(f, T) \in Nat}
<1>1. {} \in Q BY TotalEmpty
<1>2. ASSUME NEW T \in SUBSET S, NEW x \in S \ T, T \in Q PROVE T \cup {x} \in Q
  <2> DEFINE U == T \cup {x}
  <2>1. IsFiniteSet(U) BY FS_Subset
  <2>2. (\A y \in U : f[y] \in Int) /\ x \in U /\ U \ {x} = T OBVIOUS
  <2>3. Total(f, U) = f[x] + Total(f, U \ {x}) BY <2>1, <2>2, TotalTake
  <2>4. f[x] \in Nat /\ Total(f, T) \in Nat BY <1>2
  <2>5. Total(f, U) \in Nat BY <2>2, <2>3, <2>4
  <2> QED BY <2>5
<1> HIDE DEF Q
<1>3. S \in Q BY <1>1, <1>2, EveryFinite
<1> QED BY <1>3 DEF Q

(* Larger summands have the larger total.                                  *)
LEMMA TotalGrows ==
    ASSUME NEW S, IsFiniteSet(S), NEW f, NEW e,
           \A x \in S : f[x] \in Int /\ e[x] \in Int /\ f[x] <= e[x]
    PROVE  Total(f, S) <= Total(e, S)
<1> DEFINE Q == {T \in SUBSET S : Total(f, T) <= Total(e, T)}
<1>1. {} \in Q
  <2>1. Total(f, {}) = 0 /\ Total(e, {}) = 0 BY TotalEmpty
  <2> QED BY <2>1
<1>2. ASSUME NEW T \in SUBSET S, NEW x \in S \ T, T \in Q PROVE T \cup {x} \in Q
  <2> DEFINE U == T \cup {x}
  <2>1. IsFiniteSet(U) /\ IsFiniteSet(T) /\ U \ {x} = T /\ x \in U /\ U \in SUBSET S
    BY FS_Subset
  <2> HIDE DEF U
  <2>2. Total(f, U) = f[x] + Total(f, T) /\ Total(e, U) = e[x] + Total(e, T)
    BY <2>1, TotalTake, Zenon
  <2>3. Total(f, T) \in Int /\ Total(e, T) \in Int BY <2>1, TotalInt
  <2>4. f[x] \in Int /\ e[x] \in Int /\ f[x] <= e[x] /\ Total(f, T) <= Total(e, T)
    BY <1>2
  <2>5. Total(f, U) <= Total(e, U) BY <2>2, <2>3, <2>4
  <2> QED BY <2>1, <2>5 DEF U
<1> HIDE DEF Q
<1>3. S \in Q BY <1>1, <1>2, EveryFinite
<1> QED BY <1>3 DEF Q

(* The total of a union of disjoint sets.                                  *)
LEMMA TotalSplit ==
    ASSUME NEW S, IsFiniteSet(S), NEW U, IsFiniteSet(U), S \cap U = {}, NEW f,
           \A x \in S \cup U : f[x] \in Int
    PROVE  Total(f, S \cup U) = Total(f, S) + Total(f, U)
<1> DEFINE Q == {T \in SUBSET U : Total(f, S \cup T) = Total(f, S) + Total(f, T)}
<1>1. Total(f, S) \in Int BY TotalInt
<1>2. {} \in Q
  <2>1. S \cup {} = S /\ Total(f, {}) = 0 BY TotalEmpty
  <2> DEFINE m == Total(f, S)
  <2>2. m \in Int BY <1>1
  <2> HIDE DEF m
  <2>3. m = m + 0 BY <2>2
  <2>4. Total(f, S \cup {}) = m + Total(f, {}) BY <2>1, <2>3, Zenon DEF m
  <2> QED BY <2>4 DEF m
<1>3. ASSUME NEW T \in SUBSET U, NEW x \in U \ T, T \in Q PROVE T \cup {x} \in Q
  <2> DEFINE V == T \cup {x}
             W == S \cup V
             Z == S \cup T
  <2>1. IsFiniteSet(T) /\ IsFiniteSet(V) BY FS_Subset
  <2>2. IsFiniteSet(W) /\ IsFiniteSet(Z) BY <2>1, FS_Union
  <2>3. /\ x \in V /\ V \ {x} = T /\ x \in W /\ W \ {x} = Z /\ f[x] \in Int
        /\ \A y \in W : f[y] \in Int
        /\ \A y \in V : f[y] \in Int
        /\ \A y \in T : f[y] \in Int
    OBVIOUS
  <2>4. Total(f, Z) = Total(f, S) + Total(f, T) BY <1>3
  <2> HIDE DEF V, W, Z
  <2>5. Total(f, V) = f[x] + Total(f, T) BY <2>1, <2>3, TotalTake, Zenon
  <2>6. Total(f, W) = f[x] + Total(f, Z) BY <2>2, <2>3, TotalTake, Zenon
  <2>7. Total(f, T) \in Int BY <2>1, <2>3, TotalInt
  <2>8. Total(f, W) = Total(f, S) + Total(f, V) BY <1>1, <2>3, <2>4, <2>5, <2>6, <2>7
  <2> QED BY <2>8 DEF W, V
<1> HIDE DEF Q
<1>4. U \in Q BY <1>2, <1>3, EveryFinite
<1> QED BY <1>4 DEF Q

(* The total of sums is the sum of totals.                                 *)
LEMMA TotalPlus ==
    ASSUME NEW S, IsFiniteSet(S), NEW f, NEW e, NEW g,
           \A x \in S : f[x] \in Int /\ e[x] \in Int /\ g[x] = f[x] + e[x]
    PROVE  Total(g, S) = Total(f, S) + Total(e, S)
<1> DEFINE Q == {T \in SUBSET S : Total(g, T) = Total(f, T) + Total(e, T)}
<1>1. {} \in Q
  <2>1. Total(f, {}) = 0 /\ Total(e, {}) = 0 /\ Total(g, {}) = 0 BY TotalEmpty
  <2> QED BY <2>1
<1>2. ASSUME NEW T \in SUBSET S, NEW x \in S \ T, T \in Q PROVE T \cup {x} \in Q
  <2> DEFINE U == T \cup {x}
  <2>1. IsFiniteSet(U) /\ IsFiniteSet(T) /\ U \ {x} = T /\ x \in U /\ U \in SUBSET S
    BY FS_Subset
  <2>2. \A y \in S : g[y] \in Int OBVIOUS
  <2> HIDE DEF U
  <2>3. Total(f, U) = f[x] + Total(f, T) BY <2>1, TotalTake, Zenon
  <2>4. Total(e, U) = e[x] + Total(e, T) BY <2>1, TotalTake, Zenon
  <2>5. Total(g, U) = g[x] + Total(g, T)
    <3>1. \A y \in U : g[y] \in Int BY <2>1, <2>2
    <3> QED BY <2>1, <3>1, TotalTake, Zenon
  <2>6. Total(f, T) \in Int /\ Total(e, T) \in Int BY <2>1, TotalInt
  <2>7. /\ f[x] \in Int /\ e[x] \in Int /\ g[x] = f[x] + e[x]
        /\ Total(g, T) = Total(f, T) + Total(e, T)
    BY <1>2
  <2>8. Total(g, U) = Total(f, U) + Total(e, U)
    BY <2>3, <2>4, <2>5, <2>6, <2>7
  <2> QED BY <2>1, <2>8 DEF U
<1> HIDE DEF Q
<1>3. S \in Q BY <1>1, <1>2, EveryFinite
<1> QED BY <1>3 DEF Q

(* Summands outside a set may as well be zero.                             *)
LEMMA TotalFilter ==
    ASSUME NEW U, IsFiniteSet(U), NEW S, S \subseteq U, NEW f, \A x \in U : f[x] \in Int,
           NEW g, \A x \in U : g[x] = IF x \in S THEN f[x] ELSE 0
    PROVE  Total(g, U) = Total(f, S)
<1> DEFINE R == U \ S
           Q == {T \in SUBSET R : Total(g, T) = 0}
<1>1. IsFiniteSet(S) /\ IsFiniteSet(R) BY FS_Subset
<1>2. \A x \in U : g[x] \in Int OBVIOUS
<1>3. \A x \in R : g[x] = 0 OBVIOUS
<1>4. R \in Q
  <2>1. {} \in Q BY TotalEmpty
  <2>2. ASSUME NEW T \in SUBSET R, NEW x \in R \ T, T \in Q PROVE T \cup {x} \in Q
    <3> DEFINE V == T \cup {x}
    <3>1. IsFiniteSet(V) /\ V \ {x} = T /\ x \in V /\ V \in SUBSET R BY <1>1, FS_Subset
    <3>2. Total(g, T) = 0 /\ g[x] = 0 BY <1>3, <2>2
    <3> HIDE DEF V
    <3>3. \A y \in V : g[y] \in Int BY <1>2, <3>1
    <3>4. Total(g, V) = g[x] + Total(g, T) BY <3>1, <3>3, TotalTake, Zenon
    <3>5. Total(g, V) = 0 BY <3>2, <3>4
    <3> QED BY <3>1, <3>5 DEF V
  <2> HIDE DEF Q, R
  <2> QED BY <1>1, <2>1, <2>2, EveryFinite
<1>5. Total(g, U) = Total(g, S) + Total(g, R)
  <2>1. S \cap R = {} /\ S \cup R = U OBVIOUS
  <2> HIDE DEF R
  <2>2. \A x \in S \cup R : g[x] \in Int BY <1>2, <2>1
  <2>3. Total(g, S \cup R) = Total(g, S) + Total(g, R) BY <1>1, <2>1, <2>2, TotalSplit
  <2> QED BY <2>1, <2>3, Zenon
<1>6. Total(g, S) = Total(f, S)
  <2>1. \A x \in S : g[x] = f[x] OBVIOUS
  <2> QED BY <1>1, <2>1, TotalSame
<1>7. Total(f, S) \in Int
  <2>1. \A x \in S : f[x] \in Int OBVIOUS
  <2> QED BY <1>1, <2>1, TotalInt
<1>8. Total(g, R) = 0 BY <1>4
<1> HIDE DEF R
<1> QED BY <1>5, <1>6, <1>7, <1>8

(* A one-to-one renaming of the indices keeps a total.                     *)
LEMMA TotalMoved ==
    ASSUME NEW K, IsFiniteSet(K), NEW m, NEW c, NEW row,
           \A j, k \in K : m[j] = m[k] => j = k,
           \A k \in K : c[m[k]] \in Int /\ row[k] = c[m[k]],
           NEW R, \A y : y \in R <=> \E k \in K : y = m[k]
    PROVE  IsFiniteSet(R) /\ Total(c, R) = Total(row, K)
<1> DEFINE At(J) == {m[k] : k \in J}
           Q == {J \in SUBSET K : IsFiniteSet(At(J)) /\ Total(c, At(J)) = Total(row, J)}
<1>1. {} \in Q
  <2>1. At({}) = {} OBVIOUS
  <2>2. IsFiniteSet(At({})) /\ Total(c, At({})) = 0 /\ Total(row, {}) = 0
    BY <2>1, FS_EmptySet, TotalEmpty
  <2> QED BY <2>2
<1>2. ASSUME NEW J \in SUBSET K, NEW x \in K \ J, J \in Q PROVE J \cup {x} \in Q
  <2> DEFINE L == J \cup {x}
             A == At(J)
             B == At(L)
             p == m[x]
  <2>1. IsFiniteSet(L) /\ L \ {x} = J /\ x \in L /\ L \in SUBSET K BY FS_Subset
  <2>2. B = A \cup {p} /\ B \ {p} = A /\ p \in B OBVIOUS
  <2>3. IsFiniteSet(A) /\ Total(c, A) = Total(row, J) BY <1>2
  <2>4. \A y \in B : c[y] \in Int
    <3>1. \A y \in B : \E k \in K : y = m[k] OBVIOUS
    <3> HIDE DEF B
    <3> QED BY <3>1
  <2>5. \A k \in L : row[k] \in Int BY <2>1
  <2>6. row[x] = c[p] OBVIOUS
  <2> HIDE DEF L, A, B, p, At
  <2>7. IsFiniteSet(B) BY <2>2, <2>3, FS_AddElement
  <2>8. Total(c, B) = c[p] + Total(c, A)
    <3>1. Total(c, B) = c[p] + Total(c, B \ {p}) BY <2>2, <2>4, <2>7, TotalTake
    <3> QED BY <2>2, <3>1
  <2>9. Total(row, L) = row[x] + Total(row, J)
    <3>1. IsFiniteSet(L) /\ x \in L BY <2>1
    <3>2. Total(row, L) = row[x] + Total(row, L \ {x}) BY <3>1, <2>5, TotalTake
    <3> QED BY <2>1, <3>2
  <2>10. Total(c, B) = Total(row, L) BY <2>3, <2>6, <2>8, <2>9, Zenon
  <2> QED BY <2>1, <2>7, <2>10 DEF L, B
<1> HIDE DEF Q
<1>3. K \in Q BY <1>1, <1>2, EveryFinite
<1>4. At(K) = R OBVIOUS
<1> QED BY <1>3, <1>4 DEF Q

(* R is row t of the table c, indexed by K; U is the whole table, and rows *)
(* its rows' totals.                                                       *)
IsRow(R, f, c, t, K) ==
    /\ IsFiniteSet(K)
    /\ \A k \in K : c[<<t, k>>] \in Int /\ f[k] = c[<<t, k>>]
    /\ R = {<<t, k>> : k \in K}
IsTable(U, c, rows, row, T, K) ==
    /\ IsFiniteSet(T) /\ IsFiniteSet(K)
    /\ \A t \in T, k \in K : c[<<t, k>>] \in Int /\ row[t][k] = c[<<t, k>>]
    /\ \A t \in T : rows[t] = Total(row[t], K)
    /\ U = T \X K

(* The total of a row of a table.                                          *)
LEMMA TotalRow ==
    ASSUME NEW K, NEW c, NEW t, NEW f, NEW R, IsRow(R, f, c, t, K)
    PROVE  IsFiniteSet(R) /\ Total(c, R) = Total(f, K)
<1> DEFINE m == [k \in K |-> <<t, k>>]
<1>1. \A y : y \in R <=> \E k \in K : y = m[k] BY DEF IsRow
<1>2. \A j, k \in K : m[j] = m[k] => j = k OBVIOUS
<1>3. \A k \in K : c[m[k]] \in Int /\ f[k] = c[m[k]] BY DEF IsRow
<1>4. IsFiniteSet(K) BY DEF IsRow
<1> HIDE DEF m
<1> QED BY <1>1, <1>2, <1>3, <1>4, TotalMoved

(* The total of a table is the total of its rows' totals.                  *)
LEMMA TotalTable ==
    ASSUME NEW T, NEW K, NEW c, NEW row, NEW rows, NEW U, IsTable(U, c, rows, row, T, K)
    PROVE  Total(c, U) = Total(rows, T)
<1> USE DEF IsTable
<1> DEFINE Q == {J \in SUBSET T : IsFiniteSet(J \X K) /\ Total(c, J \X K) = Total(rows, J)}
<1>1. {} \in Q
  <2>1. {} \X K = {} OBVIOUS
  <2>2. IsFiniteSet({} \X K) /\ Total(c, {} \X K) = 0 /\ Total(rows, {}) = 0
    BY <2>1, FS_EmptySet, TotalEmpty
  <2> QED BY <2>2
<1>2. \A t \in T : rows[t] \in Int
  <2> SUFFICES ASSUME NEW t \in T PROVE rows[t] \in Int OBVIOUS
  <2> DEFINE f == row[t]
  <2>1. \A k \in K : f[k] \in Int OBVIOUS
  <2> HIDE DEF f
  <2>2. Total(f, K) \in Int BY <2>1, TotalInt
  <2> QED BY <2>2 DEF f
<1>3. ASSUME NEW t \in T
      PROVE  /\ IsFiniteSet({<<t, k>> : k \in K})
             /\ Total(c, {<<t, k>> : k \in K}) = rows[t]
  <2> DEFINE f == row[t]
  <2>1. \A k \in K : c[<<t, k>>] \in Int /\ f[k] = c[<<t, k>>] OBVIOUS
  <2>2. rows[t] = Total(f, K) OBVIOUS
  <2> DEFINE R == {<<t, k>> : k \in K}
  <2>3. IsRow(R, f, c, t, K) BY <2>1 DEF IsRow
  <2> HIDE DEF f, R
  <2>4. IsFiniteSet(R) /\ Total(c, R) = Total(f, K) BY <2>3, TotalRow
  <2> QED BY <2>2, <2>4 DEF R
<1>4. ASSUME NEW J \in SUBSET T, NEW x \in T \ J, J \in Q PROVE J \cup {x} \in Q
  <2> DEFINE L == J \cup {x}
             A == J \X K
             B == {<<x, k>> : k \in K}
  <2>1. IsFiniteSet(L) /\ L \ {x} = J /\ x \in L /\ L \in SUBSET T BY FS_Subset
  <2>2. L \X K = A \cup B /\ A \cap B = {} OBVIOUS
  <2>3. IsFiniteSet(A) /\ Total(c, A) = Total(rows, J) BY <1>4
  <2>4. \A y \in A \cup B : c[y] \in Int
    <3>1. \A y \in A \cup B : \E t \in T, k \in K : y = <<t, k>> OBVIOUS
    <3> HIDE DEF A, B
    <3> QED BY <3>1
  <2>5. Total(c, B) = rows[x] /\ IsFiniteSet(B) BY <1>3
  <2> HIDE DEF L, A, B
  <2>6. IsFiniteSet(A \cup B) BY <2>3, <2>5, FS_Union
  <2>7. Total(c, A \cup B) = Total(c, A) + Total(c, B) BY <2>2, <2>3, <2>4, <2>5, TotalSplit
  <2>8. Total(rows, L) = rows[x] + Total(rows, J)
    <3>1. \A t \in L : rows[t] \in Int BY <1>2, <2>1
    <3> QED BY <2>1, <3>1, TotalTake, Zenon
  <2>9. rows[x] \in Int /\ Total(rows, J) \in Int
    <3>1. \A t \in J : rows[t] \in Int BY <1>2
    <3>2. IsFiniteSet(J) BY FS_Subset
    <3> QED BY <1>2, <3>1, <3>2, TotalInt
  <2>10. Total(c, A \cup B) = Total(rows, L) BY <2>3, <2>5, <2>7, <2>8, <2>9
  <2> QED BY <2>1, <2>2, <2>6, <2>10 DEF L
<1> HIDE DEF Q
<1>5. T \in Q BY <1>1, <1>4, EveryFinite
<1> QED BY <1>5 DEF Q

=============================================================================
