-------------------------------- MODULE Sums --------------------------------
(***************************************************************************)
(* Sums over finite sets, for the accounts that the proofs keep.           *)
(***************************************************************************)
EXTENDS Integers, FiniteSets, Functions, FiniteSetTheorems, WellFoundedInduction, TLAPS

(* SumFunctionOnSet is defined by recursion over subsets.  What it computes*)
(* follows by minimal counterexamples, in the order of the numbers or of   *)
(* the subsets of a finite set.                                            *)

(* The element a sum takes first. *)
Pick(s) == CHOOSE x \in s : TRUE

(* g is the recursive function whose value for S is the sum. *)
IsSum(g, w, S) ==
  g = [s \in SUBSET S |-> IF s = {} THEN 0 ELSE w[Pick(s)] + g[s \ {Pick(s)}]]

(* A sum is the value of the function chosen for the set. *)
LEMMA SumDef ==
  ASSUME NEW w, NEW S
  PROVE  SumFunctionOnSet(w, S) = (CHOOSE g : IsSum(g, w, S))[S]
BY DEF SumFunctionOnSet, FoldFunctionOnSet, MapThenFoldSet, IsSum, Pick

(* A nonempty set of subsets of a finite set has a smallest member.        *)
LEMMA Smallest ==
  ASSUME NEW S, IsFiniteSet(S), NEW B \in SUBSET (SUBSET S), B # {}
  PROVE  \E s \in B : \A t \in B : t \subseteq s => t = s
<1>1. FiniteSubsetsOf(S) = SUBSET S
  BY FS_FiniteSubsetsOfFinite
<1>2. PICK s \in B : \A t \in B : ~ (<<t, s>> \in StrictSubsetOrdering(S))
  BY <1>1, WFMin, FS_StrictSubsetOrderingWellFounded
<1> QED BY <1>2 DEF StrictSubsetOrdering

(* The recursive function of a sum exists: for each n there is one that is *)
(* right for the subsets of at most n elements.                            *)
LEMMA SumExists ==
  ASSUME NEW S, IsFiniteSet(S), NEW w, \A x \in S : w[x] \in Int
  PROVE  \E g \in [SUBSET S -> Int] : IsSum(g, w, S)
<1> DEFINE Fits(g, n) ==
             \A s \in SUBSET S : Cardinality(s) <= n =>
               g[s] = IF s = {} THEN 0 ELSE w[Pick(s)] + g[s \ {Pick(s)}]
           Good(n) == \E g \in [SUBSET S -> Int] : Fits(g, n)
           Bad == {n \in Nat : ~ Good(n)}
<1>1. \A s \in SUBSET S :
        Cardinality(s) \in Nat /\ (Cardinality(s) = 0 <=> s = {})
  <2> TAKE s \in SUBSET S
  <2>1. IsFiniteSet(s)
    BY FS_Subset
  <2> QED BY <2>1, FS_CardinalityType, FS_EmptySet
<1>2. \A s \in SUBSET S : s # {} =>
        /\ Pick(s) \in S /\ s \ {Pick(s)} \in SUBSET S
        /\ Cardinality(s \ {Pick(s)}) = Cardinality(s) - 1
  <2> TAKE s \in SUBSET S
  <2> HAVE s # {}
  <2>1. IsFiniteSet(s)
    BY FS_Subset
  <2>2. Pick(s) \in s
    BY DEF Pick
  <2> QED BY <2>1, <2>2, FS_RemoveElement
<1>3. Good(0)
  <2> DEFINE g == [s \in SUBSET S |-> 0]
  <2>1. Fits(g, 0)
    BY <1>1
  <2>2. g \in [SUBSET S -> Int]
    OBVIOUS
  <2> QED BY <2>1, <2>2
<1>4. ASSUME NEW n \in Nat, Good(n) PROVE Good(n + 1)
  <2>1. PICK g \in [SUBSET S -> Int] : Fits(g, n)
    BY <1>4
  <2> DEFINE h == [s \in SUBSET S |-> IF Cardinality(s) <= n THEN g[s]
                                      ELSE w[Pick(s)] + g[s \ {Pick(s)}]]
  <2>2. \A s \in SUBSET S : ~(Cardinality(s) <= n) => s # {}
    BY <1>1
  <2>3. h \in [SUBSET S -> Int]
    <3> SUFFICES ASSUME NEW s \in SUBSET S
                 PROVE  (IF Cardinality(s) <= n THEN g[s]
                         ELSE w[Pick(s)] + g[s \ {Pick(s)}]) \in Int
      OBVIOUS
    <3>1. CASE Cardinality(s) <= n
      BY <3>1
    <3>2. CASE ~(Cardinality(s) <= n)
      <4>1. w[Pick(s)] \in Int /\ g[s \ {Pick(s)}] \in Int
        BY <1>2, <2>2, <3>2
      <4> QED BY <3>2, <4>1
    <3> QED BY <3>1, <3>2
  <2>4. ASSUME NEW s \in SUBSET S, Cardinality(s) <= n + 1
        PROVE  h[s] = IF s = {} THEN 0 ELSE w[Pick(s)] + h[s \ {Pick(s)}]
    <3>1. CASE s = {}
      <4>1. Cardinality(s) <= n
        BY <1>1, <3>1
      <4>2. h[s] = g[s]
        BY <4>1
      <4> QED BY <2>1, <3>1, <4>1, <4>2
    <3>2. CASE s # {}
      <4>1. s \ {Pick(s)} \in SUBSET S /\ Cardinality(s \ {Pick(s)}) <= n
        BY <1>1, <1>2, <2>4, <3>2
      <4>2. h[s \ {Pick(s)}] = g[s \ {Pick(s)}]
        BY <4>1
      <4>3. h[s] = w[Pick(s)] + g[s \ {Pick(s)}]
        BY <2>1, <3>2
      <4> QED BY <3>2, <4>2, <4>3
    <3> QED BY <3>1, <3>2
  <2> HIDE DEF h
  <2>5. Fits(h, n + 1)
    BY <2>4
  <2> QED BY <2>3, <2>5
<1>5. \A n \in Nat : Good(n)
  <2> HIDE DEF Good
  <2> SUFFICES ASSUME Bad # {} PROVE FALSE
    OBVIOUS
  <2>1. PICK n \in Bad : \A m \in Bad : ~ (<<m, n>> \in OpToRel(<, Nat))
    BY WFMin, NatLessThanWellFounded, Zenon
  <2>2. \A m \in Bad : ~ (m < n)
    BY <2>1, Zenon DEF OpToRel
  <2>3. n # 0
    BY <1>3
  <2>4. n - 1 \in Nat /\ n - 1 \notin Bad
    BY <2>2, <2>3
  <2>5. Good((n - 1) + 1)
    BY <1>4, <2>4
  <2> QED BY <2>4, <2>5
<1>6. PICK g \in [SUBSET S -> Int] : Fits(g, Cardinality(S))
  <2>1. Cardinality(S) \in Nat
    BY <1>1
  <2> QED BY <1>5, <2>1
<1>7. \A s \in SUBSET S : Cardinality(s) <= Cardinality(S)
  BY FS_Subset
<1>8. IsSum(g, w, S)
  <2>1. \A s \in SUBSET S :
          g[s] = IF s = {} THEN 0 ELSE w[Pick(s)] + g[s \ {Pick(s)}]
    BY <1>6, <1>7
  <2> QED BY <2>1 DEF IsSum
<1> QED BY <1>8

(* Two such functions, of two sets, agree where both are defined.          *)
LEMMA SumsAgree ==
  ASSUME NEW S, NEW T, NEW w, NEW g, NEW h, IsSum(g, w, S), IsSum(h, w, T),
         IsFiniteSet(S), NEW U \in SUBSET S, U \subseteq T
  PROVE  g[U] = h[U]
<1> DEFINE B == {s \in SUBSET S : s \subseteq T /\ g[s] # h[s]}
<1>1. SUFFICES ASSUME B # {} PROVE FALSE
  OBVIOUS
<1>2. PICK s \in B : \A t \in B : t \subseteq s => t = s
  <2>1. B \in SUBSET (SUBSET S)
    OBVIOUS
  <2> HIDE DEF B
  <2> QED BY <1>1, <2>1, Smallest
<1>3. /\ g[s] = IF s = {} THEN 0 ELSE w[Pick(s)] + g[s \ {Pick(s)}]
      /\ h[s] = IF s = {} THEN 0 ELSE w[Pick(s)] + h[s \ {Pick(s)}]
  <2> DEFINE gg == [t \in SUBSET S |->
                      IF t = {} THEN 0 ELSE w[Pick(t)] + g[t \ {Pick(t)}]]
             hh == [t \in SUBSET T |->
                      IF t = {} THEN 0 ELSE w[Pick(t)] + h[t \ {Pick(t)}]]
  <2>1. g = gg /\ h = hh
    BY DEF IsSum
  <2>2. s \in SUBSET S /\ s \in SUBSET T
    BY <1>2
  <2>3. gg[s] = IF s = {} THEN 0 ELSE w[Pick(s)] + g[s \ {Pick(s)}]
    BY <2>2
  <2>4. hh[s] = IF s = {} THEN 0 ELSE w[Pick(s)] + h[s \ {Pick(s)}]
    BY <2>2
  <2> HIDE DEF gg, hh
  <2> QED BY <2>1, <2>3, <2>4
<1>4. CASE s = {}
  BY <1>2, <1>3, <1>4
<1>5. CASE s # {}
  <2>1. Pick(s) \in s
    BY <1>5 DEF Pick
  <2>2. s \ {Pick(s)} \notin B
    BY <1>2, <2>1
  <2>3. g[s \ {Pick(s)}] = h[s \ {Pick(s)}]
    BY <1>2, <2>2
  <2> QED BY <1>2, <1>3, <1>5, <2>3
<1> QED BY <1>4, <1>5

(* A sum unfolds by the element it takes first. *)
LEMMA SumUnfold ==
  ASSUME NEW S, IsFiniteSet(S), NEW w, \A x \in S : w[x] \in Int
  PROVE  /\ SumFunctionOnSet(w, S) \in Int
         /\ S = {} => SumFunctionOnSet(w, S) = 0
         /\ S # {} => SumFunctionOnSet(w, S) =
                        w[Pick(S)] + SumFunctionOnSet(w, S \ {Pick(S)})
<1>1. PICK g \in [SUBSET S -> Int] : IsSum(g, w, S)
  BY SumExists
<1>2. ASSUME NEW T \in SUBSET S PROVE SumFunctionOnSet(w, T) = g[T]
  <2>1. IsFiniteSet(T)
    BY FS_Subset
  <2>2. \E h : IsSum(h, w, T)
    BY <2>1, SumExists
  <2>3. IsSum(CHOOSE h : IsSum(h, w, T), w, T)
    BY <2>2
  <2>4. (CHOOSE h : IsSum(h, w, T))[T] = g[T]
    BY <1>1, <2>1, <2>3, SumsAgree
  <2> QED BY <2>4, SumDef
<1>3. g[S] = IF S = {} THEN 0 ELSE w[Pick(S)] + g[S \ {Pick(S)}]
  <2> DEFINE gg == [t \in SUBSET S |->
                      IF t = {} THEN 0 ELSE w[Pick(t)] + g[t \ {Pick(t)}]]
  <2>1. g = gg
    BY <1>1 DEF IsSum
  <2>2. gg[S] = IF S = {} THEN 0 ELSE w[Pick(S)] + g[S \ {Pick(S)}]
    OBVIOUS
  <2> HIDE DEF gg
  <2> QED BY <2>1, <2>2
<1>4. /\ SumFunctionOnSet(w, S) = g[S]
      /\ SumFunctionOnSet(w, S \ {Pick(S)}) = g[S \ {Pick(S)}]
  BY <1>2
<1> QED BY <1>1, <1>3, <1>4

(* The order in which a sum takes its elements does not matter. *)
LEMMA SumRemove ==
  ASSUME NEW S, IsFiniteSet(S), NEW w, \A x \in S : w[x] \in Int, NEW x \in S
  PROVE  SumFunctionOnSet(w, S) = w[x] + SumFunctionOnSet(w, S \ {x})
<1> DEFINE Sum(T) == SumFunctionOnSet(w, T)
           B == {T \in SUBSET S : \E y \in T : Sum(T) # w[y] + Sum(T \ {y})}
<1>1. SUFFICES ASSUME B # {} PROVE FALSE
  OBVIOUS
<1>2. PICK T \in B : \A U \in B : U \subseteq T => U = T
  <2>1. B \in SUBSET (SUBSET S)
    OBVIOUS
  <2> HIDE DEF B
  <2> QED BY <1>1, <2>1, Smallest
<1>3. PICK y \in T : Sum(T) # w[y] + Sum(T \ {y})
  BY <1>2
<1>4. ASSUME NEW U \in SUBSET S
      PROVE  /\ Sum(U) \in Int
             /\ U # {} => Sum(U) = w[Pick(U)] + Sum(U \ {Pick(U)}) /\ Pick(U) \in U
  <2>1. IsFiniteSet(U)
    BY FS_Subset
  <2>2. U # {} => Pick(U) \in U
    BY DEF Pick
  <2> QED BY <2>1, <2>2, SumUnfold
<1> DEFINE p == Pick(T)
<1> HIDE DEF Sum
<1>5. Sum(T) = w[p] + Sum(T \ {p}) /\ p \in T /\ p # y /\ w[p] \in Int /\ w[y] \in Int
  BY <1>2, <1>3, <1>4
<1>6. Sum(T \ {p}) = w[y] + Sum((T \ {p}) \ {y})
  BY <1>2, <1>3, <1>5
<1>7. Sum(T \ {y}) = w[p] + Sum((T \ {y}) \ {p})
  BY <1>2, <1>3, <1>5
<1>8. (T \ {y}) \ {p} = (T \ {p}) \ {y}
  OBVIOUS
<1>9. Sum((T \ {p}) \ {y}) \in Int
  BY <1>2, <1>4
<1> DEFINE a == Sum(T \ {p})
           b == Sum(T \ {y})
           c == Sum((T \ {p}) \ {y})
<1>10. Sum(T) = w[p] + a /\ a = w[y] + c /\ b = w[p] + c /\ c \in Int
  BY <1>5, <1>6, <1>7, <1>8, <1>9
<1>11. Sum(T) # w[y] + b
  BY <1>3
<1> HIDE DEF p, a, b, c
<1> QED BY <1>5, <1>10, <1>11

(* A sum grows by what a new element adds. *)
LEMMA SumAdd ==
  ASSUME NEW S, IsFiniteSet(S), NEW w, \A x \in S : w[x] \in Int,
         NEW x, x \notin S, w[x] \in Int
  PROVE  SumFunctionOnSet(w, S \cup {x}) = SumFunctionOnSet(w, S) + w[x]
<1>1. IsFiniteSet(S \cup {x})
  BY FS_AddElement
<1>2. (S \cup {x}) \ {x} = S
  OBVIOUS
<1>3. SumFunctionOnSet(w, S \cup {x}) =
        w[x] + SumFunctionOnSet(w, (S \cup {x}) \ {x})
  BY <1>1, SumRemove
<1>4. SumFunctionOnSet(w, S) \in Int
  BY SumUnfold
<1> DEFINE a == SumFunctionOnSet(w, S)
           b == SumFunctionOnSet(w, S \cup {x})
<1>5. b = w[x] + a /\ a \in Int
  BY <1>2, <1>3, <1>4
<1>6. SUFFICES b = a + w[x]
  OBVIOUS
<1> HIDE DEF a, b
<1> QED BY <1>5

(* A sum of natural numbers is one. *)
LEMMA SumNat ==
  ASSUME NEW S, IsFiniteSet(S), NEW w, \A x \in S : w[x] \in Nat
  PROVE  SumFunctionOnSet(w, S) \in Nat
<1> DEFINE Sum(T) == SumFunctionOnSet(w, T)
           B == {T \in SUBSET S : Sum(T) \notin Nat}
<1>1. SUFFICES ASSUME B # {} PROVE FALSE
  OBVIOUS
<1>2. PICK T \in B : \A U \in B : U \subseteq T => U = T
  <2>1. B \in SUBSET (SUBSET S)
    OBVIOUS
  <2> HIDE DEF B
  <2> QED BY <1>1, <2>1, Smallest
<1>3. IsFiniteSet(T) /\ \A x \in T : w[x] \in Int
  BY <1>2, FS_Subset
<1>4. T # {}
  <2>1. T = {} => Sum(T) = 0
    BY <1>3, SumUnfold
  <2> HIDE DEF Sum
  <2> QED BY <1>2, <2>1
<1>5. Pick(T) \in T /\ Sum(T) = w[Pick(T)] + Sum(T \ {Pick(T)})
  BY <1>3, <1>4, SumUnfold DEF Pick
<1>6. T \ {Pick(T)} \notin B
  BY <1>2, <1>5
<1> HIDE DEF Sum
<1>7. Sum(T \ {Pick(T)}) \in Nat /\ w[Pick(T)] \in Nat
  BY <1>2, <1>5, <1>6
<1>8. Sum(T) \in Nat
  BY <1>5, <1>7
<1> QED BY <1>2, <1>8

(* A sum depends on the values at the elements only. *)
LEMMA SumSame ==
  ASSUME NEW S, IsFiniteSet(S), NEW v, NEW w, \A x \in S : v[x] \in Int /\ w[x] = v[x]
  PROVE  SumFunctionOnSet(w, S) = SumFunctionOnSet(v, S)
<1> DEFINE B == {T \in SUBSET S : SumFunctionOnSet(w, T) # SumFunctionOnSet(v, T)}
<1>1. SUFFICES ASSUME B # {} PROVE FALSE
  OBVIOUS
<1>2. PICK T \in B : \A U \in B : U \subseteq T => U = T
  <2>1. B \in SUBSET (SUBSET S)
    OBVIOUS
  <2> HIDE DEF B
  <2> QED BY <1>1, <2>1, Smallest
<1>3. IsFiniteSet(T) /\ \A x \in T : w[x] \in Int /\ v[x] \in Int /\ w[x] = v[x]
  BY <1>2, FS_Subset
<1>4. T # {}
  BY <1>2, <1>3, SumUnfold
<1>5. /\ Pick(T) \in T
      /\ SumFunctionOnSet(w, T) = w[Pick(T)] + SumFunctionOnSet(w, T \ {Pick(T)})
      /\ SumFunctionOnSet(v, T) = v[Pick(T)] + SumFunctionOnSet(v, T \ {Pick(T)})
  BY <1>3, <1>4, SumUnfold DEF Pick
<1>6. T \ {Pick(T)} \notin B
  BY <1>2, <1>5
<1>7. SumFunctionOnSet(w, T \ {Pick(T)}) = SumFunctionOnSet(v, T \ {Pick(T)})
  BY <1>2, <1>6
<1> QED BY <1>2, <1>3, <1>5, <1>7

(* Larger values make larger sums. *)
LEMMA SumLess ==
  ASSUME NEW S, IsFiniteSet(S), NEW v, NEW w,
         \A x \in S : v[x] \in Int /\ w[x] \in Int /\ v[x] <= w[x]
  PROVE  SumFunctionOnSet(v, S) <= SumFunctionOnSet(w, S)
<1> DEFINE B == {T \in SUBSET S : ~ (SumFunctionOnSet(v, T) <= SumFunctionOnSet(w, T))}
<1>1. SUFFICES ASSUME B # {} PROVE FALSE
  OBVIOUS
<1>2. PICK T \in B : \A U \in B : U \subseteq T => U = T
  <2>1. B \in SUBSET (SUBSET S)
    OBVIOUS
  <2> HIDE DEF B
  <2> QED BY <1>1, <2>1, Smallest
<1>3. IsFiniteSet(T) /\ \A x \in T : w[x] \in Int /\ v[x] \in Int /\ v[x] <= w[x]
  BY <1>2, FS_Subset
<1>4. T # {}
  <2>1. T = {} => SumFunctionOnSet(v, T) = 0 /\ SumFunctionOnSet(w, T) = 0
    BY <1>3, SumUnfold
  <2> QED BY <1>2, <2>1
<1> DEFINE p == Pick(T)  U == T \ {p}  sv == SumFunctionOnSet(v, U)  sw == SumFunctionOnSet(w, U)
<1>5. /\ p \in T
      /\ SumFunctionOnSet(w, T) = w[p] + sw
      /\ SumFunctionOnSet(v, T) = v[p] + sv
  BY <1>3, <1>4, SumUnfold DEF Pick
<1>6. IsFiniteSet(U) /\ U \subseteq T /\ U # T
  BY <1>3, <1>5, FS_Subset
<1>7. sv <= sw
  BY <1>2, <1>6
<1>8. sv \in Int /\ sw \in Int
  <2> HIDE DEF U
  <2>1. \A x \in U : v[x] \in Int /\ w[x] \in Int
    BY <1>3, <1>6
  <2> QED BY <1>6, <2>1, SumUnfold
<1> HIDE DEF sv, sw, p
<1>9. SumFunctionOnSet(v, T) <= SumFunctionOnSet(w, T)
  BY <1>3, <1>5, <1>7, <1>8
<1> QED BY <1>2, <1>9

(* No part of a sum of natural numbers exceeds it. *)
LEMMA SumWithin ==
  ASSUME NEW S, IsFiniteSet(S), NEW w, \A x \in S : w[x] \in Nat, NEW T \in SUBSET S
  PROVE  SumFunctionOnSet(w, T) <= SumFunctionOnSet(w, S)
<1> DEFINE Sum(V) == SumFunctionOnSet(w, V)
           B == {U \in SUBSET (S \ T) : ~ (Sum(T) <= Sum(T \cup U))}
<1>1. \A V \in SUBSET S : IsFiniteSet(V) /\ Sum(V) \in Nat
  <2> TAKE V \in SUBSET S
  <2>1. IsFiniteSet(V)
    BY FS_Subset
  <2> QED BY <2>1, SumNat
<1>2. B = {}
  <2> SUFFICES ASSUME B # {} PROVE FALSE
    OBVIOUS
  <2>1. PICK U \in B : \A V \in B : V \subseteq U => V = U
    <3>1. B \in SUBSET (SUBSET (S \ T)) /\ IsFiniteSet(S \ T)
      BY FS_Subset
    <3> HIDE DEF B
    <3> QED BY <3>1, Smallest
  <2>2. U # {}
    <3>1. T \cup {} = T /\ Sum(T) \in Nat
      BY <1>1
    <3> HIDE DEF Sum
    <3>2. {} \notin B
      BY <3>1
    <3> HIDE DEF B
    <3> QED BY <2>1, <3>2
  <2>3. PICK x \in U : TRUE
    BY <2>2
  <2> DEFINE V == U \ {x}  L == T \cup U  M == T \cup V
  <2>4. L \in SUBSET S /\ M \in SUBSET S /\ x \in L /\ L \ {x} = M /\ w[x] \in Nat
    BY <2>1
  <2>5. Sum(L) = w[x] + Sum(M)
    <3>1. IsFiniteSet(L) /\ \A y \in L : w[y] \in Int
      BY <1>1, <2>4
    <3> HIDE DEF L, M
    <3> QED BY <2>4, <3>1, SumRemove
  <2>6. Sum(T) <= Sum(M)
    <3>1. V \notin B
      BY <2>1, <2>3
    <3> QED BY <2>1, <3>1
  <2>7. Sum(L) \in Nat /\ Sum(M) \in Nat /\ Sum(T) \in Nat
    BY <1>1, <2>4
  <2> HIDE DEF Sum, M
  <2>8. Sum(T) <= Sum(L)
    BY <2>4, <2>5, <2>6, <2>7
  <2> QED BY <2>1, <2>8
<1>3. S \ T \notin B
  BY <1>2
<1>4. T \cup (S \ T) = S
  OBVIOUS
<1> QED BY <1>3, <1>4

(* A factor of all values is a factor of the sum. *)
LEMMA SumTimes ==
  ASSUME NEW S, IsFiniteSet(S), NEW c \in Int, NEW v, NEW w,
         \A x \in S : w[x] \in Int /\ v[x] = c * w[x]
  PROVE  SumFunctionOnSet(v, S) = c * SumFunctionOnSet(w, S)
<1> DEFINE B == {T \in SUBSET S : SumFunctionOnSet(v, T) # c * SumFunctionOnSet(w, T)}
<1>1. SUFFICES ASSUME B # {} PROVE FALSE
  OBVIOUS
<1>2. PICK T \in B : \A U \in B : U \subseteq T => U = T
  <2>1. B \in SUBSET (SUBSET S)
    OBVIOUS
  <2> HIDE DEF B
  <2> QED BY <1>1, <2>1, Smallest
<1>3. IsFiniteSet(T) /\ \A x \in T : w[x] \in Int /\ v[x] \in Int /\ v[x] = c * w[x]
  <2>1. \A x \in T : c * w[x] \in Int
    BY <1>2
  <2> QED BY <1>2, <2>1, FS_Subset
<1>4. T # {}
  <2>1. T = {} => SumFunctionOnSet(v, T) = 0 /\ SumFunctionOnSet(w, T) = 0
    BY <1>3, SumUnfold
  <2>2. c * 0 = 0
    OBVIOUS
  <2> QED BY <1>2, <2>1, <2>2
<1> DEFINE p == Pick(T)  U == T \ {p}  sv == SumFunctionOnSet(v, U)  sw == SumFunctionOnSet(w, U)
<1>5. /\ p \in T
      /\ SumFunctionOnSet(w, T) = w[p] + sw
      /\ SumFunctionOnSet(v, T) = v[p] + sv
  BY <1>3, <1>4, SumUnfold DEF Pick
<1>6. IsFiniteSet(U) /\ U \subseteq T /\ U # T
  BY <1>3, <1>5, FS_Subset
<1>7. sv = c * sw
  BY <1>2, <1>6
<1>8. sw \in Int
  <2> HIDE DEF U
  <2>1. \A x \in U : w[x] \in Int
    BY <1>3, <1>6
  <2> QED BY <1>6, <2>1, SumUnfold
<1> HIDE DEF sv, sw, p
<1>9. v[p] + c * sw = c * (w[p] + sw)
  <2>1. v[p] = c * w[p] /\ w[p] \in Int
    BY <1>3, <1>5
  <2>2. \A a, b \in Int : c * a + c * b = c * (a + b)
    OBVIOUS
  <2> QED BY <1>8, <2>1, <2>2
<1> QED BY <1>2, <1>5, <1>7, <1>9

(* Values of at most b sum to at most b for each element. *)
LEMMA SumAtMost ==
  ASSUME NEW S, IsFiniteSet(S), NEW b \in Int, NEW w, \A x \in S : w[x] \in Int /\ w[x] <= b
  PROVE  SumFunctionOnSet(w, S) <= Cardinality(S) * b
<1> DEFINE B == {T \in SUBSET S : ~ (SumFunctionOnSet(w, T) <= Cardinality(T) * b)}
<1>1. SUFFICES ASSUME B # {} PROVE FALSE
  OBVIOUS
<1>2. PICK T \in B : \A U \in B : U \subseteq T => U = T
  <2>1. B \in SUBSET (SUBSET S)
    OBVIOUS
  <2> HIDE DEF B
  <2> QED BY <1>1, <2>1, Smallest
<1>3. IsFiniteSet(T) /\ \A x \in T : w[x] \in Int /\ w[x] <= b
  BY <1>2, FS_Subset
<1>4. T # {}
  <2>1. T = {} => SumFunctionOnSet(w, T) = 0 /\ Cardinality(T) = 0
    BY <1>3, SumUnfold, FS_EmptySet
  <2>2. 0 <= 0 * b
    OBVIOUS
  <2> QED BY <1>2, <2>1, <2>2
<1> DEFINE p == Pick(T)  U == T \ {p}  sw == SumFunctionOnSet(w, U)
<1>5. p \in T /\ SumFunctionOnSet(w, T) = w[p] + sw
  BY <1>3, <1>4, SumUnfold DEF Pick
<1>6. /\ IsFiniteSet(U) /\ U \subseteq T /\ U # T
      /\ Cardinality(U) \in Nat /\ Cardinality(T) = Cardinality(U) + 1
  <2>1. IsFiniteSet(U) /\ Cardinality(U) = Cardinality(T) - 1
    BY <1>3, <1>5, FS_RemoveElement
  <2>2. Cardinality(U) \in Nat /\ Cardinality(T) \in Nat
    BY <1>3, <2>1, FS_CardinalityType
  <2> QED BY <1>5, <2>1, <2>2
<1>7. sw <= Cardinality(U) * b
  BY <1>2, <1>6
<1>8. sw \in Int
  <2> HIDE DEF U
  <2>1. \A x \in U : w[x] \in Int
    BY <1>3, <1>6
  <2> QED BY <1>6, <2>1, SumUnfold
<1> DEFINE n == Cardinality(U)  m == Cardinality(T)
<1> HIDE DEF sw, p, U, n, m
<1>9. w[p] + sw <= m * b
  <2> DEFINE nb == n * b
  <2>1. m * b = nb + b /\ nb \in Int
    BY <1>6 DEF n, m
  <2>2. w[p] \in Int /\ w[p] <= b /\ sw <= nb
    BY <1>3, <1>5, <1>7 DEF n
  <2> HIDE DEF nb
  <2> QED BY <1>8, <2>1, <2>2
<1> QED BY <1>2, <1>5, <1>9 DEF m

(* The recursive function of a sum, at the set, is the sum. *)
LEMMA SumByFunction ==
    ASSUME NEW S, IsFiniteSet(S), NEW w, \A x \in S : w[x] \in Int, NEW g, IsSum(g, w, S)
    PROVE  SumFunctionOnSet(w, S) = g[S]
<1>1. IsSum(CHOOSE h : IsSum(h, w, S), w, S)
  OBVIOUS
<1> DEFINE h == CHOOSE h : IsSum(h, w, S)
<1>2. IsSum(h, w, S)
  BY <1>1
<1>3. SumFunctionOnSet(w, S) = h[S]
  BY SumDef
<1> HIDE DEF h
<1>4. h[S] = g[S]
  BY <1>2, SumsAgree
<1> QED BY <1>3, <1>4

(* Zeros sum to nothing. *)
LEMMA SumNone ==
    ASSUME NEW S, IsFiniteSet(S), NEW w, \A x \in S : w[x] = 0
    PROVE  SumFunctionOnSet(w, S) = 0
<1>1. \A x \in S : w[x] \in Int /\ w[x] = 0 * w[x]
  OBVIOUS
<1>2. ASSUME NEW c \in Int, c = 0
      PROVE  SumFunctionOnSet(w, S) = c * SumFunctionOnSet(w, S)
  <2>1. \A x \in S : w[x] \in Int /\ w[x] = c * w[x]
    BY <1>1, <1>2
  <2> QED BY <2>1, SumTimes
<1>3. SumFunctionOnSet(w, S) \in Int
  BY <1>1, SumUnfold
<1> QED BY <1>2, <1>3

(* A sum of which one alone is not zero. *)
LEMMA SumOne ==
    ASSUME NEW S, IsFiniteSet(S), NEW w, NEW x \in S, w[x] \in Int,
           \A y \in S : y # x => w[y] = 0
    PROVE  SumFunctionOnSet(w, S) = w[x]
<1>1. \A y \in S : w[y] \in Int
  OBVIOUS
<1>2. SumFunctionOnSet(w, S) = w[x] + SumFunctionOnSet(w, S \ {x})
  BY <1>1, SumRemove
<1>3. IsFiniteSet(S \ {x}) /\ \A y \in S \ {x} : w[y] = 0
  BY FS_RemoveElement
<1>4. SumFunctionOnSet(w, S \ {x}) = 0
  BY <1>3, SumNone
<1> QED BY <1>2, <1>4

(* There is a recursive function of a sum. *)
LEMMA SomeFunction ==
    ASSUME NEW S, IsFiniteSet(S), NEW w, \A x \in S : w[x] \in Int
    PROVE  \E g : IsSum(g, w, S)
BY SumExists

=============================================================================
