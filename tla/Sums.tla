-------------------------------- MODULE Sums --------------------------------
(***************************************************************************)
(* Facts about SumFunctionOnSet, the sum of w[x] for x in a finite set S:  *)
(* the balance of a customer, the quantity of a document's lines, what     *)
(* receipts allocate, the goods in the godowns.                            *)
(*                                                                         *)
(* The community modules define the sum by a recursion that takes the      *)
(* elements in the order of CHOOSE.  That it exists, and that any element  *)
(* may be taken first, is proved by induction on the size of the set; the  *)
(* induction itself is stated for the set of numbers for which something   *)
(* holds, not for an operator.                                             *)
(*                                                                         *)
(* Also, for the deadlocks of transactions: in a finite group in which     *)
(* everyone waits for another, some wait in a circle.                      *)
(***************************************************************************)
EXTENDS Integers, Functions, FiniteSetTheorems, WellFoundedInduction, TLAPS

-----------------------------------------------------------------------------
(* Induction *)

Less == {p \in Nat \X Nat : p[1] < p[2]}

\* The order of the natural numbers has no endless descent.
LEMMA LessWellFounded == IsWellFoundedOn(Less, Nat)
<1>1. OpToRel(<, Nat) = Less
  BY DEF OpToRel, Less
<1> QED BY <1>1, NatLessThanWellFounded, Zenon

\* Induction, as a fact about sets.
LEMMA SetInduction ==
    ASSUME NEW S, 0 \in S, \A n \in Nat : n \in S => n + 1 \in S
    PROVE  Nat \subseteq S
<1> SUFFICES ASSUME {n \in Nat : n \notin S} # {} PROVE FALSE
  OBVIOUS
<1>1. PICK x \in {n \in Nat : n \notin S} :
           \A y \in {n \in Nat : n \notin S} : <<y, x>> \notin Less
  BY LessWellFounded, WFMin
<1>2. x # 0 /\ x - 1 \in Nat /\ x - 1 < x
  OBVIOUS
<1>3. <<x - 1, x>> \in Less
  BY <1>2 DEF Less
<1>4. x - 1 \in S
  BY <1>1, <1>2, <1>3
<1> QED BY <1>2, <1>4

\* Induction over a finite set: what holds of the empty set, and of a set with one
\* element more, holds of the whole.
LEMMA SubsetInduction ==
    ASSUME NEW S, IsFiniteSet(S), NEW P, {} \in P,
           \A T \in SUBSET S : \A x \in S \ T : T \in P => T \cup {x} \in P
    PROVE  S \in P
<1> DEFINE N == {n \in Nat : \A T \in SUBSET S : Cardinality(T) = n => T \in P}
<1>1. \A T \in SUBSET S : IsFiniteSet(T) /\ Cardinality(T) \in Nat
  BY FS_Subset, FS_CardinalityType
<1>2. 0 \in N
  BY <1>1, FS_EmptySet
<1>3. ASSUME NEW n \in Nat, n \in N PROVE n + 1 \in N
  <2>1. SUFFICES ASSUME NEW T \in SUBSET S, Cardinality(T) = n + 1 PROVE T \in P
    OBVIOUS
  <2>2. T # {}
    <3>1. Cardinality({}) = 0 /\ n + 1 # 0
      BY FS_EmptySet
    <3> QED BY <2>1, <3>1
  <2>3. PICK x \in T : TRUE
    BY <2>2
  <2>4. Cardinality(T \ {x}) = n
    <3>1. IsFiniteSet(T) /\ x \in T
      BY <1>1, <2>3
    <3>2. Cardinality(T \ {x}) = Cardinality(T) - 1
      BY <3>1, FS_RemoveElement
    <3> QED BY <2>1, <3>2
  <2>5. T \ {x} \in SUBSET S /\ T = (T \ {x}) \cup {x} /\ x \in S \ (T \ {x})
    BY <2>3
  <2>6. T \ {x} \in P
    BY <1>3, <2>4, <2>5
  <2> QED BY <2>5, <2>6
<1> HIDE DEF N
<1>4. Nat \subseteq N
  BY <1>2, <1>3, SetInduction
<1> QED BY <1>1, <1>4 DEF N

-----------------------------------------------------------------------------
(* The definition *)

\* f is the function by which SumFunctionOnSet adds up the subsets of S.
First(T) == CHOOSE x \in T : TRUE

Adding(f, w, T) == IF T = {} THEN 0 ELSE w[First(T)] + f[T \ {First(T)}]

Adds(f, w, S) == f = [T \in SUBSET S |-> Adding(f, w, T)]

LEMMA FirstOf == \A T : T # {} => First(T) \in T
BY DEF First

\* The sum is what that function says of the whole ...
LEMMA SumIs ==
    ASSUME NEW w, NEW S
    PROVE  SumFunctionOnSet(w, S) = (CHOOSE f : Adds(f, w, S))[S]
BY Zenon DEF SumFunctionOnSet, FoldFunctionOnSet, MapThenFoldSet, Adds, Adding, First

\* ... there is such a function ...
LEMMA AddingExists ==
    ASSUME NEW w, NEW S, IsFiniteSet(S)
    PROVE  \E f : Adds(f, w, S)
<1> DEFINE N == {n \in Nat : \E f : \A T \in SUBSET S :
                     Cardinality(T) <= n => f[T] = Adding(f, w, T)}
<1>1. \A T \in SUBSET S : IsFiniteSet(T) /\ Cardinality(T) \in Nat /\ Cardinality(T) <= Cardinality(S)
  BY FS_Subset, FS_CardinalityType
<1>2. 0 \in N
  <2> DEFINE f == [T \in SUBSET S |-> 0]
  <2>1. ASSUME NEW T \in SUBSET S, Cardinality(T) <= 0 PROVE f[T] = Adding(f, w, T)
    <3>1. T = {}
      BY <1>1, <2>1, FS_EmptySet
    <3> QED BY <3>1 DEF Adding
  <2> HIDE DEF f
  <2> QED BY <2>1
<1>3. ASSUME NEW n \in Nat, n \in N PROVE n + 1 \in N
  <2>1. PICK f : \A T \in SUBSET S : Cardinality(T) <= n => f[T] = Adding(f, w, T)
    BY <1>3
  <2> DEFINE g == [T \in SUBSET S |-> Adding(f, w, T)]
  <2>2. ASSUME NEW T \in SUBSET S, Cardinality(T) <= n PROVE g[T] = f[T]
    BY <2>1, <2>2
  <2>3. ASSUME NEW T \in SUBSET S, Cardinality(T) <= n + 1 PROVE g[T] = Adding(g, w, T)
    <3>1. CASE T = {}
      BY <3>1 DEF Adding
    <3>2. CASE T # {}
      <4>1. Cardinality(T \ {First(T)}) <= n /\ T \ {First(T)} \in SUBSET S
        BY <1>1, <2>3, <3>2, FirstOf, FS_RemoveElement
      <4>2. g[T \ {First(T)}] = f[T \ {First(T)}]
        BY <2>2, <4>1
      <4>3. g[T] = Adding(f, w, T)
        OBVIOUS
      <4> HIDE DEF g
      <4> QED BY <3>2, <4>2, <4>3 DEF Adding
    <3> QED BY <3>1, <3>2
  <2> HIDE DEF g
  <2> QED BY <2>3
<1> HIDE DEF N
<1>4. Cardinality(S) \in N
  BY <1>1, <1>2, <1>3, SetInduction
<1>5. PICK f : \A T \in SUBSET S : Cardinality(T) <= Cardinality(S) => f[T] = Adding(f, w, T)
  BY <1>4 DEF N
<1> DEFINE g == [T \in SUBSET S |-> f[T]]
<1>6. \A T \in SUBSET S : g[T] = Adding(g, w, T)
  <2>1. SUFFICES ASSUME NEW T \in SUBSET S PROVE f[T] = Adding(g, w, T)
    OBVIOUS
  <2>2. f[T] = Adding(f, w, T)
    BY <1>1, <1>5
  <2>3. Adding(f, w, T) = Adding(g, w, T)
    BY DEF Adding
  <2> QED BY <2>2, <2>3
<1>7. g = [T \in SUBSET S |-> g[T]]
  OBVIOUS
<1> HIDE DEF g
<1> QED BY <1>6, <1>7 DEF Adds

\* ... and it adds up every subset.
LEMMA SumOfSubsets ==
    ASSUME NEW w, NEW S, IsFiniteSet(S), NEW f, Adds(f, w, S)
    PROVE  \A T \in SUBSET S : f[T] = SumFunctionOnSet(w, T)
<1> SUFFICES ASSUME NEW T \in SUBSET S PROVE f[T] = SumFunctionOnSet(w, T)
  OBVIOUS
<1> DEFINE h == CHOOSE g : Adds(g, w, T)
<1>1. IsFiniteSet(T)
  BY FS_Subset
<1>2. Adds(h, w, T)
  BY <1>1, AddingExists, Zenon
<1>9. SumFunctionOnSet(w, T) = h[T]
  BY SumIs
<1> HIDE DEF h
<1> DEFINE N == {n \in Nat : \A U \in SUBSET T : Cardinality(U) = n => f[U] = h[U]}
<1>3. \A U \in SUBSET T : f[U] = Adding(f, w, U) /\ h[U] = Adding(h, w, U)
  BY <1>2 DEF Adds
<1>4. \A U \in SUBSET T : IsFiniteSet(U) /\ Cardinality(U) \in Nat
  BY <1>1, FS_Subset, FS_CardinalityType
<1>5. 0 \in N
  BY <1>3, <1>4, FS_EmptySet DEF Adding
<1>6. ASSUME NEW n \in Nat, n \in N PROVE n + 1 \in N
  <2>1. SUFFICES ASSUME NEW U \in SUBSET T, Cardinality(U) = n + 1 PROVE f[U] = h[U]
    OBVIOUS
  <2>2. U # {} /\ First(U) \in U
    BY <2>1, FS_EmptySet, FirstOf
  <2>3. Cardinality(U \ {First(U)}) = n
    <3>1. Cardinality(U \ {First(U)}) = Cardinality(U) - 1
      BY <1>4, <2>2, FS_RemoveElement
    <3> QED BY <2>1, <3>1
  <2>4. f[U \ {First(U)}] = h[U \ {First(U)}]
    BY <1>6, <2>3
  <2> QED BY <1>3, <2>2, <2>4 DEF Adding
<1> HIDE DEF N
<1>7. Nat \subseteq N
  BY <1>5, <1>6, SetInduction
<1>8. Cardinality(T) \in N
  BY <1>4, <1>7
<1> QED BY <1>8, <1>9 DEF N

-----------------------------------------------------------------------------
(* What a sum is *)

\* The sum of nothing, and of what is left when the first is taken.
LEMMA SumEmpty == \A w : SumFunctionOnSet(w, {}) = 0
<1> SUFFICES ASSUME NEW w PROVE SumFunctionOnSet(w, {}) = 0
  OBVIOUS
<1>1. PICK f : Adds(f, w, {})
  BY AddingExists, FS_EmptySet
<1>2. f[{}] = 0
  BY <1>1 DEF Adds, Adding
<1> QED BY <1>1, <1>2, SumOfSubsets, FS_EmptySet

LEMMA SumFirst ==
    ASSUME NEW w, NEW S, IsFiniteSet(S), S # {}
    PROVE  SumFunctionOnSet(w, S) = w[First(S)] + SumFunctionOnSet(w, S \ {First(S)})
<1>1. PICK f : Adds(f, w, S)
  BY AddingExists
<1>2. f[S] = w[First(S)] + f[S \ {First(S)}]
  BY <1>1 DEF Adds, Adding
<1> QED BY <1>1, <1>2, SumOfSubsets

\* Sums of integers are integers.
LEMMA SumType ==
    ASSUME NEW w, NEW S, IsFiniteSet(S), \A x \in S : w[x] \in Int
    PROVE  SumFunctionOnSet(w, S) \in Int
<1> DEFINE N == {n \in Nat : \A T \in SUBSET S :
                     Cardinality(T) = n => SumFunctionOnSet(w, T) \in Int}
<1>1. \A T \in SUBSET S : IsFiniteSet(T) /\ Cardinality(T) \in Nat
  BY FS_Subset, FS_CardinalityType
<1>2. 0 \in N
  BY <1>1, FS_EmptySet, SumEmpty
<1>3. ASSUME NEW n \in Nat, n \in N PROVE n + 1 \in N
  <2>1. SUFFICES ASSUME NEW T \in SUBSET S, Cardinality(T) = n + 1
                 PROVE  SumFunctionOnSet(w, T) \in Int
    OBVIOUS
  <2>2. T # {} /\ First(T) \in T
    BY <2>1, FS_EmptySet, FirstOf
  <2>3. Cardinality(T \ {First(T)}) = Cardinality(T) - 1
    BY <1>1, <2>2, FS_RemoveElement
  <2>4. SumFunctionOnSet(w, T \ {First(T)}) \in Int
    BY <1>3, <2>1, <2>3
  <2>5. SumFunctionOnSet(w, T) = w[First(T)] + SumFunctionOnSet(w, T \ {First(T)})
    BY <1>1, <2>2, SumFirst
  <2> QED BY <2>2, <2>4, <2>5
<1> HIDE DEF N
<1>4. Cardinality(S) \in N
  BY <1>1, <1>2, <1>3, SetInduction
<1> QED BY <1>4 DEF N

\* Any element may be taken first.
LEMMA SumRemove ==
    ASSUME NEW w, NEW S, IsFiniteSet(S), \A x \in S : w[x] \in Int, NEW y \in S
    PROVE  SumFunctionOnSet(w, S) = w[y] + SumFunctionOnSet(w, S \ {y})
<1> DEFINE N == {n \in Nat : \A T \in SUBSET S : \A x \in T : Cardinality(T) = n =>
                     SumFunctionOnSet(w, T) = w[x] + SumFunctionOnSet(w, T \ {x})}
<1>1. \A T \in SUBSET S : IsFiniteSet(T) /\ Cardinality(T) \in Nat
  BY FS_Subset, FS_CardinalityType
<1>2. 0 \in N
  BY <1>1, FS_EmptySet
<1>3. ASSUME NEW n \in Nat, n \in N PROVE n + 1 \in N
  <2>1. SUFFICES ASSUME NEW T \in SUBSET S, NEW x \in T, Cardinality(T) = n + 1
                 PROVE  SumFunctionOnSet(w, T) = w[x] + SumFunctionOnSet(w, T \ {x})
    OBVIOUS
  <2>2. First(T) \in T /\ SumFunctionOnSet(w, T) = w[First(T)] + SumFunctionOnSet(w, T \ {First(T)})
    BY <1>1, FirstOf, SumFirst
  <2>3. CASE x = First(T)
    BY <2>2, <2>3
  <2>4. CASE x # First(T)
    <3>1. Cardinality(T \ {First(T)}) = n /\ Cardinality(T \ {x}) = n
      <4>1. /\ Cardinality(T \ {First(T)}) = Cardinality(T) - 1
            /\ Cardinality(T \ {x}) = Cardinality(T) - 1
        BY <1>1, <2>2, FS_RemoveElement
      <4> QED BY <2>1, <4>1
    <3> DEFINE rest == (T \ {x}) \ {First(T)}
    <3>2. (T \ {First(T)}) \ {x} = rest /\ x \in T \ {First(T)} /\ First(T) \in T \ {x}
      BY <2>2, <2>4
    <3>3. SumFunctionOnSet(w, T \ {First(T)}) = w[x] + SumFunctionOnSet(w, rest)
      BY <1>3, <3>1, <3>2
    <3>4. SumFunctionOnSet(w, T \ {x}) = w[First(T)] + SumFunctionOnSet(w, rest)
      BY <1>3, <3>1, <3>2
    <3>5. SumFunctionOnSet(w, rest) \in Int
      BY <1>1, SumType
    <3>6. w[x] \in Int /\ w[First(T)] \in Int
      BY <2>2
    <3> HIDE DEF rest
    <3> QED BY <2>2, <3>3, <3>4, <3>5, <3>6
  <2> QED BY <2>3, <2>4
<1> HIDE DEF N
<1>4. Cardinality(S) \in N
  BY <1>1, <1>2, <1>3, SetInduction
<1> QED BY <1>4 DEF N

\* One element more.
LEMMA SumAdd ==
    ASSUME NEW w, NEW S, IsFiniteSet(S), NEW y, \A x \in S \cup {y} : w[x] \in Int, y \notin S
    PROVE  SumFunctionOnSet(w, S \cup {y}) = SumFunctionOnSet(w, S) + w[y]
<1>1. IsFiniteSet(S \cup {y}) /\ (S \cup {y}) \ {y} = S
  BY FS_AddElement
<1>2. SumFunctionOnSet(w, S \cup {y}) = w[y] + SumFunctionOnSet(w, S)
  BY <1>1, SumRemove
<1>3. SumFunctionOnSet(w, S) \in Int
  BY SumType
<1> QED BY <1>2, <1>3

\* A sum depends only on what is summed.
LEMMA SumSame ==
    ASSUME NEW w, NEW v, NEW S, IsFiniteSet(S), \A x \in S : w[x] \in Int /\ v[x] = w[x]
    PROVE  SumFunctionOnSet(w, S) = SumFunctionOnSet(v, S)
<1> DEFINE P == {T \in SUBSET S : SumFunctionOnSet(w, T) = SumFunctionOnSet(v, T)}
<1>1. {} \in P
  BY SumEmpty
<1>2. ASSUME NEW T \in SUBSET S, NEW x \in S \ T, T \in P PROVE T \cup {x} \in P
  <2>1. IsFiniteSet(T)
    BY FS_Subset
  <2>2. SumFunctionOnSet(w, T \cup {x}) = SumFunctionOnSet(w, T) + w[x]
    BY <2>1, SumAdd
  <2>3. SumFunctionOnSet(v, T \cup {x}) = SumFunctionOnSet(v, T) + v[x]
    BY <2>1, SumAdd
  <2> QED BY <1>2, <2>2, <2>3
<1> HIDE DEF P
<1>3. S \in P
  BY <1>1, <1>2, SubsetInduction
<1> QED BY <1>3 DEF P

\* A sum changes by what one of its terms changes by.
LEMMA SumChange ==
    ASSUME NEW w, NEW v, NEW S, IsFiniteSet(S), NEW y \in S,
           \A x \in S : w[x] \in Int /\ v[x] \in Int, \A x \in S \ {y} : v[x] = w[x]
    PROVE  SumFunctionOnSet(v, S) = SumFunctionOnSet(w, S) + v[y] - w[y]
<1>1. IsFiniteSet(S \ {y})
  BY FS_RemoveElement
<1>2. /\ SumFunctionOnSet(w, S) = w[y] + SumFunctionOnSet(w, S \ {y})
      /\ SumFunctionOnSet(v, S) = v[y] + SumFunctionOnSet(v, S \ {y})
  BY SumRemove
<1>3. SumFunctionOnSet(w, S \ {y}) = SumFunctionOnSet(v, S \ {y})
  BY <1>1, SumSame
<1>4. SumFunctionOnSet(w, S \ {y}) \in Int
  BY <1>1, SumType
<1> QED BY <1>2, <1>3, <1>4

\* More of what is not negative is no less.
LEMMA SumSubset ==
    ASSUME NEW w, NEW S, IsFiniteSet(S), \A x \in S : w[x] \in Nat, NEW T \in SUBSET S
    PROVE  SumFunctionOnSet(w, T) <= SumFunctionOnSet(w, S)
<1> DEFINE P == {U \in SUBSET (S \ T) : SumFunctionOnSet(w, T) <= SumFunctionOnSet(w, T \cup U)}
<1>1. IsFiniteSet(T) /\ SumFunctionOnSet(w, T) \in Int
  BY FS_Subset, SumType
<1>2. {} \in P
  <2>1. T \cup {} = T
    OBVIOUS
  <2> QED BY <1>1, <2>1
<1>3. ASSUME NEW U \in SUBSET (S \ T), NEW x \in (S \ T) \ U, U \in P PROVE U \cup {x} \in P
  <2>1. IsFiniteSet(T \cup U) /\ x \notin T \cup U /\ T \cup U \in SUBSET S
    BY FS_Subset
  <2>2. SumFunctionOnSet(w, (T \cup U) \cup {x}) = SumFunctionOnSet(w, T \cup U) + w[x]
    BY <2>1, SumAdd
  <2>3. (T \cup U) \cup {x} = T \cup (U \cup {x}) /\ w[x] \in Nat
    OBVIOUS
  <2>4. SumFunctionOnSet(w, T \cup U) \in Int
    BY <2>1, SumType
  <2> QED BY <1>1, <1>3, <2>2, <2>3, <2>4
<1> HIDE DEF P
<1>4. IsFiniteSet(S \ T)
  BY FS_Subset
<1>5. S \ T \in P
  BY <1>2, <1>3, <1>4, SubsetInduction
<1>6. T \cup (S \ T) = S
  OBVIOUS
<1> QED BY <1>5, <1>6 DEF P

\* The sum of sums, and of zeros.
LEMMA SumPlus ==
    ASSUME NEW w, NEW v, NEW u, NEW S, IsFiniteSet(S),
           \A x \in S : w[x] \in Int /\ v[x] \in Int /\ u[x] = w[x] + v[x]
    PROVE  SumFunctionOnSet(u, S) = SumFunctionOnSet(w, S) + SumFunctionOnSet(v, S)
<1> DEFINE P == {T \in SUBSET S :
                    SumFunctionOnSet(u, T) = SumFunctionOnSet(w, T) + SumFunctionOnSet(v, T)}
<1>1. {} \in P
  BY SumEmpty
<1>2. ASSUME NEW T \in SUBSET S, NEW x \in S \ T, T \in P PROVE T \cup {x} \in P
  <2>1. IsFiniteSet(T) /\ \A y \in T \cup {x} : u[y] \in Int
    BY FS_Subset
  <2>2. /\ SumFunctionOnSet(u, T \cup {x}) = SumFunctionOnSet(u, T) + u[x]
        /\ SumFunctionOnSet(w, T \cup {x}) = SumFunctionOnSet(w, T) + w[x]
        /\ SumFunctionOnSet(v, T \cup {x}) = SumFunctionOnSet(v, T) + v[x]
    BY <2>1, SumAdd
  <2>3. SumFunctionOnSet(w, T) \in Int /\ SumFunctionOnSet(v, T) \in Int
    BY <2>1, SumType
  <2> QED BY <1>2, <2>2, <2>3
<1> HIDE DEF P
<1>3. S \in P
  BY <1>1, <1>2, SubsetInduction
<1> QED BY <1>3 DEF P

LEMMA SumZero ==
    ASSUME NEW w, NEW S, IsFiniteSet(S), \A x \in S : w[x] = 0
    PROVE  SumFunctionOnSet(w, S) = 0
<1> DEFINE P == {T \in SUBSET S : SumFunctionOnSet(w, T) = 0}
<1>1. {} \in P
  BY SumEmpty
<1>2. ASSUME NEW T \in SUBSET S, NEW x \in S \ T, T \in P PROVE T \cup {x} \in P
  <2>1. IsFiniteSet(T)
    BY FS_Subset
  <2>2. SumFunctionOnSet(w, T \cup {x}) = SumFunctionOnSet(w, T) + w[x]
    BY <2>1, SumAdd
  <2> QED BY <1>2, <2>2
<1> HIDE DEF P
<1>3. S \in P
  BY <1>1, <1>2, SubsetInduction
<1> QED BY <1>3 DEF P

\* Sums over parts that share nothing.
LEMMA SumUnion ==
    ASSUME NEW w, NEW A, NEW B, IsFiniteSet(A), IsFiniteSet(B), A \cap B = {},
           \A x \in A \cup B : w[x] \in Int
    PROVE  SumFunctionOnSet(w, A \cup B) = SumFunctionOnSet(w, A) + SumFunctionOnSet(w, B)
<1> DEFINE P == {T \in SUBSET B :
                    SumFunctionOnSet(w, A \cup T) = SumFunctionOnSet(w, A) + SumFunctionOnSet(w, T)}
<1>0. SumFunctionOnSet(w, A) \in Int
  BY SumType
<1>1. {} \in P
  <2>1. A \cup {} = A /\ SumFunctionOnSet(w, {}) = 0
    BY SumEmpty
  <2> QED BY <1>0, <2>1
<1>2. ASSUME NEW T \in SUBSET B, NEW x \in B \ T, T \in P PROVE T \cup {x} \in P
  <2>1. IsFiniteSet(T) /\ IsFiniteSet(A \cup T) /\ x \notin A \cup T
    BY FS_Subset, FS_Union
  <2>2. SumFunctionOnSet(w, T \cup {x}) = SumFunctionOnSet(w, T) + w[x]
    BY <2>1, SumAdd
  <2>3. SumFunctionOnSet(w, (A \cup T) \cup {x}) = SumFunctionOnSet(w, A \cup T) + w[x]
    BY <2>1, SumAdd
  <2>4. (A \cup T) \cup {x} = A \cup (T \cup {x}) /\ w[x] \in Int
    OBVIOUS
  <2>5. SumFunctionOnSet(w, T) \in Int
    BY <2>1, SumType
  <2>6. SumFunctionOnSet(w, A \cup T) = SumFunctionOnSet(w, A) + SumFunctionOnSet(w, T)
    BY <1>2
  <2>7. SumFunctionOnSet(w, A \cup (T \cup {x})) = SumFunctionOnSet(w, A \cup T) + w[x]
    BY <2>3, <2>4, Zenon
  <2>8. SumFunctionOnSet(w, A \cup (T \cup {x})) = SumFunctionOnSet(w, A) + SumFunctionOnSet(w, T \cup {x})
    <3> DEFINE a == SumFunctionOnSet(w, A)
               b == SumFunctionOnSet(w, T)
               c == SumFunctionOnSet(w, T \cup {x})
               d == SumFunctionOnSet(w, A \cup T)
               e == SumFunctionOnSet(w, A \cup (T \cup {x}))
    <3>1. a \in Int /\ b \in Int /\ w[x] \in Int /\ c = b + w[x] /\ d = a + b /\ e = d + w[x]
      BY <1>0, <2>2, <2>4, <2>5, <2>6, <2>7
    <3> HIDE DEF a, b, c, d, e
    <3>2. e = a + c
      BY <3>1
    <3> QED BY <3>2 DEF a, c, e
  <2> QED BY <2>8
<1> HIDE DEF P
<1>3. B \in P
  BY <1>1, <1>2, SubsetInduction
<1> QED BY <1>3 DEF P

\* A sum of terms that are not less than c.
LEMMA SumAtLeast ==
    ASSUME NEW w, NEW S, IsFiniteSet(S), NEW c \in Int, \A x \in S : w[x] \in Int /\ w[x] >= c
    PROVE  SumFunctionOnSet(w, S) >= c * Cardinality(S)
<1> DEFINE P == {T \in SUBSET S : SumFunctionOnSet(w, T) >= c * Cardinality(T)}
<1>1. {} \in P
  <2>1. SumFunctionOnSet(w, {}) = 0 /\ Cardinality({}) = 0
    BY SumEmpty, FS_EmptySet
  <2> QED BY <2>1
<1>2. ASSUME NEW T \in SUBSET S, NEW x \in S \ T, T \in P PROVE T \cup {x} \in P
  <2>1. IsFiniteSet(T)
    BY FS_Subset
  <2>2. SumFunctionOnSet(w, T \cup {x}) = SumFunctionOnSet(w, T) + w[x]
    BY <2>1, SumAdd
  <2>3. Cardinality(T \cup {x}) = Cardinality(T) + 1 /\ Cardinality(T) \in Nat
    BY <2>1, FS_AddElement, FS_CardinalityType
  <2>4. SumFunctionOnSet(w, T) \in Int
    BY <2>1, SumType
  <2> DEFINE k == Cardinality(T)
             s == SumFunctionOnSet(w, T)
  <2>5. k \in Nat /\ s \in Int /\ s >= c * k /\ w[x] \in Int /\ w[x] >= c
    BY <1>2, <2>3, <2>4
  <2>6. c * (k + 1) = c * k + c /\ c * k \in Int
    BY <2>5
  <2>7. SumFunctionOnSet(w, T \cup {x}) = s + w[x] /\ Cardinality(T \cup {x}) = k + 1
    BY <2>2, <2>3
  <2> HIDE DEF k, s
  <2>8. s + w[x] >= c * (k + 1)
    BY <2>5, <2>6
  <2> QED BY <2>7, <2>8
<1> HIDE DEF P
<1>3. S \in P
  BY <1>1, <1>2, SubsetInduction
<1> QED BY <1>3 DEF P

\* The squared distances of n times the terms from t, expanded.
LEMMA Square ==
    ASSUME NEW n \in Int, NEW a \in Int, NEW t \in Int
    PROVE  (n * a - t) * (n * a - t) = (n * n) * (a * a) - (2 * n * t) * a + t * t
OBVIOUS

LEMMA SumSquares ==
    ASSUME NEW v, NEW S, IsFiniteSet(S), \A x \in S : v[x] \in Int, NEW n \in Int, NEW t \in Int,
           NEW q, \A x \in S : q[x] = v[x] * v[x],
           NEW f, \A x \in S : f[x] = (n * v[x] - t) * (n * v[x] - t)
    PROVE  SumFunctionOnSet(f, S) = (n * n) * SumFunctionOnSet(q, S)
                                    - (2 * n * t) * SumFunctionOnSet(v, S) + (t * t) * Cardinality(S)
<1> DEFINE a == n * n
           b == 2 * n * t
           c == t * t
           P == {T \in SUBSET S : SumFunctionOnSet(f, T) = a * SumFunctionOnSet(q, T)
                                    - b * SumFunctionOnSet(v, T) + c * Cardinality(T)}
<1>0. a \in Int /\ b \in Int /\ c \in Int
  OBVIOUS
<1>1. {} \in P
  <2>1. /\ SumFunctionOnSet(f, {}) = 0 /\ SumFunctionOnSet(q, {}) = 0 /\ SumFunctionOnSet(v, {}) = 0
        /\ Cardinality({}) = 0
    BY SumEmpty, FS_EmptySet
  <2> HIDE DEF a, b, c
  <2> QED BY <1>0, <2>1
<1>2. ASSUME NEW T \in SUBSET S, NEW x \in S \ T, T \in P PROVE T \cup {x} \in P
  <2>1. IsFiniteSet(T) /\ \A y \in S : v[y] \in Int /\ q[y] \in Int /\ f[y] \in Int
    BY FS_Subset
  <2> DEFINE sv == SumFunctionOnSet(v, T)
             sq == SumFunctionOnSet(q, T)
             sf == SumFunctionOnSet(f, T)
             k == Cardinality(T)
  <2>2. sv \in Int /\ sq \in Int /\ sf \in Int /\ k \in Nat
    BY <2>1, SumType, FS_CardinalityType
  <2>3. /\ SumFunctionOnSet(v, T \cup {x}) = sv + v[x]
        /\ SumFunctionOnSet(q, T \cup {x}) = sq + q[x]
        /\ SumFunctionOnSet(f, T \cup {x}) = sf + f[x]
        /\ Cardinality(T \cup {x}) = k + 1
    <3>1. \A y \in T \cup {x} : v[y] \in Int /\ q[y] \in Int /\ f[y] \in Int
      BY <2>1
    <3>2. SumFunctionOnSet(v, T \cup {x}) = sv + v[x]
      BY <2>1, <3>1, SumAdd
    <3>3. SumFunctionOnSet(q, T \cup {x}) = sq + q[x]
      BY <2>1, <3>1, SumAdd
    <3>4. SumFunctionOnSet(f, T \cup {x}) = sf + f[x]
      BY <2>1, <3>1, SumAdd
    <3>5. Cardinality(T \cup {x}) = k + 1
      BY <2>1, FS_AddElement
    <3> QED BY <3>2, <3>3, <3>4, <3>5, Zenon
  <2>4. sf = a * sq - b * sv + c * k
    BY <1>2
  <2>5. f[x] = a * q[x] - b * v[x] + c
    <3>1. q[x] = v[x] * v[x] /\ f[x] = (n * v[x] - t) * (n * v[x] - t) /\ v[x] \in Int
      BY <2>1
    <3>2. (n * v[x] - t) * (n * v[x] - t) = (n * n) * (v[x] * v[x]) - (2 * n * t) * v[x] + t * t
      BY <3>1, Square
    <3> QED BY <3>1, <3>2, Zenon
  <2>6. v[x] \in Int /\ q[x] \in Int /\ f[x] \in Int
    BY <2>1
  <2> HIDE DEF a, b, c, sv, sq, sf, k
  <2>7. \A x1, x2 \in Int : a * (x1 + x2) = a * x1 + a * x2 /\ b * (x1 + x2) = b * x1 + b * x2
                           /\ c * (x1 + x2) = c * x1 + c * x2 /\ a * x1 \in Int /\ b * x1 \in Int /\ c * x1 \in Int
    BY <1>0
  <2>8. sf + f[x] = a * (sq + q[x]) - b * (sv + v[x]) + c * (k + 1)
    <3> DEFINE vx == v[x]
               qx == q[x]
               fx == f[x]
    <3>1. vx \in Int /\ qx \in Int /\ fx \in Int /\ fx = a * qx - b * vx + c
      BY <2>5, <2>6
    <3> HIDE DEF vx, qx, fx
    <3>2. a * (sq + qx) = a * sq + a * qx /\ b * (sv + vx) = b * sv + b * vx
      BY <2>2, <2>7, <3>1
    <3>3. c * (k + 1) = c * k + c
      <4>1. c * (k + 1) = c * k + c * 1
        BY <2>2, <2>7
      <4>2. c * 1 = c
        BY <1>0
      <4> QED BY <4>1, <4>2, Zenon
    <3>4. a * sq \in Int /\ a * qx \in Int /\ b * sv \in Int /\ b * vx \in Int /\ c * k \in Int
      BY <1>0, <2>2, <3>1
    <3>5. sf + fx = a * (sq + qx) - b * (sv + vx) + c * (k + 1)
      <4> DEFINE u1 == a * sq
                 u2 == a * qx
                 u3 == b * sv
                 u4 == b * vx
                 u5 == c * k
                 w1 == a * (sq + qx)
                 w2 == b * (sv + vx)
                 w3 == c * (k + 1)
      <4>1. /\ u1 \in Int /\ u2 \in Int /\ u3 \in Int /\ u4 \in Int /\ u5 \in Int /\ c \in Int
            /\ w1 = u1 + u2 /\ w2 = u3 + u4 /\ w3 = u5 + c
            /\ sf = u1 - u3 + u5 /\ fx = u2 - u4 + c
        BY <1>0, <2>4, <3>1, <3>2, <3>3, <3>4, Zenon
      <4> HIDE DEF u1, u2, u3, u4, u5, w1, w2, w3
      <4>2. sf + fx = w1 - w2 + w3
        BY <4>1
      <4> QED BY <4>2, Zenon DEF w1, w2, w3
    <3> QED BY <3>5 DEF vx, qx, fx
  <2> QED BY <2>3, <2>8
<1> HIDE DEF P
<1>3. S \in P
  BY <1>1, <1>2, SubsetInduction
<1> QED BY <1>3 DEF P

-----------------------------------------------------------------------------

\* A sum may be taken over what a one-to-one renaming of its terms makes of them.
LEMMA SumImage ==
    ASSUME NEW w, NEW S, IsFiniteSet(S), NEW T, IsFiniteSet(T), NEW f \in Bijection(S, T),
           \A y \in T : w[y] \in Int
    PROVE  SumFunctionOnSet([x \in S |-> w[f[x]]], S) = SumFunctionOnSet(w, T)
<1> DEFINE v == [x \in S |-> w[f[x]]]
           Im(U) == {f[x] : x \in U}
           P == {U \in SUBSET S : SumFunctionOnSet(v, U) = SumFunctionOnSet(w, Im(U))}
<1>1. f \in [S -> T] /\ (\A x, y \in S : f[x] = f[y] => x = y) /\ \A t \in T : \E x \in S : f[x] = t
  BY DEF Bijection, Injection, IsInjective, Surjection
<1>2. {} \in P
  BY SumEmpty
<1>3. ASSUME NEW U \in SUBSET S, NEW x \in S \ U, U \in P PROVE U \cup {x} \in P
  <2>1. IsFiniteSet(U) /\ IsFiniteSet(Im(U))
    <3>1. Im(U) \in SUBSET T
      BY <1>1
    <3> QED BY <3>1, FS_Subset
  <2>2. Im(U \cup {x}) = Im(U) \cup {f[x]} /\ f[x] \notin Im(U) /\ Im(U) \subseteq T /\ f[x] \in T
    BY <1>1
  <2>3. v[x] = w[f[x]] /\ \A y \in U \cup {x} : v[y] \in Int
    BY <1>1
  <2>4. SumFunctionOnSet(v, U) = SumFunctionOnSet(w, Im(U))
    BY <1>3
  <2> HIDE DEF v, Im, P
  <2>5. SumFunctionOnSet(v, U \cup {x}) = SumFunctionOnSet(v, U) + v[x]
    BY <2>1, <2>3, SumAdd
  <2>6. SumFunctionOnSet(w, Im(U) \cup {f[x]}) = SumFunctionOnSet(w, Im(U)) + w[f[x]]
    <3> DEFINE I == Im(U)
               y == f[x]
    <3>1. IsFiniteSet(I) /\ y \notin I /\ \A z \in I \cup {y} : w[z] \in Int
      BY <2>1, <2>2
    <3> HIDE DEF I, y
    <3>2. SumFunctionOnSet(w, I \cup {y}) = SumFunctionOnSet(w, I) + w[y]
      BY <3>1, SumAdd
    <3> QED BY <3>2 DEF I, y
  <2> QED BY <2>2, <2>3, <2>4, <2>5, <2>6 DEF P
<1>4. Im(S) = T
  BY <1>1
<1> HIDE DEF P
<1>5. S \in P
  BY <1>2, <1>3, SubsetInduction
<1> QED BY <1>4, <1>5 DEF P

-----------------------------------------------------------------------------
(* Those who wait for each other *)

\* A family of subsets of a finite set has one that contains no other.
LEMMA SmallestSet ==
    ASSUME NEW S, IsFiniteSet(S), NEW F \in SUBSET (SUBSET S), F # {}
    PROVE  \E T \in F : \A U \in F : ~(U \subseteq T /\ U # T)
<1> DEFINE N == {Cardinality(T) : T \in F}
<1>1. \A T \in F : IsFiniteSet(T) /\ Cardinality(T) \in Nat
  BY FS_Subset, FS_CardinalityType
<1>2. N \subseteq Nat /\ N # {}
  BY <1>1
<1>3. PICK n \in N : \A m \in N : <<m, n>> \notin Less
  <2> HIDE DEF N
  <2> QED BY <1>2, LessWellFounded, WFMin
<1>4. PICK T \in F : Cardinality(T) = n
  BY <1>3
<1>5. ASSUME NEW U \in F, U \subseteq T, U # T PROVE FALSE
  <2>1. Cardinality(U) < Cardinality(T)
    BY <1>1, <1>4, <1>5, FS_Subset
  <2>2. Cardinality(U) \in N /\ Cardinality(U) \in Nat /\ Cardinality(T) \in Nat
    BY <1>1, <1>4, <1>5
  <2> QED BY <1>3, <1>4, <2>1, <2>2 DEF Less
<1> QED BY <1>4, <1>5

\* A finite group in which everyone waits for somebody else of the group contains one
\* in which everyone also keeps somebody waiting.
LEMMA WaitingCycle ==
    ASSUME NEW S, IsFiniteSet(S), S # {}, NEW W, \A x \in S : <<x, x>> \notin W,
           \A x \in S : \E y \in S : <<x, y>> \in W
    PROVE  \E T \in SUBSET S :
              /\ T # {}
              /\ \A x \in T : (\E y \in T : <<x, y>> \in W) /\ (\E y \in T : <<y, x>> \in W)
<1> DEFINE F == {T \in SUBSET S : T # {} /\ \A x \in T : \E y \in T : <<x, y>> \in W}
<1>1. S \in F /\ F \in SUBSET (SUBSET S)
  OBVIOUS
<1>2. PICK T \in F : \A U \in F : ~(U \subseteq T /\ U # T)
  <2> HIDE DEF F
  <2>1. F # {}
    BY <1>1
  <2> QED BY <1>1, <2>1, SmallestSet
<1>3. ASSUME NEW x \in T, \A y \in T : <<y, x>> \notin W PROVE FALSE
  <2>1. PICK y \in T : <<x, y>> \in W
    BY <1>2, <1>3
  <2>2. y # x
    BY <1>2, <1>3, <2>1
  <2>3. \A z \in T \ {x} : \E u \in T \ {x} : <<z, u>> \in W
    BY <1>2, <1>3
  <2>4. T \ {x} \in F
    BY <1>2, <2>1, <2>2, <2>3
  <2> QED BY <1>2, <1>3, <2>4
<1> QED BY <1>2, <1>3
=============================================================================
