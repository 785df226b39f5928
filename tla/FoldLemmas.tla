------------------------------- MODULE FoldLemmas -------------------------------
(***************************************************************************)
(* What the models compute by going over data: recursive functions, sums,  *)
(* remainders and the sorting of a finite set.  The induction is first     *)
(* order throughout: of the counterexamples there would be a least one,    *)
(* and the step before it is none.                                         *)
(***************************************************************************)
EXTENDS Integers, FiniteSetsExt, FiniteSetTheorems, TLAPS

(* Of naturals, if any, one is the least. *)
LEMMA LeastExists ==
  ASSUME NEW Bad \in SUBSET Nat, Bad # {}
  PROVE  \E n \in Bad : \A m \in Bad : n <= m
<1> DEFINE R == {ss \in Nat \X Nat : ss[1] < ss[2]}
<1>1. IsWellFoundedOn(R, Nat)
  BY NatLessThanWellFounded DEF OpToRel
<1> HIDE DEF R
<1>2. PICK n \in Bad : \A m \in Bad : ~ <<m, n>> \in R
  BY <1>1, WFMin
<1>3. \A a, b \in Nat : a < b => <<a, b>> \in R
  BY DEF R
<1>4. ASSUME NEW m \in Bad PROVE n <= m
  <2>1. m \in Nat /\ n \in Nat /\ ~ <<m, n>> \in R
    BY <1>2
  <2>2. ~(m < n)
    BY <2>1, <1>3
  <2> QED
    BY <2>1, <2>2
<1> QED
  BY <1>4

(* What step k makes of a value, for the recursive functions of the models: a history read
   up to k, a list searched up to k. *)
Steps(n, V) == [(1..n) \X V -> V]

(* f starts at `first` and takes the steps in order. *)
IsRun(f, V, first, n, step) ==
  /\ f \in [0..n -> V]
  /\ f[0] = first
  /\ \A k \in 1..n : f[k] = step[<<k, f[k - 1]>>]

(* The steps can be taken: a recursive function over 0..n exists. *)
LEMMA RecursionExists ==
  ASSUME NEW V, NEW base \in V, NEW n \in Nat, NEW step \in Steps(n, V)
  PROVE  \E f : IsRun(f, V, base, n, step)
<1> USE DEF Steps, IsRun
<1> DEFINE Upto(m) == \E f \in [0..m -> V] :
                        f[0] = base /\ \A k \in 1..m : f[k] = step[<<k, f[k - 1]>>]
           Bad == {m \in Nat : m <= n /\ ~Upto(m)}
<1> SUFFICES ASSUME Bad # {} PROVE FALSE
  <2>1. Bad = {} => Upto(n)
    <3> HIDE DEF Upto
    <3> QED OBVIOUS
  <2> QED BY <2>1
<1>1. PICK m \in Bad : \A k \in Bad : m <= k
  <2>1. Bad \in SUBSET Nat
    OBVIOUS
  <2> HIDE DEF Bad
  <2> QED BY <2>1, LeastExists
<1>2. m \in Nat /\ m <= n /\ ~Upto(m)
  OBVIOUS
<1>3. Upto(0)
  <2> DEFINE f == [k \in 0..0 |-> base]
  <2>1. f \in [0..0 -> V] /\ f[0] = base /\ 1..0 = {}
    OBVIOUS
  <2> QED BY <2>1
<1>4. m - 1 \in Nat /\ m - 1 <= n /\ ~(m <= m - 1)
  <2>1. m # 0
    BY <1>2, <1>3
  <2> HIDE DEF Upto, Bad
  <2> QED BY <1>2, <2>1
<1>5. Upto(m - 1)
  <2> HIDE DEF Upto
  <2>1. m - 1 \notin Bad
    <3> HIDE DEF Bad
    <3> QED BY <1>1, <1>4
  <2> QED BY <1>4, <2>1
<1>6. PICK f \in [0..m - 1 -> V] :
        f[0] = base /\ \A k \in 1..m - 1 : f[k] = step[<<k, f[k - 1]>>]
  BY <1>5
<1> DEFINE g == [k \in 0..m |-> IF k = m THEN step[<<m, f[m - 1]>>] ELSE f[k]]
<1>7. m \in 1..n /\ m - 1 \in 0..m - 1 /\ m \in Nat /\ m # 0
  <2> HIDE DEF Upto, Bad
  <2> QED BY <1>2, <1>4
<1>8. g \in [0..m -> V]
  <2>1. f[m - 1] \in V /\ step[<<m, f[m - 1]>>] \in V
    BY <1>7
  <2>2. \A k \in 0..m : k # m => k \in 0..m - 1
    BY <1>7
  <2> QED BY <2>1, <2>2
<1>9. g[0] = base
  BY <1>6, <1>7
<1>10. ASSUME NEW k \in 1..m PROVE g[k] = step[<<k, g[k - 1]>>]
  <2>1. k \in 0..m /\ k - 1 \in 0..m /\ k - 1 # m /\ k - 1 \in 0..m - 1
    BY <1>7
  <2>2. g[k - 1] = f[k - 1]
    BY <2>1
  <2>3. CASE k = m
    BY <2>1, <2>2, <2>3
  <2>4. CASE k # m
    <3>1. k \in 1..m - 1 /\ g[k] = f[k]
      BY <1>7, <2>1, <2>4
    <3> QED BY <1>6, <2>2, <3>1
  <2> QED BY <2>3, <2>4
<1>11. Upto(m)
  <2> HIDE DEF g
  <2> QED BY <1>8, <1>9, <1>10
<1> QED BY <1>2, <1>11

(* The element a fold of the community modules takes next. *)
OneOf(S) == CHOOSE x \in S : TRUE

(* iter is the recursion by which SumFunctionOnSet folds. *)
IsSum(iter, f, S) ==
  iter = [T \in SUBSET S |-> IF T = {} THEN 0 ELSE f[OneOf(T)] + iter[T \ {OneOf(T)}]]

(* SumFunctionOnSet, with the operators it is folded from expanded. *)
LEMMA SumIsIter ==
  ASSUME NEW f, NEW S
  PROVE  SumFunctionOnSet(f, S) = (CHOOSE iter : IsSum(iter, f, S))[S]
BY DEF SumFunctionOnSet, FoldFunctionOnSet, MapThenFoldSet, IsSum, OneOf

(* A set that has elements has the one a fold takes. *)
LEMMA OneOfIsIn == ASSUME NEW S, S # {} PROVE OneOf(S) \in S
BY DEF OneOf

(* A part of a finite set is finite, and smaller by one once an element is taken. *)
LEMMA PartFacts ==
  ASSUME NEW S, IsFiniteSet(S), NEW T \in SUBSET S
  PROVE  /\ IsFiniteSet(T) /\ Cardinality(T) \in Nat
         /\ Cardinality(T) = 0 <=> T = {}
         /\ T # {} => /\ OneOf(T) \in T /\ T \ {OneOf(T)} \in SUBSET S
                      /\ Cardinality(T \ {OneOf(T)}) = Cardinality(T) - 1
<1>1. IsFiniteSet(T) /\ Cardinality(T) \in Nat /\ (Cardinality(T) = 0 <=> T = {})
  BY FS_Subset, FS_CardinalityType, FS_EmptySet
<1>2. ASSUME T # {} PROVE OneOf(T) \in T /\ Cardinality(T \ {OneOf(T)}) = Cardinality(T) - 1
  BY <1>1, <1>2, OneOfIsIn, FS_RemoveElement
<1> QED
  BY <1>1, <1>2

(* The parts of S of at most n elements. *)
Small(S, n) == {T \in SUBSET S : Cardinality(T) <= n}

(* The recursion of the fold, over parts of at most n elements. *)
IsPartSum(iter, f, S, n) ==
  iter = [T \in Small(S, n) |-> IF T = {} THEN 0 ELSE f[OneOf(T)] + iter[T \ {OneOf(T)}]]

(* The recursion over small parts has a solution: n elements add one step to that of n - 1. *)
LEMMA SumUpTo ==
  ASSUME NEW f, NEW S, IsFiniteSet(S), NEW n \in Nat
  PROVE  \E iter : IsPartSum(iter, f, S, n)
<1> DEFINE Good(m) == \E iter : IsPartSum(iter, f, S, m)
           Bad == {m \in Nat : ~Good(m)}
<1> SUFFICES ASSUME Bad # {} PROVE FALSE
  OBVIOUS
<1>1. PICK m \in Bad : \A k \in Bad : m <= k
  <2> HIDE DEF Bad
  <2>1. Bad \in SUBSET Nat
    BY DEF Bad
  <2> QED
    BY <2>1, LeastExists
<1>2. m # 0
  <2> DEFINE g == [T \in Small(S, 0) |-> 0]
  <2>1. g = [T \in Small(S, 0) |-> IF T = {} THEN 0 ELSE f[OneOf(T)] + g[T \ {OneOf(T)}]]
    <3>1. \A T \in Small(S, 0) : T = {}
      <4> SUFFICES ASSUME NEW T \in Small(S, 0) PROVE T = {}
        OBVIOUS
      <4>1. T \in SUBSET S /\ Cardinality(T) <= 0
        BY DEF Small
      <4>2. Cardinality(T) \in Nat /\ (Cardinality(T) = 0 <=> T = {})
        BY <4>1, PartFacts
      <4>3. Cardinality(T) = 0
        BY <4>1, <4>2
      <4> QED
        BY <4>2, <4>3
    <3> QED
      BY <3>1
  <2>2. Good(0)
    BY <2>1 DEF IsPartSum
  <2> QED
    BY <2>2
<1>3. m - 1 \in Nat /\ m \in Nat /\ m - 1 \notin Bad
  <2>1. m \in Nat
    BY <1>1
  <2>2. m - 1 \in Nat /\ ~(m <= m - 1)
    BY <2>1, <1>2
  <2> HIDE DEF Bad
  <2> QED
    BY <1>1, <2>1, <2>2
<1>4. PICK g : g = [T \in Small(S, m - 1) |-> IF T = {} THEN 0 ELSE f[OneOf(T)] + g[T \ {OneOf(T)}]]
  BY <1>3 DEF IsPartSum
<1> DEFINE h == [T \in Small(S, m) |-> IF T = {} THEN 0 ELSE f[OneOf(T)] + g[T \ {OneOf(T)}]]
<1>5. ASSUME NEW T \in Small(S, m), T # {} PROVE T \ {OneOf(T)} \in Small(S, m - 1)
  <2>1. T \in SUBSET S /\ Cardinality(T) <= m
    BY DEF Small
  <2>2. /\ Cardinality(T) \in Nat /\ T \ {OneOf(T)} \in SUBSET S
        /\ Cardinality(T \ {OneOf(T)}) = Cardinality(T) - 1
    BY <2>1, <1>5, PartFacts
  <2>3. Cardinality(T \ {OneOf(T)}) <= m - 1
    BY <2>1, <2>2, <1>3
  <2> QED
    BY <2>2, <2>3 DEF Small
<1>6. \A T \in Small(S, m - 1) : T \in Small(S, m) /\ h[T] = g[T]
  <2>1. Small(S, m - 1) \subseteq Small(S, m)
    <3> SUFFICES ASSUME NEW T \in Small(S, m - 1) PROVE T \in Small(S, m)
      OBVIOUS
    <3>1. T \in SUBSET S /\ Cardinality(T) <= m - 1
      BY DEF Small
    <3>2. Cardinality(T) \in Nat
      BY <3>1, PartFacts
    <3>3. Cardinality(T) <= m
      BY <3>1, <3>2, <1>3
    <3> QED
      BY <3>1, <3>3 DEF Small
  <2>2. \A T \in Small(S, m - 1) : g[T] = IF T = {} THEN 0 ELSE f[OneOf(T)] + g[T \ {OneOf(T)}]
    BY <1>4
  <2> QED
    BY <2>1, <2>2
<1>7. h = [T \in Small(S, m) |-> IF T = {} THEN 0 ELSE f[OneOf(T)] + h[T \ {OneOf(T)}]]
  BY <1>5, <1>6
<1>8. Good(m)
  <2> HIDE DEF h
  <2> QED BY <1>7 DEF IsPartSum
<1> QED
  BY <1>8

(* So the fold's CHOOSE finds what it looks for. *)
LEMMA SumDefined ==
  ASSUME NEW f, NEW S, IsFiniteSet(S)
  PROVE  IsSum(CHOOSE iter : IsSum(iter, f, S), f, S)
<1>1. Cardinality(S) \in Nat
  BY FS_CardinalityType
<1>2. Small(S, Cardinality(S)) = SUBSET S
  BY FS_Subset DEF Small
<1>3. \E iter : IsPartSum(iter, f, S, Cardinality(S))
  BY <1>1, SumUpTo
<1>4. \E iter : IsSum(iter, f, S)
  BY <1>3, <1>2 DEF IsSum, IsPartSum
<1> QED
  BY <1>4

(* Of parts of a finite set, if any, one is the smallest. *)
LEMMA LeastPart ==
  ASSUME NEW S, IsFiniteSet(S), NEW Bad \in SUBSET SUBSET S, Bad # {}
  PROVE  \E T \in Bad : \A U \in Bad : Cardinality(T) <= Cardinality(U)
<1> DEFINE Sizes == {Cardinality(T) : T \in Bad}
<1>1. Sizes \in SUBSET Nat
  <2> SUFFICES ASSUME NEW T \in Bad PROVE Cardinality(T) \in Nat
    OBVIOUS
  <2>1. T \in SUBSET S
    OBVIOUS
  <2> QED
    BY <2>1, PartFacts
<1>2. Sizes # {}
  OBVIOUS
<1>3. PICK n \in Sizes : \A k \in Sizes : n <= k
  <2> HIDE DEF Sizes
  <2> QED
    BY <1>1, <1>2, LeastExists
<1>4. PICK T \in Bad : n = Cardinality(T)
  OBVIOUS
<1>5. \A U \in Bad : n <= Cardinality(U)
  BY <1>3
<1> QED
  BY <1>4, <1>5

(* The sums over a set and over a part of it agree on the part. *)
LEMMA SumsAgree ==
  ASSUME NEW f, NEW S, IsFiniteSet(S), NEW U \in SUBSET S,
         NEW g, IsSum(g, f, S), NEW h, IsSum(h, f, U)
  PROVE  \A T \in SUBSET U : g[T] = h[T]
<1> DEFINE Bad == {T \in SUBSET U : g[T] # h[T]}
<1> SUFFICES ASSUME Bad # {} PROVE FALSE
  OBVIOUS
<1>1. PICK T \in Bad : \A V \in Bad : Cardinality(T) <= Cardinality(V)
  <2>1. Bad \in SUBSET SUBSET S
    OBVIOUS
  <2> HIDE DEF Bad
  <2> QED
    BY <2>1, LeastPart
<1>2. T \in SUBSET U /\ T \in SUBSET S /\ g[T] # h[T]
  BY <1>1
<1>3. /\ g[T] = IF T = {} THEN 0 ELSE f[OneOf(T)] + g[T \ {OneOf(T)}]
      /\ h[T] = IF T = {} THEN 0 ELSE f[OneOf(T)] + h[T \ {OneOf(T)}]
  <2>1. g = [V \in SUBSET S |-> IF V = {} THEN 0 ELSE f[OneOf(V)] + g[V \ {OneOf(V)}]]
    BY DEF IsSum
  <2>2. h = [V \in SUBSET U |-> IF V = {} THEN 0 ELSE f[OneOf(V)] + h[V \ {OneOf(V)}]]
    BY DEF IsSum
  <2> QED
    BY <1>2, <2>1, <2>2
<1>4. T # {}
  BY <1>2, <1>3
<1>5. /\ T \ {OneOf(T)} \in SUBSET U
      /\ Cardinality(T) \in Nat /\ Cardinality(T \ {OneOf(T)}) = Cardinality(T) - 1
  BY <1>2, <1>4, PartFacts
<1>6. ~(Cardinality(T) <= Cardinality(T \ {OneOf(T)}))
  BY <1>5
<1>7. g[T \ {OneOf(T)}] = h[T \ {OneOf(T)}]
  BY <1>1, <1>5, <1>6
<1> QED
  BY <1>2, <1>3, <1>7

(* A sum is one element's share and the sum over the others. *)
LEMMA SumUnfolds ==
  ASSUME NEW f, NEW S, IsFiniteSet(S)
  PROVE  /\ S = {} => SumFunctionOnSet(f, S) = 0
         /\ S # {} => /\ OneOf(S) \in S
                      /\ SumFunctionOnSet(f, S) = f[OneOf(S)] + SumFunctionOnSet(f, S \ {OneOf(S)})
<1>1. PICK g : IsSum(g, f, S) /\ SumFunctionOnSet(f, S) = g[S]
  BY SumDefined, SumIsIter
<1>2. g[S] = IF S = {} THEN 0 ELSE f[OneOf(S)] + g[S \ {OneOf(S)}]
  <2>1. g = [V \in SUBSET S |-> IF V = {} THEN 0 ELSE f[OneOf(V)] + g[V \ {OneOf(V)}]]
    BY <1>1 DEF IsSum
  <2>2. S \in SUBSET S
    OBVIOUS
  <2> QED
    BY <2>1, <2>2
<1>3. ASSUME S # {}
      PROVE  OneOf(S) \in S /\ SumFunctionOnSet(f, S \ {OneOf(S)}) = g[S \ {OneOf(S)}]
  <2> DEFINE U == S \ {OneOf(S)}
  <2>1. OneOf(S) \in S /\ U \in SUBSET S /\ IsFiniteSet(U)
    BY <1>3, OneOfIsIn, FS_Subset
  <2> HIDE DEF U
  <2>2. PICK h : IsSum(h, f, U) /\ SumFunctionOnSet(f, U) = h[U]
    BY <2>1, SumDefined, SumIsIter
  <2>3. g[U] = h[U]
    <3>1. U \in SUBSET U
      OBVIOUS
    <3> QED
      BY <1>1, <2>1, <2>2, <3>1, SumsAgree
  <2> QED
    BY <2>1, <2>2, <2>3 DEF U
<1> QED
  BY <1>1, <1>2, <1>3

(* A sum of naturals is a natural. *)
LEMMA SumIsNat ==
  ASSUME NEW f, NEW S, IsFiniteSet(S), \A x \in S : f[x] \in Nat
  PROVE  \A T \in SUBSET S : SumFunctionOnSet(f, T) \in Nat
<1> DEFINE Bad == {T \in SUBSET S : SumFunctionOnSet(f, T) \notin Nat}
<1> SUFFICES ASSUME Bad # {} PROVE FALSE
  OBVIOUS
<1>1. PICK T \in Bad : \A V \in Bad : Cardinality(T) <= Cardinality(V)
  <2>1. Bad \in SUBSET SUBSET S
    OBVIOUS
  <2> HIDE DEF Bad
  <2> QED
    BY <2>1, LeastPart
<1>2. T \in SUBSET S /\ IsFiniteSet(T) /\ SumFunctionOnSet(f, T) \notin Nat
  BY <1>1, PartFacts
<1>3. T # {}
  <2>1. SumFunctionOnSet(f, T) # 0
    BY <1>2
  <2> QED
    BY <1>2, <2>1, SumUnfolds
<1>4. SumFunctionOnSet(f, T) = f[OneOf(T)] + SumFunctionOnSet(f, T \ {OneOf(T)})
  BY <1>2, <1>3, SumUnfolds
<1>5. /\ T \ {OneOf(T)} \in SUBSET S /\ OneOf(T) \in S
      /\ Cardinality(T) \in Nat /\ Cardinality(T \ {OneOf(T)}) = Cardinality(T) - 1
  BY <1>2, <1>3, PartFacts
<1>6. ~(Cardinality(T) <= Cardinality(T \ {OneOf(T)}))
  BY <1>5
<1>7. SumFunctionOnSet(f, T \ {OneOf(T)}) \in Nat
  BY <1>1, <1>5, <1>6
<1> QED
  BY <1>2, <1>4, <1>5, <1>7

(* Any element may be taken out first. *)
LEMMA SumTakesOut ==
  ASSUME NEW f, NEW S, IsFiniteSet(S), \A x \in S : f[x] \in Nat
  PROVE  \A T \in SUBSET S : \A x \in T :
           SumFunctionOnSet(f, T) = f[x] + SumFunctionOnSet(f, T \ {x})
<1> DEFINE Bad == {T \in SUBSET S : ~ \A x \in T :
           SumFunctionOnSet(f, T) = f[x] + SumFunctionOnSet(f, T \ {x})}
<1> SUFFICES ASSUME Bad # {} PROVE FALSE
  OBVIOUS
<1>1. PICK T \in Bad : \A V \in Bad : Cardinality(T) <= Cardinality(V)
  <2>1. Bad \in SUBSET SUBSET S
    OBVIOUS
  <2> HIDE DEF Bad
  <2> QED
    BY <2>1, LeastPart
<1>2. T \in SUBSET S /\ IsFiniteSet(T) /\ Cardinality(T) \in Nat
  BY <1>1, PartFacts
<1>3. PICK x \in T : SumFunctionOnSet(f, T) # f[x] + SumFunctionOnSet(f, T \ {x})
  BY <1>1
<1> DEFINE a == OneOf(T)
<1>4. /\ a \in T /\ SumFunctionOnSet(f, T) = f[a] + SumFunctionOnSet(f, T \ {a})
  BY <1>2, SumUnfolds
<1>5. x # a
  BY <1>3, <1>4
<1> HIDE DEF a
<1>6. ASSUME NEW y \in T
      PROVE  \A z \in T \ {y} :
               SumFunctionOnSet(f, T \ {y}) = f[z] + SumFunctionOnSet(f, (T \ {y}) \ {z})
  <2>1. T \ {y} \in SUBSET S /\ Cardinality(T \ {y}) = Cardinality(T) - 1
    BY <1>2, FS_RemoveElement
  <2>2. ~(Cardinality(T) <= Cardinality(T \ {y}))
    BY <1>2, <2>1
  <2>3. T \ {y} \notin Bad
    <3> HIDE DEF Bad
    <3> QED
      BY <1>1, <2>2
  <2> QED
    BY <2>1, <2>3
<1> DEFINE R == (T \ {a}) \ {x}
<1>7. (T \ {x}) \ {a} = R
  OBVIOUS
<1>8. SumFunctionOnSet(f, T \ {a}) = f[x] + SumFunctionOnSet(f, R)
  BY <1>4, <1>5, <1>6
<1>9. SumFunctionOnSet(f, T \ {x}) = f[a] + SumFunctionOnSet(f, R)
  BY <1>4, <1>5, <1>6, <1>7
<1>10. f[x] \in Nat /\ f[a] \in Nat /\ SumFunctionOnSet(f, R) \in Nat
  BY <1>2, <1>4, SumIsNat
<1> HIDE DEF R
<1> QED
  BY <1>3, <1>4, <1>8, <1>9, <1>10

(* Two functions that agree on a part, one of them zero elsewhere, have the same sum. *)
LEMMA SumIgnoresNothing ==
  ASSUME NEW f, NEW g, NEW S, IsFiniteSet(S), NEW P \in SUBSET S,
         \A x \in S : f[x] \in Nat,
         \A x \in P : g[x] = f[x],
         \A x \in S \ P : f[x] = 0
  PROVE  SumFunctionOnSet(f, S) = SumFunctionOnSet(g, P)
<1> DEFINE Bad == {T \in SUBSET S : SumFunctionOnSet(f, T) # SumFunctionOnSet(g, T \cap P)}
<1>0. Bad = {}
  <2> SUFFICES ASSUME Bad # {} PROVE FALSE
    OBVIOUS
  <2>1. PICK T \in Bad : \A V \in Bad : Cardinality(T) <= Cardinality(V)
    <3>1. Bad \in SUBSET SUBSET S
      OBVIOUS
    <3> HIDE DEF Bad
    <3> QED
      BY <3>1, LeastPart
  <2>2. /\ T \in SUBSET S /\ IsFiniteSet(T) /\ Cardinality(T) \in Nat /\ IsFiniteSet(T \cap P)
        /\ SumFunctionOnSet(f, T) # SumFunctionOnSet(g, T \cap P)
    BY <2>1, PartFacts
  <2>3. ASSUME T = {} PROVE FALSE
    <3>1. T \cap P = {}
      BY <2>3
    <3> QED
      BY <2>2, <2>3, <3>1, SumUnfolds
  <2>4. ASSUME NEW x \in T
        PROVE  SumFunctionOnSet(f, T \ {x}) = SumFunctionOnSet(g, (T \ {x}) \cap P)
    <3>1. T \ {x} \in SUBSET S /\ Cardinality(T \ {x}) = Cardinality(T) - 1
      BY <2>2, FS_RemoveElement
    <3>2. ~(Cardinality(T) <= Cardinality(T \ {x}))
      BY <2>2, <3>1
    <3>3. T \ {x} \notin Bad
      <4> HIDE DEF Bad
      <4> QED
        BY <2>1, <3>2
    <3> QED
      BY <3>1, <3>3
  <2>5. PICK x \in T : TRUE
    BY <2>3
  <2>6. /\ SumFunctionOnSet(f, T) = f[x] + SumFunctionOnSet(f, T \ {x})
        /\ SumFunctionOnSet(f, T \ {x}) \in Nat
    BY <2>2, SumTakesOut, SumIsNat
  <2>7. CASE x \in P
    <3>1. x \in T \cap P /\ (T \cap P) \ {x} = (T \ {x}) \cap P
      BY <2>7
    <3>2. \A y \in P : g[y] \in Nat
      OBVIOUS
    <3>3. IsFiniteSet(P)
      BY PartFacts
    <3>4. SumFunctionOnSet(g, T \cap P) = g[x] + SumFunctionOnSet(g, (T \cap P) \ {x})
      BY <3>1, <3>2, <3>3, SumTakesOut
    <3> QED
      BY <2>2, <2>4, <2>6, <2>7, <3>1, <3>4
  <2>8. CASE x \notin P
    <3>1. T \cap P = (T \ {x}) \cap P /\ f[x] = 0
      BY <2>2, <2>8
    <3> QED
      BY <2>2, <2>4, <2>6, <3>1
  <2> QED
    BY <2>7, <2>8
<1>1. S \notin Bad /\ S \cap P = P
  BY <1>0
<1> QED
  BY <1>1

----------------------------------------------------------------------------
(* Counting round a ring. *)
(* Between -b and b there is one multiple of b. *)
LEMMA NoMultiple ==
  ASSUME NEW d \in Int, NEW b \in Nat \ {0}, -b < b * d, b * d < b
  PROVE  d = 0
<1>1. ASSUME d >= 1 PROVE FALSE
  <2>1. PICK e \in Nat : d = e + 1
    BY <1>1
  <2>2. b * d = b * e + b /\ b * e \in Nat
    BY <2>1
  <2>3. PICK p \in Nat : p = b * e
    BY <2>2
  <2>4. b * d = p + b
    BY <2>2, <2>3
  <2> QED BY <2>4
<1>2. ASSUME d <= -1 PROVE FALSE
  <2>1. PICK e \in Nat : d = -(e + 1)
    <3>1. -d - 1 \in Nat /\ d = -((-d - 1) + 1)
      BY <1>2
    <3> QED BY <3>1
  <2>2. b * d = -(b * e) - b /\ b * e \in Nat
    BY <2>1
  <2>3. PICK p \in Nat : p = b * e
    BY <2>2
  <2>4. b * d = -p - b
    BY <2>2, <2>3
  <2> QED BY <2>4
<1> QED BY <1>1, <1>2

(* Division leaves one remainder. *)
LEMMA OneRemainder ==
  ASSUME NEW b \in Nat \ {0}, NEW q \in Int, NEW p \in Int,
         NEW m \in 0..(b - 1), NEW n \in 0..(b - 1),
         b * q + m = b * p + n
  PROVE  m = n
<1>1. b * (q - p) = n - m
  <2>1. PICK x \in Int, y \in Int : x = b * q /\ y = b * p
    OBVIOUS
  <2>2. b * (q - p) = x - y
    BY <2>1
  <2> QED BY <2>1, <2>2
<1>2. PICK d \in Int : d = q - p
  OBVIOUS
<1>3. -b < b * d /\ b * d < b
  <2>1. PICK z \in Int : z = b * d
    OBVIOUS
  <2>2. z = n - m
    BY <1>1, <1>2, <2>1
  <2>3. -b < z /\ z < b
    BY <2>2
  <2> QED BY <2>1, <2>3
<1>4. d = 0
  BY <1>3, NoMultiple
<1>5. b * d = 0
  BY <1>4
<1>6. n - m = 0
  BY <1>1, <1>2, <1>5
<1> QED BY <1>6

(* Counting on by one goes on by one place round a ring. *)
LEMMA NextRemainder ==
  ASSUME NEW a \in Nat, NEW b \in Nat \ {0}
  PROVE  (a + 1) % b = IF a % b = b - 1 THEN 0 ELSE (a % b) + 1
<1>1. PICK m \in 0..(b-1) : m = a % b
  OBVIOUS
<1>2. PICK n \in 0..(b-1) : n = (a + 1) % b
  <2>1. a + 1 \in Nat
    OBVIOUS
  <2> QED BY <2>1
<1>3. PICK q \in Int, p \in Int : q = a \div b /\ p = (a+1) \div b
  OBVIOUS
<1>4. a = b * q + m
  BY <1>1, <1>3
<1>5. a + 1 = b * p + n
  <2>1. PICK c \in Nat : c = a + 1
    OBVIOUS
  <2>2. c = b * (c \div b) + (c % b)
    BY <2>1
  <2> QED BY <2>1, <2>2, <1>2, <1>3
<1>6. CASE m = b - 1
  <2>1. b * (q + 1) = b * q + b
    OBVIOUS
  <2>2. b * (q + 1) + 0 = b * p + n /\ q + 1 \in Int /\ 0 \in 0..(b-1)
    BY <1>4, <1>5, <1>6, <2>1
  <2>3. n = 0
    BY <2>2, OneRemainder
  <2> QED BY <2>3, <1>1, <1>2, <1>6
<1>7. CASE m # b - 1
  <2>1. m + 1 \in 0..(b-1) /\ b * q + (m + 1) = b * p + n
    BY <1>4, <1>5, <1>7
  <2>2. n = m + 1
    BY <2>1, OneRemainder
  <2> QED BY <2>2, <1>1, <1>2, <1>7
<1> QED BY <1>6, <1>7

----------------------------------------------------------------------------
(* Finite sets in order. *)
(* R orders S: of two elements one comes before the other. *)
IsOrder(R, S) ==
  /\ \A x, y \in S : x # y => <<x, y>> \in R \/ <<y, x>> \in R
  /\ \A x, y, z \in S : <<x, y>> \in R /\ <<y, z>> \in R => <<x, z>> \in R

(* In every part of a finite ordered set, if it has elements, one comes last. *)
LEMMA GreatestExists ==
  ASSUME NEW S, IsFiniteSet(S), NEW R, IsOrder(R, S)
  PROVE  \A T \in SUBSET S : T # {} => \E x \in T : \A y \in T : y # x => <<y, x>> \in R
<1> DEFINE Fine(T) == T # {} => \E x \in T : \A y \in T : y # x => <<y, x>> \in R
           Bad == {T \in SUBSET S : ~Fine(T)}
<1> SUFFICES ASSUME Bad # {} PROVE FALSE
  OBVIOUS
<1>1. PICK T \in Bad : \A U \in Bad : Cardinality(T) <= Cardinality(U)
  <2>1. Bad \in SUBSET SUBSET S
    OBVIOUS
  <2> HIDE DEF Bad
  <2> QED BY <2>1, LeastPart
<1>2. T \in SUBSET S /\ ~Fine(T) /\ T # {}
  OBVIOUS
<1>3. PICK a \in T : TRUE
  BY <1>2
<1>4. PICK U : U = T \ {a}
  OBVIOUS
<1>5. /\ U \in SUBSET S /\ Cardinality(T) \in Nat /\ Cardinality(U) = Cardinality(T) - 1
      /\ T = U \cup {a}
  <2>1. IsFiniteSet(T) /\ Cardinality(T) \in Nat
    BY <1>2, PartFacts
  <2>2. Cardinality(U) = Cardinality(T) - 1
    BY <1>3, <1>4, <2>1, FS_RemoveElement
  <2>3. U \in SUBSET S /\ T = U \cup {a}
    BY <1>2, <1>3, <1>4
  <2> QED BY <2>1, <2>2, <2>3
<1>6. Fine(U)
  <2>1. ~(Cardinality(T) <= Cardinality(U))
    BY <1>5
  <2> HIDE DEF Fine
  <2> QED BY <1>1, <1>5, <2>1
<1>7. CASE U = {}
  BY <1>2, <1>5, <1>7
<1>8. CASE U # {}
  <2>1. PICK x \in U : \A y \in U : y # x => <<y, x>> \in R
    BY <1>6, <1>8
  <2>2. x \in S /\ a \in S /\ x # a /\ U \subseteq S
    BY <1>2, <1>4, <1>5
  <2>3. CASE <<a, x>> \in R
    BY <1>2, <1>5, <2>1, <2>3
  <2>4. CASE <<x, a>> \in R
    <3>1. \A y \in U : <<y, a>> \in R
      BY <2>1, <2>2, <2>4 DEF IsOrder
    <3> QED BY <1>2, <1>3, <1>5, <3>1
  <2> QED BY <2>2, <2>3, <2>4 DEF IsOrder
<1> QED BY <1>7, <1>8

(* s lists T in its order. *)
Lists(s, T, R) ==
  /\ s \in [1..Cardinality(T) -> T]
  /\ \A m, n \in 1..Cardinality(T) : m < n => <<s[m], s[n]>> \in R

(* Every part of a finite ordered set can be listed: what sorting returns exists. *)
LEMMA ListExists ==
  ASSUME NEW S, IsFiniteSet(S), NEW R, IsOrder(R, S)
  PROVE  \A T \in SUBSET S : \E s : Lists(s, T, R)
<1> DEFINE Fine(T) == \E s : Lists(s, T, R)
           Bad == {T \in SUBSET S : ~Fine(T)}
<1> SUFFICES ASSUME Bad # {} PROVE FALSE
  OBVIOUS
<1>1. PICK T \in Bad : \A U \in Bad : Cardinality(T) <= Cardinality(U)
  <2>1. Bad \in SUBSET SUBSET S
    OBVIOUS
  <2> HIDE DEF Bad
  <2> QED BY <2>1, LeastPart
<1>2. T \in SUBSET S /\ ~Fine(T) /\ Cardinality(T) \in Nat /\ (Cardinality(T) = 0 <=> T = {})
  BY PartFacts
<1>3. CASE T = {}
  <2>1. 1..Cardinality(T) = {}
    BY <1>2, <1>3
  <2>2. [n \in {} |-> n] \in [{} -> {}]
    OBVIOUS
  <2>3. Lists([n \in {} |-> n], T, R)
    BY <1>3, <2>1, <2>2 DEF Lists
  <2> QED BY <1>2, <2>3
<1>4. CASE T # {}
  <2>1. PICK x \in T : \A y \in T : y # x => <<y, x>> \in R
    BY <1>2, <1>4, GreatestExists
  <2>2. PICK U : U = T \ {x}
    OBVIOUS
  <2>3. PICK c \in Nat : c = Cardinality(T)
    BY <1>2
  <2>4. /\ U \in SUBSET S /\ Cardinality(U) = c - 1 /\ c # 0 /\ T = U \cup {x} /\ x \notin U
    <3>1. IsFiniteSet(T) /\ c # 0
      BY <1>2, <1>4, <2>3, PartFacts
    <3>2. Cardinality(U) = c - 1
      BY <2>1, <2>2, <2>3, <3>1, FS_RemoveElement
    <3>3. U \in SUBSET S /\ T = U \cup {x} /\ x \notin U
      BY <1>2, <2>1, <2>2
    <3> QED BY <3>1, <3>2, <3>3
  <2>5. Fine(U)
    <3>1. ~(Cardinality(T) <= Cardinality(U))
      BY <2>3, <2>4
    <3> HIDE DEF Fine
    <3> QED BY <1>1, <2>4, <3>1
  <2>6. PICK s : Lists(s, U, R)
    BY <2>5
  <2>7. PICK t : t = [n \in 1..c |-> IF n = c THEN x ELSE s[n]]
    OBVIOUS
  <2>8. \A n \in 1..c : n # c => n \in 1..c - 1 /\ t[n] = s[n] /\ t[n] \in U
    <3>1. \A n \in 1..c : n # c => n \in 1..c - 1
      BY <2>3
    <3>2. s \in [1..c - 1 -> U]
      BY <2>4, <2>6 DEF Lists
    <3> QED BY <2>7, <3>1, <3>2
  <2>9. c \in 1..c /\ t[c] = x
    <3>1. c \in Nat /\ c # 0
      BY <2>3, <2>4
    <3>2. c \in 1..c
      BY <3>1
    <3> QED BY <2>7, <3>2
  <2>10. t \in [1..c -> T]
    BY <2>4, <2>7, <2>8, <2>9
  <2>11. ASSUME NEW m \in 1..c, NEW n \in 1..c, m < n
         PROVE  <<t[m], t[n]>> \in R
    <3>1. m # c
      BY <2>3, <2>11
    <3>2. CASE n = c
      BY <2>1, <2>4, <2>8, <2>9, <3>1, <3>2
    <3>3. CASE n # c
      BY <2>4, <2>6, <2>8, <2>11, <3>1, <3>3 DEF Lists
    <3> QED BY <3>2, <3>3
  <2>12. Lists(t, T, R)
    BY <2>3, <2>10, <2>11 DEF Lists
  <2> QED BY <1>2, <2>12
<1> QED BY <1>3, <1>4
=============================================================================
