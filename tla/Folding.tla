-------------------------------- MODULE Folding --------------------------------
(***************************************************************************)
(* Lemmas about folds of a fixed operator, and induction on the natural    *)
(* numbers, both stated with sets: a set that holds the start and is       *)
(* closed under the operator holds the fold.  A module that folds an       *)
(* operator of its own takes an instance of this one.                      *)
(***************************************************************************)
EXTENDS SequencesExt, Naturals, FiniteSetTheorems, WellFoundedInduction, TLAPS

CONSTANT Op(_, _)

\* A set of natural numbers that is not empty has a least element.
LEMMA LeastOf ==
  ASSUME NEW T, T \subseteq Nat, T # {}
  PROVE  \E x \in T : \A y \in T : ~(y < x)
<1> DEFINE R == OpToRel(<, Nat)
<1>1. \A a, b \in Nat : a < b => <<a, b>> \in OpToRel(<, Nat)
  BY DEF OpToRel
<1>2. IsWellFoundedOn(OpToRel(<, Nat), Nat)
  BY NatLessThanWellFounded
<1> HIDE DEF R
<1>3. \E x \in T : \A y \in T : ~(<<y, x>> \in R)
  <2>1. IsWellFoundedOn(R, Nat)
    BY <1>2 DEF R
  <2>2. QED BY <2>1, WFMin, Zenon
<1>4. \A a, b \in Nat : a < b => <<a, b>> \in R
  BY <1>1, Zenon DEF R
<1>5. \A x \in T, y \in T : y < x => <<y, x>> \in R
  BY <1>4
<1>6. QED BY <1>3, <1>5, Zenon

\* Induction: a set that holds 0 and n + 1 for each n it holds, holds all.
LEMMA Induct ==
  ASSUME NEW S, 0 \in S, \A n \in S \cap Nat : n + 1 \in S
  PROVE  \A n \in Nat : n \in S
<1> SUFFICES ASSUME Nat \ S # {} PROVE FALSE
  OBVIOUS
<1>1. PICK x \in Nat \ S : \A y \in Nat \ S : ~(y < x)
  BY LeastOf
<1>2. x # 0 /\ x - 1 \in Nat /\ x - 1 < x /\ (x - 1) + 1 = x
  OBVIOUS
<1>3. QED BY <1>1, <1>2

\* The fold of a sequence is defined by a function on the subsets of its domain.
LEMMA FoldDef ==
  ASSUME NEW v, NEW q
  PROVE FoldLeft(Op, v, q) =
    LET iter[s \in SUBSET (DOMAIN q)] ==
        IF s = {} THEN v ELSE Op(iter[s \ {Max(s)}], q[Max(s)])
    IN iter[DOMAIN q]
BY DEF FoldLeft, MapThenFoldSet

Iter(v, q, D) ==
  CHOOSE iter : iter =
    [s \in SUBSET D |-> IF s = {} THEN v ELSE Op(iter[s \ {Max(s)}], q[Max(s)])]

LEMMA FoldIsIter ==
  ASSUME NEW v, NEW q
  PROVE FoldLeft(Op, v, q) = Iter(v, q, DOMAIN q)[DOMAIN q]
BY FoldDef DEF Iter

\* The function with that recursive definition
IsIter(it, v, q, D) ==
  it = [s \in SUBSET D |-> IF s = {} THEN v ELSE Op(it[s \ {Max(s)}], q[Max(s)])]

\* The largest element of a set of indexes up to n + 1 that holds n + 1
LEMMA MaxOfPrefix == \A n \in Nat : \A s \in SUBSET (1..(n + 1)) : n + 1 \in s => Max(s) = n + 1
<1> TAKE n \in Nat
<1> TAKE s \in SUBSET (1..(n + 1))
<1> HAVE n + 1 \in s
<1>1. \A y \in s : y \in Nat /\ n + 1 >= y
  OBVIOUS
<1>2. \A x \in s : (\A y \in s : x >= y) => x = n + 1
  BY <1>1
<1>3. QED BY <1>1, <1>2 DEF Max

\* Some of the indexes of a sequence have a largest.
LEMMA MaxOfIndexes ==
  ASSUME NEW E, NEW q \in Seq(E), NEW s \in SUBSET (DOMAIN q), s # {}
  PROVE  Max(s) \in s
<1> DEFINE T == {Len(q) - x : x \in s}
<1>1. Len(q) \in Nat /\ \A x \in s : x \in Nat /\ x <= Len(q)
  OBVIOUS
<1>2. T \subseteq Nat /\ T # {}
  BY <1>1
<1>3. PICK y \in T : \A z \in T : ~(z < y)
  <2> HIDE DEF T
  <2>1. QED BY <1>2, LeastOf
<1>4. PICK x \in s : y = Len(q) - x
  BY <1>3
<1>5. \A z \in s : x >= z
  <2> SUFFICES ASSUME NEW z \in s PROVE x >= z
    OBVIOUS
  <2>1. ~(Len(q) - z < Len(q) - x)
    BY <1>3, <1>4
  <2>2. QED BY <1>1, <2>1
<1>6. QED BY <1>4, <1>5 DEF Max

\* It exists on every prefix of the indexes, by induction on their number.
LEMMA IterExists ==
  ASSUME NEW v, NEW q
  PROVE  \A n \in Nat : \E it : IsIter(it, v, q, 1..n)
<1> DEFINE S == {n \in Nat : \E it : IsIter(it, v, q, 1..n)}
<1>1. 0 \in S
  <2> DEFINE it == [s \in SUBSET (1..0) |-> v]
  <2>1. 1..0 = {}
    OBVIOUS
  <2>2. IsIter(it, v, q, 1..0)
    BY <2>1 DEF IsIter
  <2>3. QED BY <2>2
<1>2. ASSUME NEW n \in S \cap Nat PROVE n + 1 \in S
  <2>1. PICK it : IsIter(it, v, q, 1..n)
    OBVIOUS
  <2> DEFINE jt == [s \in SUBSET (1..(n + 1)) |-> IF n + 1 \in s THEN Op(it[s \ {n + 1}], q[n + 1])
                                              ELSE it[s]]
             Next(f, s) == IF s = {} THEN v ELSE Op(f[s \ {Max(s)}], q[Max(s)])
  <2>2. \A s \in SUBSET (1..n) : it[s] = Next(it, s)
    BY <2>1 DEF IsIter
  <2>3. ASSUME NEW s \in SUBSET (1..(n + 1)) PROVE jt[s] = Next(jt, s)
    <3>1. CASE n + 1 \in s
      <4>1. Max(s) = n + 1 /\ s # {}
        BY <3>1, MaxOfPrefix
      <4>2. s \ {n + 1} \in SUBSET (1..n) /\ s \ {n + 1} \in SUBSET (1..(n + 1)) /\ n + 1 \notin s \ {n + 1}
        OBVIOUS
      <4>3. jt[s \ {n + 1}] = it[s \ {n + 1}]
        BY <4>2
      <4>4. jt[s] = Op(it[s \ {n + 1}], q[n + 1])
        BY <3>1
      <4> HIDE DEF jt
      <4>5. QED BY <4>1, <4>3, <4>4
    <3>2. CASE n + 1 \notin s
      <4>1. s \in SUBSET (1..n)
        BY <3>2
      <4> DEFINE m == Max(s)
      <4> HIDE DEF m
      <4>2. s \ {m} \in SUBSET (1..n) /\ s \ {m} \in SUBSET (1..(n + 1)) /\ n + 1 \notin s \ {m}
        BY <3>2, <4>1
      <4>3. jt[s \ {m}] = it[s \ {m}]
        BY <4>2
      <4>4. jt[s] = it[s]
        BY <3>2
      <4> HIDE DEF jt
      <4>5. QED BY <2>2, <4>1, <4>3, <4>4 DEF m
    <3>3. QED BY <3>1, <3>2
  <2>4. jt = [s \in SUBSET (1..(n + 1)) |-> Next(jt, s)]
    <3>1. jt = [s \in SUBSET (1..(n + 1)) |-> jt[s]]
      OBVIOUS
    <3> HIDE DEF jt
    <3>2. QED BY <2>3, <3>1
  <2>5. IsIter(jt, v, q, 1..(n + 1))
    BY <2>4 DEF IsIter
  <2>6. QED BY <2>5
<1>3. \A n \in Nat : n \in S
  <2> HIDE DEF S
  <2>1. QED BY <1>1, <1>2, Induct
<1>4. QED BY <1>3

\* The values a fold passes through
Chain(g, v, q) == g[0] = v /\ \A m \in 0..(Len(q) - 1) : g[m + 1] = Op(g[m], q[m + 1])
HasChain(W, v, q) ==
  \E g \in [0..Len(q) -> W] : Chain(g, v, q) /\ FoldLeft(Op, v, q) = g[Len(q)]

\* A fold passes through such values.
Passes(v, q) ==
  \E g : DOMAIN g = 0..Len(q) /\ Chain(g, v, q) /\ FoldLeft(Op, v, q) = g[Len(q)]
LEMMA FoldPasses ==
  ASSUME NEW E, NEW v, NEW q \in Seq(E)
  PROVE  Passes(v, q)
<1> DEFINE it == Iter(v, q, DOMAIN q)
           g == [m \in 0..Len(q) |-> it[1..m]]
<1>1. DOMAIN q = 1..Len(q) /\ Len(q) \in Nat /\ \A i \in 1..Len(q) : q[i] \in E
  OBVIOUS
<1>2. IsIter(it, v, q, 1..Len(q))
  <2>1. \E h : IsIter(h, v, q, 1..Len(q))
    BY <1>1, IterExists
  <2>2. QED BY <1>1, <2>1 DEF Iter, IsIter
<1>h. FoldLeft(Op, v, q) = it[DOMAIN q]
  BY FoldIsIter
<1> HIDE DEF it
<1>3. \A s \in SUBSET (1..Len(q)) :
         it[s] = IF s = {} THEN v ELSE Op(it[s \ {Max(s)}], q[Max(s)])
  BY <1>2 DEF IsIter
<1>4. it[1..0] = v
  <2>1. 1..0 = {}
    OBVIOUS
  <2>2. QED BY <1>3, <2>1
<1>5. ASSUME NEW n \in Nat, n + 1 <= Len(q)
      PROVE  it[1..(n + 1)] = Op(it[1..n], q[n + 1])
  <2>1. /\ n + 1 \in 1..Len(q) /\ 1..(n + 1) \in SUBSET (1..Len(q))
        /\ n + 1 \in 1..(n + 1) /\ 1..(n + 1) # {} /\ (1..(n + 1)) \ {n + 1} = 1..n
    <3>1. n + 1 \in 1..Len(q) /\ n + 1 \in 1..(n + 1)
      BY <1>1, <1>5
    <3>2. 1..(n + 1) \in SUBSET (1..Len(q))
      BY <1>1, <1>5
    <3>3. (1..(n + 1)) \ {n + 1} = 1..n
      OBVIOUS
    <3>4. QED BY <3>1, <3>2, <3>3
  <2>2. Max(1..(n + 1)) = n + 1
    BY <2>1, MaxOfPrefix
  <2>3. QED BY <1>3, <2>1, <2>2
<1>6. Chain(g, v, q)
  <2>1. g[0] = v
    BY <1>1, <1>4
  <2>2. ASSUME NEW m \in 0..(Len(q) - 1) PROVE g[m + 1] = Op(g[m], q[m + 1])
    <3>1. m \in Nat /\ m + 1 <= Len(q) /\ m \in 0..Len(q) /\ m + 1 \in 0..Len(q)
      BY <1>1
    <3>2. QED BY <1>5, <3>1
  <2> HIDE DEF g
  <2>3. QED BY <2>1, <2>2 DEF Chain
<1>7. DOMAIN g = 0..Len(q) /\ g[Len(q)] = FoldLeft(Op, v, q)
  BY <1>1, <1>h
<1> HIDE DEF g
<1>8. QED BY <1>6, <1>7 DEF Passes

\* None of them leaves a set that is closed under the operator.
LEMMA FoldChain ==
  ASSUME NEW W, NEW E, NEW v \in W, NEW q \in Seq(E), \A w \in W, e \in E : Op(w, e) \in W
  PROVE  HasChain(W, v, q)
<1>1. PICK g : DOMAIN g = 0..Len(q) /\ Chain(g, v, q) /\ FoldLeft(Op, v, q) = g[Len(q)]
  <2>1. Passes(v, q)
    BY FoldPasses, Zenon
  <2>2. QED BY <2>1 DEF Passes
<1> DEFINE S == {n \in Nat : n <= Len(q) => g[n] \in W}
           h == [m \in 0..Len(q) |-> g[m]]
<1>2. Len(q) \in Nat /\ \A i \in 1..Len(q) : q[i] \in E
  OBVIOUS
<1>3. 0 \in S
  BY <1>1 DEF Chain
<1>4. ASSUME NEW n \in S \cap Nat PROVE n + 1 \in S
  <2> SUFFICES ASSUME n + 1 <= Len(q) PROVE g[n + 1] \in W
    OBVIOUS
  <2>1. n \in 0..(Len(q) - 1) /\ g[n] \in W /\ n + 1 \in 1..Len(q)
    BY <1>2
  <2>2. QED BY <1>1, <1>2, <2>1 DEF Chain
<1>5. \A n \in Nat : n \in S
  <2> HIDE DEF S
  <2>1. QED BY <1>3, <1>4, Induct
<1>6. h \in [0..Len(q) -> W] /\ h[Len(q)] = FoldLeft(Op, v, q)
  BY <1>1, <1>2, <1>5
<1>7. Chain(h, v, q)
  <2>1. h[0] = g[0]
    BY <1>2
  <2>2. \A m \in 0..(Len(q) - 1) : m \in 0..Len(q) /\ m + 1 \in 0..Len(q)
    BY <1>2
  <2>3. QED BY <1>1, <2>1, <2>2 DEF Chain
<1> HIDE DEF h
<1>8. QED BY <1>6, <1>7 DEF HasChain

\* There is one such chain.
LEMMA ChainIsOne ==
  ASSUME NEW v, NEW E, NEW q \in Seq(E), NEW g, NEW h, Chain(g, v, q), Chain(h, v, q)
  PROVE  g[Len(q)] = h[Len(q)]
<1> DEFINE S == {n \in Nat : n <= Len(q) => g[n] = h[n]}
<1>1. Len(q) \in Nat
  OBVIOUS
<1>2. 0 \in S
  BY DEF Chain
<1>3. ASSUME NEW n \in S \cap Nat PROVE n + 1 \in S
  <2> SUFFICES ASSUME n + 1 <= Len(q) PROVE g[n + 1] = h[n + 1]
    OBVIOUS
  <2>1. n \in 0..(Len(q) - 1) /\ g[n] = h[n]
    BY <1>1
  <2>2. QED BY <2>1 DEF Chain
<1> HIDE DEF S
<1>4. \A n \in Nat : n \in S
  BY <1>2, <1>3, Induct
<1>5. QED BY <1>1, <1>4 DEF S

\* A fold is the last value of any such chain.
EndsWith(v, q, g) == FoldLeft(Op, v, q) = g[Len(q)]
LEMMA FoldIsChain ==
  ASSUME NEW W, NEW E, NEW v \in W, NEW q \in Seq(E), \A w \in W, e \in E : Op(w, e) \in W,
         NEW g, Chain(g, v, q)
  PROVE  EndsWith(v, q, g)
<1>1. PICK h \in [0..Len(q) -> W] : Chain(h, v, q) /\ FoldLeft(Op, v, q) = h[Len(q)]
  <2>1. HasChain(W, v, q)
    BY FoldChain, Zenon
  <2>2. QED BY <2>1 DEF HasChain
<1>2. QED BY <1>1, ChainIsOne DEF EndsWith

\* A set that is closed under the operator is not left by a fold.
LEMMA FoldStays ==
  ASSUME NEW W, NEW E, NEW v \in W, NEW q \in Seq(E), \A w \in W, e \in E : Op(w, e) \in W
  PROVE  FoldLeft(Op, v, q) \in W
<1>1. PICK h \in [0..Len(q) -> W] : Chain(h, v, q) /\ FoldLeft(Op, v, q) = h[Len(q)]
  <2>1. HasChain(W, v, q)
    BY FoldChain, Zenon
  <2>2. QED BY <2>1 DEF HasChain
<1>2. Len(q) \in 0..Len(q)
  OBVIOUS
<1>3. QED BY <1>1, <1>2

\* A fold of a sequence with one more element applies the operator once more.
AppliesOnce(v, q, e) == FoldLeft(Op, v, Append(q, e)) = Op(FoldLeft(Op, v, q), e)
LEMMA FoldAppend ==
  ASSUME NEW W, NEW E, NEW v \in W, NEW q \in Seq(E), NEW e \in E,
         \A w \in W, d \in E : Op(w, d) \in W
  PROVE  AppliesOnce(v, q, e)
<1> DEFINE p == Append(q, e)
<1>1. PICK h \in [0..Len(p) -> W] : Chain(h, v, p) /\ FoldLeft(Op, v, p) = h[Len(p)]
  <2>1. p \in Seq(E)
    OBVIOUS
  <2> HIDE DEF p
  <2>2. HasChain(W, v, p)
    BY <2>1, FoldChain, Zenon
  <2>3. QED BY <2>2 DEF HasChain
<1>2. /\ Len(p) = Len(q) + 1 /\ Len(q) \in Nat /\ p[Len(q) + 1] = e
      /\ \A m \in 0..(Len(q) - 1) : p[m + 1] = q[m + 1]
  OBVIOUS
<1> HIDE DEF p
<1>3. h[Len(q) + 1] = Op(h[Len(q)], e)
  <2>1. Len(q) \in 0..(Len(p) - 1)
    BY <1>2
  <2>2. QED BY <1>1, <1>2, <2>1 DEF Chain
<1>4. Chain(h, v, q)
  <2>1. \A m \in 0..(Len(q) - 1) : m \in 0..(Len(p) - 1)
    BY <1>2
  <2>2. QED BY <1>1, <1>2, <2>1 DEF Chain
<1>5. FoldLeft(Op, v, q) = h[Len(q)]
  <2>1. EndsWith(v, q, h)
    BY <1>4, FoldIsChain
  <2>2. QED BY <2>1 DEF EndsWith
<1>6. QED BY <1>1, <1>2, <1>3, <1>5 DEF p, AppliesOnce

\* A fold of a sequence that is not empty ends with the operator applied to a
\* value of the set and an element.
IsLastOf(W, E, v, q) == \E w \in W, e \in E : FoldLeft(Op, v, q) = Op(w, e)
LEMMA FoldLast ==
  ASSUME NEW W, NEW E, NEW v \in W, NEW q \in Seq(E), q # <<>>,
         \A w \in W, e \in E : Op(w, e) \in W
  PROVE  IsLastOf(W, E, v, q)
<1>1. PICK h \in [0..Len(q) -> W] : Chain(h, v, q) /\ FoldLeft(Op, v, q) = h[Len(q)]
  <2>1. HasChain(W, v, q)
    BY FoldChain, Zenon
  <2>2. QED BY <2>1 DEF HasChain
<1>2. PICK m \in Nat : Len(q) = m + 1
  <2>1. Len(q) \in Nat /\ Len(q) # 0
    OBVIOUS
  <2>2. Len(q) - 1 \in Nat /\ Len(q) = (Len(q) - 1) + 1
    BY <2>1
  <2>3. QED BY <2>2
<1>3. m \in 0..(Len(q) - 1) /\ m \in 0..Len(q) /\ q[m + 1] \in E /\ h[m] \in W
  BY <1>1, <1>2
<1>4. h[m + 1] = Op(h[m], q[m + 1])
  BY <1>1, <1>3 DEF Chain
<1>5. QED BY <1>1, <1>2, <1>3, <1>4 DEF IsLastOf
-----------------------------------------------------------------------------
\* The fold of a set takes its elements in some order, which a function on its
\* subsets fixes.
SetIter(it, v, T) ==
  it = [s \in T |-> IF s = {} THEN v
                    ELSE Op(it[s \ {CHOOSE x \in s : TRUE}], CHOOSE x \in s : TRUE)]
FoldOf(v, D) == FoldSet(LAMBDA x, a : Op(a, x), v, D)
SetIterOf(v, D) ==
  CHOOSE it : it =
    [s \in SUBSET D |-> IF s = {} THEN v
                        ELSE Op(it[s \ {CHOOSE x \in s : TRUE}], CHOOSE x \in s : TRUE)]

LEMMA SetFoldIsIter ==
  ASSUME NEW v, NEW D
  PROVE  FoldOf(v, D) = SetIterOf(v, D)[D]
BY DEF FoldOf, SetIterOf, FoldSet, MapThenFoldSet

\* The subsets of up to n elements
UpTo(D, n) == {s \in SUBSET D : Cardinality(s) <= n}

LEMMA Chosen ==
  ASSUME NEW D, IsFiniteSet(D), NEW s \in SUBSET D, s # {}
  PROVE  LET c == CHOOSE x \in s : TRUE
         IN  c \in s /\ IsFiniteSet(s) /\ Cardinality(s) \in Nat /\ Cardinality(s) # 0
             /\ Cardinality(s \ {c}) = Cardinality(s) - 1 /\ s \ {c} \in SUBSET D
<1> DEFINE c == CHOOSE x \in s : TRUE
<1>1. c \in s
  OBVIOUS
<1> HIDE DEF c
<1>2. IsFiniteSet(s) /\ Cardinality(s) \in Nat
  BY FS_Subset, FS_CardinalityType
<1>3. Cardinality(s \ {c}) = Cardinality(s) - 1
  BY <1>1, <1>2, FS_RemoveElement
<1>4. Cardinality(s) # 0
  BY <1>2, FS_EmptySet
<1>5. QED BY <1>1, <1>2, <1>3, <1>4 DEF c

LEMMA SetIterExists ==
  ASSUME NEW D, IsFiniteSet(D), NEW v
  PROVE  \A n \in Nat : \E it : SetIter(it, v, UpTo(D, n))
<1> DEFINE S == {n \in Nat : \E it : SetIter(it, v, UpTo(D, n))}
           C(s) == CHOOSE x \in s : TRUE
<1>0. \A s \in SUBSET D : s # {} =>
         /\ C(s) \in s /\ Cardinality(s) \in Nat /\ Cardinality(s) # 0
         /\ Cardinality(s \ {C(s)}) = Cardinality(s) - 1 /\ s \ {C(s)} \in SUBSET D
  BY Chosen
<1>1. 0 \in S
  <2> DEFINE it == [s \in UpTo(D, 0) |-> v]
  <2>1. ASSUME NEW s \in UpTo(D, 0) PROVE s = {}
    <3>1. s \in SUBSET D /\ Cardinality(s) <= 0
      BY DEF UpTo
    <3>2. s # {} => Cardinality(s) \in Nat /\ Cardinality(s) # 0
      BY <1>0, <3>1
    <3>3. QED BY <3>1, <3>2
  <2>2. SetIter(it, v, UpTo(D, 0))
    BY <2>1 DEF SetIter
  <2>3. QED BY <2>2
<1>2. ASSUME NEW n \in S \cap Nat PROVE n + 1 \in S
  <2>1. PICK it : SetIter(it, v, UpTo(D, n))
    OBVIOUS
  <2> DEFINE Next(f, s) == IF s = {} THEN v ELSE Op(f[s \ {C(s)}], C(s))
             jt == [s \in UpTo(D, n + 1) |-> Next(it, s)]
  <2>2. \A s \in UpTo(D, n) : it[s] = Next(it, s)
    BY <2>1 DEF SetIter
  <2>3. ASSUME NEW s \in UpTo(D, n + 1) PROVE jt[s] = Next(jt, s)
    <3>1. CASE s = {}
      BY <3>1
    <3>2. CASE s # {}
      <4>1. s \ {C(s)} \in UpTo(D, n) /\ s \ {C(s)} \in UpTo(D, n + 1)
        BY <1>0, <3>2 DEF UpTo
      <4>2. jt[s \ {C(s)}] = it[s \ {C(s)}]
        BY <2>2, <4>1
      <4>3. jt[s] = Op(it[s \ {C(s)}], C(s))
        BY <3>2
      <4> HIDE DEF jt, C
      <4>4. QED BY <3>2, <4>2, <4>3
    <3>3. QED BY <3>1, <3>2
  <2>4. jt = [s \in UpTo(D, n + 1) |-> Next(jt, s)]
    <3>1. jt = [s \in UpTo(D, n + 1) |-> jt[s]]
      OBVIOUS
    <3> HIDE DEF jt
    <3>2. QED BY <2>3, <3>1
  <2>5. SetIter(jt, v, UpTo(D, n + 1))
    <3> HIDE DEF jt
    <3>1. QED BY <2>4 DEF SetIter
  <2>6. QED BY <2>5
<1> HIDE DEF S
<1>3. \A n \in Nat : n \in S
  BY <1>1, <1>2, Induct
<1>4. QED BY <1>3 DEF S

\* It is the fold of some sequence of the elements: it passes through values of
\* which each is made of the one before it with an element of the set.
Thread(g, n, v, D) ==
  g[0] = v /\ \A m \in 0..(n - 1) : \E x \in D : g[m + 1] = Op(g[m], x)
SetPasses(v, D) == \E n \in Nat : \E g : Thread(g, n, v, D) /\ FoldOf(v, D) = g[n]
LEMMA SetFoldPasses ==
  ASSUME NEW v, NEW D, IsFiniteSet(D)
  PROVE  SetPasses(v, D)
<1> DEFINE it == SetIterOf(v, D)
           C(s) == CHOOSE x \in s : TRUE
           S == {n \in Nat : \A s \in SUBSET D : Cardinality(s) = n =>
                                 \E g : Thread(g, n, v, D) /\ it[s] = g[n]}
<1>0. \A s \in SUBSET D : s # {} =>
         /\ C(s) \in s /\ Cardinality(s) \in Nat /\ Cardinality(s) # 0
         /\ Cardinality(s \ {C(s)}) = Cardinality(s) - 1 /\ s \ {C(s)} \in SUBSET D
  BY Chosen
<1>1. SetIter(it, v, SUBSET D)
  <2>1. Cardinality(D) \in Nat
    BY FS_CardinalityType
  <2>2. \A s \in SUBSET D : Cardinality(s) <= Cardinality(D)
    BY FS_Subset
  <2>3. UpTo(D, Cardinality(D)) = SUBSET D
    BY <2>2 DEF UpTo
  <2>4. \E h : SetIter(h, v, SUBSET D)
    <3>1. \A n \in Nat : \E h : SetIter(h, v, UpTo(D, n))
      BY SetIterExists
    <3>2. QED BY <2>1, <2>3, <3>1
  <2>5. QED BY <2>4 DEF SetIter, SetIterOf
<1>h. FoldOf(v, D) = it[D]
  BY SetFoldIsIter
<1> HIDE DEF it
<1>2. \A s \in SUBSET D : it[s] = IF s = {} THEN v ELSE Op(it[s \ {C(s)}], C(s))
  BY <1>1 DEF SetIter
<1>3. 0 \in S
  <2>1. ASSUME NEW s \in SUBSET D, Cardinality(s) = 0
        PROVE  \E g : Thread(g, 0, v, D) /\ it[s] = g[0]
    <3> DEFINE g == [m \in {0} |-> v]
    <3>1. it[s] = v
      BY <1>0, <1>2, <2>1
    <3>2. Thread(g, 0, v, D)
      BY DEF Thread
    <3>3. QED BY <3>1, <3>2
  <2>2. QED BY <2>1
<1>4. ASSUME NEW n \in S \cap Nat PROVE n + 1 \in S
  <2>1. ASSUME NEW s \in SUBSET D, Cardinality(s) = n + 1
        PROVE  \E g : Thread(g, n + 1, v, D) /\ it[s] = g[n + 1]
    <3>1. s # {}
      BY <2>1, FS_EmptySet
    <3>2. C(s) \in D /\ s \ {C(s)} \in SUBSET D /\ Cardinality(s \ {C(s)}) = n
      BY <1>0, <2>1, <3>1
    <3>3. PICK g : Thread(g, n, v, D) /\ it[s \ {C(s)}] = g[n]
      BY <3>2
    <3> DEFINE h == [m \in 0..(n + 1) |-> IF m = n + 1 THEN Op(g[n], C(s)) ELSE g[m]]
    <3>4. it[s] = Op(g[n], C(s))
      BY <1>2, <3>1, <3>3
    <3> HIDE DEF C
    <3>5. h[n + 1] = Op(g[n], C(s)) /\ \A m \in 0..n : h[m] = g[m]
      OBVIOUS
    <3> HIDE DEF h
    <3>6. Thread(h, n + 1, v, D)
      <4>1. h[0] = v
        BY <3>3, <3>5 DEF Thread
      <4>2. ASSUME NEW m \in 0..((n + 1) - 1) PROVE \E x \in D : h[m + 1] = Op(h[m], x)
        <5>1. CASE m = n
          <6>1. h[n] = g[n]
            BY <3>5
          <6>2. QED BY <3>2, <3>5, <5>1, <6>1
        <5>2. CASE m # n
          <6>1. m \in 0..(n - 1) /\ m \in 0..n /\ m + 1 \in 0..n
            BY <5>2
          <6>2. h[m] = g[m] /\ h[m + 1] = g[m + 1]
            BY <3>5, <6>1
          <6>3. QED BY <3>3, <6>1, <6>2 DEF Thread
        <5>3. QED BY <5>1, <5>2
      <4>3. QED BY <4>1, <4>2 DEF Thread
    <3>7. QED BY <3>4, <3>5, <3>6
  <2>2. QED BY <2>1
<1>5. \A n \in Nat : n \in S
  <2> HIDE DEF S
  <2>1. QED BY <1>3, <1>4, Induct
<1>6. PICK g : Thread(g, Cardinality(D), v, D) /\ it[D] = g[Cardinality(D)]
  BY <1>5, FS_CardinalityType
<1>7. QED BY <1>6, <1>h, FS_CardinalityType DEF SetPasses
=============================================================================
