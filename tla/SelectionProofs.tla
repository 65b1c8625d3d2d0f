-------------------------- MODULE SelectionProofs ---------------------------
(***************************************************************************)
(* What holds of the two selections, for any number of sub-groups, keys,   *)
(* requests, sessions and reloads.                                         *)
(*                                                                         *)
(* Of SubGroups: the selector in use is made of the group as it is, the    *)
(* mutex of a selector is held by one request, in its rounds, and the      *)
(* turns are shared by weight, for any weights.                            *)
(*                                                                         *)
(* Of CacheHit: requests that met no fault and share a session are given   *)
(* one key, and the weight of a key is its base less the sessions that are *)
(* bound to it, for any weights and turns.                                 *)
(***************************************************************************)
EXTENDS SubGroupsProps, CacheHitProps, SequenceTheorems, FiniteSetTheorems, TLAPS

(***************************************************************************)
(* Sums.  Total folds over the set of sub-groups, one after another; Sums  *)
(* is the function behind it, on all sets of sub-groups.  What holds of a  *)
(* finite set when it holds of its smaller subsets holds of every one: a   *)
(* smallest exception, which there would be, is none.                      *)
(***************************************************************************)
Some(s) == CHOOSE x \in s : TRUE

AddsUp(g, w, D) == g = [s \in D |-> IF s = {} THEN 0 ELSE w[Some(s)] + g[s \ {Some(s)}]]

Sums(w) == CHOOSE g : AddsUp(g, w, SUBSET DOMAIN w)

LEMMA TotalIs ==
  ASSUME NEW w
  PROVE  Total(w) = Sums(w)[DOMAIN w]
BY DEF Total, MapThenSumSet, MapThenFoldSet, Sums, AddsUp, Some

LEMMA Smallest ==
  ASSUME NEW D, IsFiniteSet(D), NEW P,
         \A s \in SUBSET D : (\A u \in SUBSET s : u # s => u \in P) => s \in P
  PROVE  \A s \in SUBSET D : s \in P
<1> SUFFICES ASSUME NEW t \in SUBSET D, t \notin P PROVE FALSE
  OBVIOUS
<1> DEFINE T == {s \in SUBSET D : s \notin P}
<1>1. IsWellFoundedOn(StrictSubsetOrdering(D), FiniteSubsetsOf(D))
  BY FS_StrictSubsetOrderingWellFounded
<1>2. T \subseteq FiniteSubsetsOf(D) /\ T # {}
  BY FS_FiniteSubsetsOfFinite
<1>3. \E x \in T : \A y \in T : ~ (<<y, x>> \in StrictSubsetOrdering(D))
  <2> HIDE DEF T
  <2> QED BY <1>1, <1>2, WFMin
<1>4. PICK x \in T : \A y \in T : ~ (<<y, x>> \in StrictSubsetOrdering(D))
  BY <1>3
<1>5. \A u \in SUBSET x : u # x => u \in P
  BY <1>4 DEF StrictSubsetOrdering
<1> QED BY <1>4, <1>5

LEMMA SomeIsIn == \A s : s # {} => Some(s) \in s
BY DEF Some

LEMMA SumsExist ==
  ASSUME NEW D, IsFiniteSet(D), NEW w
  PROVE  \E g : AddsUp(g, w, SUBSET D)
<1> DEFINE Level(n) == {u \in SUBSET D : Cardinality(u) <= n}
           P == {s \in SUBSET D : \E g : AddsUp(g, w, Level(Cardinality(s)))}
<1>1. \A u \in SUBSET D : Cardinality(u) \in Nat /\ (Cardinality(u) = 0 <=> u = {})
  BY FS_Subset, FS_CardinalityType, FS_EmptySet
<1>2. ASSUME NEW s \in SUBSET D, \A u \in SUBSET s : u # s => u \in P
      PROVE  s \in P
  <2>1. CASE s = {}
    <3>1. Level(Cardinality(s)) = {{}}
      BY <1>1, <2>1
    <3>2. AddsUp([u \in {{}} |-> 0], w, {{}})
      BY DEF AddsUp
    <3> QED BY <3>1, <3>2
  <2>2. CASE s # {}
    <3>1. PICK x \in s : TRUE
      BY <2>2
    <3> DEFINE n == Cardinality(s \ {x})
    <3>2. Cardinality(s) = n + 1 /\ n \in Nat
      BY <1>1, FS_RemoveElement, FS_Subset
    <3>3. s \ {x} \in P
      BY <1>2
    <3>4. PICK g : AddsUp(g, w, Level(n))
      BY <3>3
    <3> HIDE DEF n
    <3> DEFINE h == [u \in Level(n + 1) |-> IF u = {} THEN 0 ELSE w[Some(u)] + g[u \ {Some(u)}]]
    <3>5. \A u \in Level(n + 1) : u # {} => u \ {Some(u)} \in Level(n)
      <4> SUFFICES ASSUME NEW u \in Level(n + 1), u # {} PROVE u \ {Some(u)} \in Level(n)
        OBVIOUS
      <4>1. Some(u) \in u /\ IsFiniteSet(u)
        BY SomeIsIn, FS_Subset
      <4>2. Cardinality(u \ {Some(u)}) = Cardinality(u) - 1
        BY <4>1, FS_RemoveElement
      <4> QED BY <1>1, <3>2, <4>2
    <3>6. \A v \in Level(n) : g[v] = (IF v = {} THEN 0 ELSE w[Some(v)] + g[v \ {Some(v)}])
      BY <3>4 DEF AddsUp
    <3>7. \A v \in Level(n) : v \in Level(n + 1)
      BY <1>1, <3>2
    <3> HIDE DEF Level
    <3>8. \A v \in Level(n) : h[v] = g[v]
      BY <3>6, <3>7
    <3>9. \A u \in Level(n + 1) : h[u] = IF u = {} THEN 0 ELSE w[Some(u)] + h[u \ {Some(u)}]
      BY <3>5, <3>8
    <3>10. h = [u \in Level(n + 1) |-> IF u = {} THEN 0 ELSE w[Some(u)] + h[u \ {Some(u)}]]
      <4>1. DOMAIN h = Level(n + 1) /\ h = [u \in DOMAIN h |-> h[u]]
        OBVIOUS
      <4> HIDE DEF h
      <4> QED BY <3>9, <4>1
    <3> HIDE DEF h
    <3> QED BY <3>2, <3>10 DEF AddsUp
  <2> QED BY <2>1, <2>2
<1>3. D \in P
  <2> HIDE DEF P
  <2> QED BY <1>2, Smallest
<1>4. Level(Cardinality(D)) = SUBSET D
  BY FS_Subset
<1> QED BY <1>3, <1>4

Numbers(w) == IsFiniteSet(DOMAIN w) /\ \A i \in DOMAIN w : w[i] \in Int

LEMMA SumsAdd ==
  ASSUME NEW w, IsFiniteSet(DOMAIN w), NEW s \in SUBSET DOMAIN w
  PROVE  Sums(w)[s] = IF s = {} THEN 0 ELSE w[Some(s)] + Sums(w)[s \ {Some(s)}]
<1>1. AddsUp(Sums(w), w, SUBSET DOMAIN w)
  BY SumsExist DEF Sums
<1> QED BY <1>1 DEF AddsUp

\* The order of the elements does not matter.
LEMMA SumsTake ==
  ASSUME NEW w, Numbers(w), NEW s \in SUBSET DOMAIN w
  PROVE  /\ Sums(w)[s] \in Int
         /\ \A x \in s : Sums(w)[s] = w[x] + Sums(w)[s \ {x}]
<1> DEFINE D == DOMAIN w
           S == Sums(w)
           P == {t \in SUBSET D : S[t] \in Int /\ \A x \in t : S[t] = w[x] + S[t \ {x}]}
<1>1. IsFiniteSet(D) /\ \A i \in D : w[i] \in Int
  BY DEF Numbers
<1>2. \A t \in SUBSET D : S[t] = IF t = {} THEN 0 ELSE w[Some(t)] + S[t \ {Some(t)}]
  BY <1>1, SumsAdd
<1> HIDE DEF S, D
<1>3. ASSUME NEW t \in SUBSET D, \A u \in SUBSET t : u # t => u \in P
      PROVE  t \in P
  <2>1. CASE t = {}
    <3>1. S[t] = 0
      BY <1>2, <2>1
    <3> QED BY <2>1, <3>1
  <2>2. CASE t # {}
    <3> DEFINE y == Some(t)
    <3>1. y \in t /\ S[t] = w[y] + S[t \ {y}] /\ w[y] \in Int
      BY <1>1, <1>2, <2>2, SomeIsIn
    <3> HIDE DEF y
    <3>2. t \ {y} \in P
      BY <1>3, <3>1
    <3>3. S[t] \in Int
      BY <3>1, <3>2
    <3>4. ASSUME NEW x \in t PROVE S[t] = w[x] + S[t \ {x}]
      <4>1. CASE x = y
        BY <3>1, <4>1
      <4>2. CASE x # y
        <5>1. t \ {x} \in P /\ (t \ {x}) \ {y} \in P
          <6>1. t \ {x} \in SUBSET t /\ t \ {x} # t /\ (t \ {x}) \ {y} \in SUBSET t /\ (t \ {x}) \ {y} # t
            BY <3>1
          <6> HIDE DEF P
          <6> QED BY <1>3, <6>1
        <5>2. S[t \ {x}] = w[y] + S[(t \ {x}) \ {y}]
          BY <3>1, <4>2, <5>1
        <5>3. S[t \ {y}] = w[x] + S[(t \ {y}) \ {x}]
          BY <3>2, <4>2
        <5>4. S[(t \ {x}) \ {y}] = S[(t \ {y}) \ {x}]
          <6>1. (t \ {x}) \ {y} = (t \ {y}) \ {x}
            OBVIOUS
          <6> QED BY <6>1
        <5>5. w[x] \in Int /\ S[(t \ {x}) \ {y}] \in Int
          BY <1>1, <5>1
        <5> QED BY <3>1, <5>2, <5>3, <5>4, <5>5
      <4> QED BY <4>1, <4>2
    <3> QED BY <3>3, <3>4
  <2> QED BY <2>1, <2>2
<1>4. \A t \in SUBSET D : t \in P
  <2> HIDE DEF P
  <2> QED BY <1>1, <1>3, Smallest
<1> QED BY <1>4 DEF S, D

\* Sums of numbers that agree are the same.
LEMMA SumsSame ==
  ASSUME NEW w, Numbers(w), NEW v, Numbers(v), NEW T \in SUBSET DOMAIN w,
         T \in SUBSET DOMAIN v, \A i \in T : w[i] = v[i]
  PROVE  Sums(w)[T] = Sums(v)[T]
<1> DEFINE P == {t \in SUBSET T : Sums(w)[t] = Sums(v)[t]}
<1>1. ASSUME NEW t \in SUBSET T, \A u \in SUBSET t : u # t => u \in P
      PROVE  t \in P
  <2>1. CASE t = {}
    <3>1. Sums(w)[t] = 0 /\ Sums(v)[t] = 0
      BY <2>1, SumsAdd DEF Numbers
    <3> QED BY <3>1
  <2>2. CASE t # {}
    <3>1. PICK x \in t : TRUE
      BY <2>2
    <3>2. Sums(w)[t \ {x}] = Sums(v)[t \ {x}]
      BY <1>1
    <3>3. Sums(w)[t] = w[x] + Sums(w)[t \ {x}] /\ Sums(v)[t] = v[x] + Sums(v)[t \ {x}]
      BY SumsTake
    <3> QED BY <3>2, <3>3
  <2> QED BY <2>1, <2>2
<1>2. IsFiniteSet(T)
  BY FS_Subset DEF Numbers
<1>3. T \in P
  <2> HIDE DEF P
  <2> QED BY <1>1, <1>2, Smallest
<1> QED BY <1>3

LEMMA SumsPlus ==
  ASSUME NEW w, Numbers(w), NEW v, Numbers(v), NEW g, Numbers(g),
         DOMAIN v = DOMAIN w, DOMAIN g = DOMAIN w,
         \A i \in DOMAIN w : g[i] = w[i] + v[i],
         NEW T \in SUBSET DOMAIN w
  PROVE  Sums(g)[T] = Sums(w)[T] + Sums(v)[T]
<1> DEFINE P == {t \in SUBSET T : Sums(g)[t] = Sums(w)[t] + Sums(v)[t]}
<1>1. ASSUME NEW t \in SUBSET T, \A u \in SUBSET t : u # t => u \in P
      PROVE  t \in P
  <2>1. CASE t = {}
    <3>1. Sums(w)[t] = 0 /\ Sums(v)[t] = 0 /\ Sums(g)[t] = 0
      BY <2>1, SumsAdd DEF Numbers
    <3> QED BY <3>1
  <2>2. CASE t # {}
    <3>1. PICK x \in t : TRUE
      BY <2>2
    <3>2. Sums(g)[t \ {x}] = Sums(w)[t \ {x}] + Sums(v)[t \ {x}]
      BY <1>1
    <3>3. /\ Sums(w)[t] = w[x] + Sums(w)[t \ {x}]
          /\ Sums(v)[t] = v[x] + Sums(v)[t \ {x}]
          /\ Sums(g)[t] = g[x] + Sums(g)[t \ {x}]
      BY SumsTake
    <3>4. w[x] \in Int /\ v[x] \in Int /\ g[x] = w[x] + v[x]
      BY DEF Numbers
    <3>5. Sums(w)[t \ {x}] \in Int /\ Sums(v)[t \ {x}] \in Int
      BY SumsTake
    <3> QED BY <3>2, <3>3, <3>4, <3>5
  <2> QED BY <2>1, <2>2
<1>2. IsFiniteSet(T)
  BY FS_Subset DEF Numbers
<1>3. T \in P
  <2> HIDE DEF P
  <2> QED BY <1>1, <1>2, Smallest
<1> QED BY <1>3

LEMMA SumsAtMost ==
  ASSUME NEW w, Numbers(w), NEW T \in SUBSET DOMAIN w,
         NEW b \in Int, \A i \in T : w[i] <= b
  PROVE  Sums(w)[T] <= Cardinality(T) * b
<1> DEFINE P == {t \in SUBSET T : Sums(w)[t] <= Cardinality(t) * b}
<1>1. ASSUME NEW t \in SUBSET T, \A u \in SUBSET t : u # t => u \in P
      PROVE  t \in P
  <2>0. IsFiniteSet(t)
    BY FS_Subset DEF Numbers
  <2>1. CASE t = {}
    <3>1. Sums(w)[t] = 0 /\ Cardinality(t) = 0
      BY <2>1, SumsAdd, FS_EmptySet DEF Numbers
    <3> QED BY <3>1
  <2>2. CASE t # {}
    <3>1. PICK x \in t : TRUE
      BY <2>2
    <3> DEFINE c == Cardinality(t \ {x})
    <3>2. Sums(w)[t \ {x}] <= c * b
      BY <1>1
    <3>3. /\ Sums(w)[t] = w[x] + Sums(w)[t \ {x}]
          /\ Sums(w)[t \ {x}] \in Int
      <4>1. t \in SUBSET DOMAIN w /\ t \ {x} \in SUBSET DOMAIN w
        OBVIOUS
      <4> QED BY <4>1, SumsTake
    <3>4. w[x] \in Int /\ w[x] <= b
      BY DEF Numbers
    <3>5. Cardinality(t) = c + 1 /\ c \in Nat
      <4>1. IsFiniteSet(t \ {x}) /\ c = Cardinality(t) - 1
        BY <2>0, FS_RemoveElement
      <4>2. Cardinality(t) \in Nat /\ c \in Nat
        BY <2>0, <4>1, FS_CardinalityType
      <4> QED BY <4>1, <4>2
    <3> HIDE DEF c
    <3>6. (c + 1) * b = c * b + b /\ c * b \in Int
      BY <3>5
    <3>7. Sums(w)[t] <= (c + 1) * b
      BY <3>2, <3>3, <3>4, <3>6
    <3> QED BY <3>5, <3>7
  <2> QED BY <2>1, <2>2
<1>2. IsFiniteSet(T)
  BY FS_Subset DEF Numbers
<1>3. T \in P
  <2> HIDE DEF P
  <2> QED BY <1>1, <1>2, Smallest
<1> QED BY <1>3

LEMMA SumsWhole ==
  ASSUME NEW w, Numbers(w), NEW U \in SUBSET DOMAIN w, \A i \in U : w[i] >= 0,
         NEW T \in SUBSET U
  PROVE  Sums(w)[T] <= Sums(w)[U]
<1> DEFINE P == {t \in SUBSET U : Sums(w)[U \ t] <= Sums(w)[U]}
<1>1. ASSUME NEW t \in SUBSET U, \A u \in SUBSET t : u # t => u \in P
      PROVE  t \in P
  <2>1. CASE t = {}
    <3>1. U \ t = U /\ Sums(w)[U] \in Int
      BY <2>1, SumsTake
    <3> QED BY <3>1
  <2>2. CASE t # {}
    <3>1. PICK x \in t : TRUE
      BY <2>2
    <3> DEFINE r == U \ (t \ {x})
    <3>2. Sums(w)[r] <= Sums(w)[U]
      BY <1>1
    <3>3. x \in r /\ r \in SUBSET DOMAIN w /\ U \ t = r \ {x}
      OBVIOUS
    <3> HIDE DEF r
    <3>4. Sums(w)[r] = w[x] + Sums(w)[r \ {x}]
      BY <3>3, SumsTake
    <3>5. Sums(w)[r] \in Int /\ Sums(w)[r \ {x}] \in Int /\ Sums(w)[U] \in Int
      BY <3>3, SumsTake
    <3>6. w[x] \in Int /\ w[x] >= 0
      BY DEF Numbers
    <3>7. Sums(w)[r \ {x}] <= Sums(w)[U]
      BY <3>2, <3>4, <3>5, <3>6
    <3>8. Sums(w)[U \ t] <= Sums(w)[U]
      BY <3>3, <3>7
    <3> QED BY <3>8
  <2> QED BY <2>1, <2>2
<1>2. IsFiniteSet(U)
  BY FS_Subset DEF Numbers
<1>3. U \ T \in P
  <2> HIDE DEF P
  <2> QED BY <1>1, <1>2, Smallest
<1>4. U \ (U \ T) = T
  OBVIOUS
<1> QED BY <1>3, <1>4

\* One of finitely many numbers is the greatest.
LEMMA Greatest ==
  ASSUME NEW w, Numbers(w), NEW T \in SUBSET DOMAIN w, T # {}
  PROVE  \E i \in T : \A j \in T : w[i] >= w[j]
<1> DEFINE P == {t \in SUBSET T : t # {} => \E i \in t : \A j \in t : w[i] >= w[j]}
<1>0. \A i \in T : w[i] \in Int
  BY DEF Numbers
<1>1. ASSUME NEW t \in SUBSET T, \A u \in SUBSET t : u # t => u \in P
      PROVE  t \in P
  <2> SUFFICES ASSUME t # {} PROVE \E i \in t : \A j \in t : w[i] >= w[j]
    OBVIOUS
  <2>1. PICK x \in t : TRUE
    OBVIOUS
  <2>2. CASE t = {x}
    BY <1>0, <2>2
  <2>3. CASE t # {x}
    <3>1. PICK i \in t \ {x} : \A j \in t \ {x} : w[i] >= w[j]
      <4>1. t \ {x} \in SUBSET t /\ t \ {x} # t /\ t \ {x} # {}
        BY <2>3
      <4> QED BY <1>1, <4>1
    <3>2. CASE w[i] >= w[x]
      BY <1>0, <3>1, <3>2
    <3>3. CASE w[x] >= w[i]
      BY <1>0, <3>1, <3>3
    <3> QED BY <1>0, <3>2, <3>3
  <2> QED BY <2>2, <2>3
<1>2. IsFiniteSet(T)
  BY FS_Subset DEF Numbers
<1>3. T \in P
  <2> HIDE DEF P
  <2> QED BY <1>1, <1>2, Smallest
<1> QED BY <1>3

LEMMA Least ==
  ASSUME NEW T, IsFiniteSet(T), T \subseteq Int, T # {}
  PROVE  Min(T) \in T /\ \A j \in T : Min(T) <= j
<1> DEFINE w == [i \in T |-> -i]
<1>1. Numbers(w) /\ DOMAIN w = T /\ \A i \in T : w[i] = -i
  BY DEF Numbers
<1> HIDE DEF w
<1>2. \E i \in T : \A j \in T : w[i] >= w[j]
  BY <1>1, Greatest
<1>3. \E i \in T : \A j \in T : i <= j
  <2>1. PICK i \in T : \A j \in T : w[i] >= w[j]
    BY <1>2
  <2>2. \A j \in T : i <= j
    <3> SUFFICES ASSUME NEW j \in T PROVE i <= j
      OBVIOUS
    <3>1. w[i] = -i /\ w[j] = -j /\ w[i] >= w[j] /\ i \in Int /\ j \in Int
      BY <1>1, <2>1
    <3> QED BY <3>1
  <2> QED BY <2>2
<1> QED BY <1>3 DEF Min

(***************************************************************************)
(* Rounds.  Nobody is ahead by a turn, because the one that is picked is   *)
(* owed something.  Who was not picked is owed no more than who was: so    *)
(* for any set of sub-groups, what they are behind together is bounded by  *)
(* what they and the one picked were behind, and the fewer, the more each  *)
(* may be.                                                                 *)
(***************************************************************************)
Share(W, j)  == (W + j - 1) \div j
Shares(n, W) == [j \in 2 .. n |-> Share(W, j)]

\* How far k sub-groups of n may be behind on the average.
Lag(n, W, k) == Sums(Shares(n, W))[(k + 1) .. n]

Weighing(w) == Numbers(w) /\ DOMAIN w # {} /\ \A i \in DOMAIN w : w[i] \in Nat \ {0}

Whole(w) == Sums(w)[DOMAIN w]

Balanced(w, c) ==
  /\ Numbers(c) /\ DOMAIN c = DOMAIN w
  /\ Whole(c) = 0
  /\ \A i \in DOMAIN w : c[i] > -Whole(w)
  /\ \A T \in SUBSET DOMAIN w : T # {} =>
       Sums(c)[T] <= Cardinality(T) * Lag(Cardinality(DOMAIN w), Whole(w), Cardinality(T))

LEMMA ShareIsEnough ==
  ASSUME NEW W \in Nat, NEW j \in Nat \ {0}
  PROVE  Share(W, j) \in Nat /\ j * Share(W, j) >= W
BY DEF Share

LEMMA SharesAreNumbers ==
  ASSUME NEW n \in Nat, NEW W \in Nat
  PROVE  /\ Numbers(Shares(n, W)) /\ DOMAIN Shares(n, W) = 2 .. n
         /\ \A j \in 2 .. n : Shares(n, W)[j] = Share(W, j) /\ Shares(n, W)[j] >= 0
<1>1. IsFiniteSet(2 .. n)
  BY FS_Interval
<1>2. \A j \in 2 .. n : Share(W, j) \in Nat
  BY ShareIsEnough
<1> QED BY <1>1, <1>2 DEF Shares, Numbers

LEMMA LagGrows ==
  ASSUME NEW n \in Nat, NEW W \in Nat, NEW k \in 1 .. n
  PROVE  /\ Lag(n, W, k) \in Nat
         /\ k < n => Lag(n, W, k) = Share(W, k + 1) + Lag(n, W, k + 1)
<1> DEFINE f == Shares(n, W)
<1>1. /\ Numbers(f) /\ DOMAIN f = 2 .. n
      /\ \A j \in 2 .. n : f[j] = Share(W, j) /\ f[j] >= 0
  BY SharesAreNumbers
<1> HIDE DEF f
<1>2. (k + 1) .. n \in SUBSET DOMAIN f
  BY <1>1
<1>3. Sums(f)[(k + 1) .. n] \in Int
  BY <1>1, <1>2, SumsTake
<1>4. Sums(f)[{}] <= Sums(f)[(k + 1) .. n] /\ Sums(f)[{}] = 0
  BY <1>1, <1>2, SumsWhole, SumsAdd DEF Numbers
<1>5. Lag(n, W, k) \in Nat
  BY <1>3, <1>4 DEF Lag, f
<1>6. ASSUME k < n PROVE Lag(n, W, k) = Share(W, k + 1) + Lag(n, W, k + 1)
  <2>1. k + 1 \in (k + 1) .. n /\ ((k + 1) .. n) \ {k + 1} = ((k + 1) + 1) .. n
    BY <1>6
  <2>2. Sums(f)[(k + 1) .. n] = f[k + 1] + Sums(f)[((k + 1) .. n) \ {k + 1}]
    <3> DEFINE T == (k + 1) .. n
               x == k + 1
    <3>1. T \in SUBSET DOMAIN f /\ x \in T
      BY <1>2, <2>1
    <3> HIDE DEF T, x
    <3>2. Sums(f)[T] = f[x] + Sums(f)[T \ {x}]
      BY <1>1, <3>1, SumsTake
    <3> QED BY <3>2 DEF T, x
  <2>3. f[k + 1] = Share(W, k + 1)
    BY <1>1, <1>6
  <2> QED BY <2>1, <2>2, <2>3 DEF Lag, f
<1> QED BY <1>5, <1>6

LEMMA WholeIsPositive ==
  ASSUME NEW w, Weighing(w)
  PROVE  Whole(w) \in Nat \ {0} /\ \A T \in SUBSET DOMAIN w : Sums(w)[T] <= Whole(w)
<1>1. \A T \in SUBSET DOMAIN w : Sums(w)[T] <= Whole(w)
  BY SumsWhole DEF Weighing, Whole
<1>2. PICK i \in DOMAIN w : TRUE
  BY DEF Weighing
<1>3. Sums(w)[{i}] = w[i] + Sums(w)[{}] /\ Sums(w)[{}] = 0
  <2>1. {i} \in SUBSET DOMAIN w /\ {} \in SUBSET DOMAIN w /\ {i} \ {i} = {}
    OBVIOUS
  <2>2. Numbers(w) /\ IsFiniteSet(DOMAIN w)
    BY DEF Weighing, Numbers
  <2>3. Sums(w)[{i}] = w[i] + Sums(w)[{i} \ {i}]
    BY <2>1, <2>2, SumsTake
  <2>4. Sums(w)[{}] = 0
    BY <2>1, <2>2, SumsAdd
  <2> QED BY <2>1, <2>3, <2>4
<1>4. w[i] \in Nat \ {0} /\ Whole(w) \in Int
  BY SumsTake DEF Weighing, Whole
<1> QED BY <1>1, <1>3, <1>4

LEMMA Zeroes ==
  ASSUME NEW w, Weighing(w), NEW c, DOMAIN c = DOMAIN w, \A i \in DOMAIN w : c[i] = 0
  PROVE  Balanced(w, c)
<1>1. Numbers(c) /\ IsFiniteSet(DOMAIN w)
  BY DEF Numbers, Weighing
<1>2. ASSUME NEW T \in SUBSET DOMAIN w PROVE Sums(c)[T] = 0
  <2>0. T \in SUBSET DOMAIN c /\ {} \in SUBSET T /\ {} \in SUBSET DOMAIN c
        /\ \A i \in T : c[i] >= 0 /\ c[i] <= 0
    OBVIOUS
  <2>1. Sums(c)[{}] <= Sums(c)[T] /\ Sums(c)[{}] = 0
    <3>1. Sums(c)[{}] = 0
      BY <1>1, <2>0, SumsAdd
    <3>2. Sums(c)[{}] <= Sums(c)[T]
      BY <1>1, <2>0, SumsWhole
    <3> QED BY <3>1, <3>2
  <2>2. Sums(c)[T] <= Cardinality(T) * 0
    BY <1>1, <2>0, SumsAtMost
  <2>3. Sums(c)[T] \in Int /\ Cardinality(T) \in Nat
    BY <1>1, SumsTake, FS_Subset, FS_CardinalityType
  <2> QED BY <2>1, <2>2, <2>3
<1>3. Whole(w) \in Nat \ {0}
  BY WholeIsPositive
<1>4. ASSUME NEW T \in SUBSET DOMAIN w, T # {}
      PROVE  Sums(c)[T] <= Cardinality(T) * Lag(Cardinality(DOMAIN w), Whole(w), Cardinality(T))
  <2>1. Cardinality(DOMAIN w) \in Nat /\ Cardinality(T) \in 1 .. Cardinality(DOMAIN w)
    BY <1>1, <1>4, FS_Subset, FS_CardinalityType, FS_EmptySet
  <2>2. Lag(Cardinality(DOMAIN w), Whole(w), Cardinality(T)) \in Nat
    BY <1>3, <2>1, LagGrows
  <2>3. \A a, b \in Nat : 0 <= a * b
    OBVIOUS
  <2>4. Sums(c)[T] = 0
    BY <1>2
  <2> QED BY <2>1, <2>2, <2>3, <2>4
<1> QED BY <1>1, <1>2, <1>3, <1>4 DEF Balanced, Whole

\* The greatest grows least: the round that picks p leaves the turns balanced.
LEMMA RoundBalances ==
  ASSUME NEW w, Weighing(w), NEW c, Balanced(w, c),
         NEW g, Numbers(g), DOMAIN g = DOMAIN w, \A i \in DOMAIN w : g[i] = c[i] + w[i],
         NEW p \in DOMAIN w, \A i \in DOMAIN w : g[p] >= g[i],
         NEW d, DOMAIN d = DOMAIN w, d[p] = g[p] - Whole(w),
         \A i \in DOMAIN w : i # p => d[i] = g[i]
  PROVE  Balanced(w, d)
<1> DEFINE D == DOMAIN w
           n == Cardinality(D)
           W == Whole(w)
<1>1. /\ Numbers(w) /\ Numbers(c) /\ DOMAIN c = D /\ IsFiniteSet(D)
      /\ \A i \in D : w[i] \in Nat \ {0} /\ c[i] \in Int /\ g[i] \in Int
  BY DEF Weighing, Balanced, Numbers
<1>2. W \in Nat \ {0} /\ \A T \in SUBSET D : Sums(w)[T] <= W
  BY WholeIsPositive
<1>3. Numbers(d)
  <2>1. \A i \in D : d[i] \in Int
    BY <1>1, <1>2
  <2> QED BY <1>1, <2>1 DEF Numbers
<1>4. \A T \in SUBSET D : Sums(g)[T] = Sums(c)[T] + Sums(w)[T]
  <2>1. \A i \in DOMAIN c : g[i] = c[i] + w[i]
    BY <1>1
  <2> QED BY <1>1, <2>1, SumsPlus
<1>5. \A T \in SUBSET D : Sums(c)[T] \in Int /\ Sums(w)[T] \in Int /\ Sums(g)[T] \in Int
  BY <1>1, SumsTake
<1>13. \A T \in SUBSET D : \A x \in T : Sums(g)[T] = g[x] + Sums(g)[T \ {x}]
  <2> SUFFICES ASSUME NEW T \in SUBSET D, NEW x \in T
               PROVE  Sums(g)[T] = g[x] + Sums(g)[T \ {x}]
    OBVIOUS
  <2>1. T \in SUBSET DOMAIN g
    OBVIOUS
  <2> QED BY <2>1, SumsTake
<1>14. \A T \in SUBSET D : \A x \in T : Sums(d)[T] = d[x] + Sums(d)[T \ {x}]
  <2> SUFFICES ASSUME NEW T \in SUBSET D, NEW x \in T
               PROVE  Sums(d)[T] = d[x] + Sums(d)[T \ {x}]
    OBVIOUS
  <2>1. T \in SUBSET DOMAIN d
    OBVIOUS
  <2> HIDE DEF D, n, W
  <2> QED BY <1>3, <2>1, SumsTake
<1>6. \A T \in SUBSET D : p \notin T => Sums(d)[T] = Sums(g)[T]
  <2> SUFFICES ASSUME NEW T \in SUBSET D, p \notin T PROVE Sums(d)[T] = Sums(g)[T]
    OBVIOUS
  <2>1. T \in SUBSET DOMAIN d /\ T \in SUBSET DOMAIN g /\ \A i \in T : d[i] = g[i]
    OBVIOUS
  <2> QED BY <1>3, <2>1, SumsSame
<1>7. \A T \in SUBSET D : p \in T => Sums(d)[T] = Sums(g)[T] - W
  <2> SUFFICES ASSUME NEW T \in SUBSET D, p \in T PROVE Sums(d)[T] = Sums(g)[T] - W
    OBVIOUS
  <2>1. T \in SUBSET DOMAIN d /\ T \in SUBSET DOMAIN g
    OBVIOUS
  <2>2. Sums(d)[T] = d[p] + Sums(d)[T \ {p}]
    BY <1>14
  <2>3. Sums(g)[T] = g[p] + Sums(g)[T \ {p}]
    BY <2>1, SumsTake
  <2>4. Sums(d)[T \ {p}] = Sums(g)[T \ {p}] /\ Sums(g)[T \ {p}] \in Int
    BY <1>5, <1>6
  <2> QED BY <1>1, <1>2, <2>2, <2>3, <2>4
<1>8. Whole(c) = 0 /\ (\A i \in D : c[i] > -W)
      /\ \A T \in SUBSET D : T # {} => Sums(c)[T] <= Cardinality(T) * Lag(n, W, Cardinality(T))
  BY DEF Balanced
<1>9. Sums(g)[D] = W /\ Whole(d) = 0
  <2>1. Sums(g)[D] = Sums(c)[D] + Sums(w)[D]
    BY <1>4
  <2>2. Sums(g)[D] = W
    BY <1>1, <1>2, <1>8, <2>1 DEF Whole
  <2>3. Sums(d)[D] = Sums(g)[D] - W
    BY <1>7
  <2> QED BY <1>2, <2>2, <2>3 DEF Whole
<1>10. g[p] > 0
  <2> SUFFICES ASSUME ~(g[p] > 0) PROVE FALSE
    OBVIOUS
  <2>1. \A i \in D : g[i] <= 0
    BY <1>1
  <2>2. Sums(g)[D] <= n * 0
    <3>1. D \in SUBSET DOMAIN g /\ 0 \in Int
      OBVIOUS
    <3> QED BY <2>1, <3>1, SumsAtMost
  <2>3. n \in Nat
    BY <1>1, FS_CardinalityType
  <2> QED BY <1>2, <1>9, <2>2, <2>3
<1>11. \A i \in D : d[i] > -W
  <2> SUFFICES ASSUME NEW i \in D PROVE d[i] > -W
    OBVIOUS
  <2>1. CASE i = p
    BY <1>1, <1>2, <1>10, <2>1
  <2>2. CASE i # p
    BY <1>1, <1>2, <1>8, <2>2
  <2> QED BY <2>1, <2>2
<1>12. ASSUME NEW T \in SUBSET D, T # {}
       PROVE  Sums(d)[T] <= Cardinality(T) * Lag(n, W, Cardinality(T))
  <2> DEFINE k == Cardinality(T)
  <2>1. IsFiniteSet(T) /\ k \in 1 .. n /\ n \in Nat
    BY <1>1, <1>12, FS_Subset, FS_CardinalityType, FS_EmptySet
  <2>2. Lag(n, W, k) \in Nat
    BY <1>2, <2>1, LagGrows
  <2>3. k * Lag(n, W, k) \in Int
    BY <2>1, <2>2
  <2>4. CASE p \in T
    <3>1. Sums(d)[T] = Sums(c)[T] + Sums(w)[T] - W
      BY <1>2, <1>4, <1>5, <1>7, <2>4
    <3>2. Sums(w)[T] <= W /\ Sums(c)[T] <= k * Lag(n, W, k)
      BY <1>2, <1>8, <1>12
    <3>3. Sums(c)[T] \in Int /\ Sums(w)[T] \in Int
      BY <1>5
    <3> QED BY <1>2, <2>3, <3>1, <3>2, <3>3
  <2>5. CASE p \notin T
    <3> DEFINE U == T \cup {p}
               s == Sums(g)[T]
               u == Sums(g)[U]
               b == Lag(n, W, k + 1)
               h == Share(W, k + 1)
    <3>1. U \in SUBSET D /\ U # {} /\ U \ {p} = T /\ p \in U
      BY <2>5
    <3>2. Cardinality(U) = k + 1 /\ k + 1 \in 1 .. n
      <4>1. Cardinality(U) = k + 1
        BY <2>1, <2>5, FS_AddElement
      <4>2. Cardinality(U) <= n
        BY <1>1, <3>1, FS_Subset
      <4> QED BY <2>1, <4>1, <4>2
    <3>3. u = g[p] + s /\ s \in Int /\ u \in Int
      <4>1. U \in SUBSET DOMAIN g
        BY <3>1
      <4>2. Sums(g)[U] = g[p] + Sums(g)[U \ {p}]
        <5> HIDE DEF U
        <5> QED BY <1>13, <3>1
      <4>3. Sums(g)[T] \in Int /\ Sums(g)[U] \in Int
        BY <1>5, <3>1
      <4> QED BY <3>1, <4>2, <4>3
    <3>4. s <= k * g[p]
      <4>1. T \in SUBSET DOMAIN g /\ g[p] \in Int /\ \A i \in T : g[i] <= g[p]
        BY <1>1
      <4> QED BY <4>1, SumsAtMost
    <3>5. u <= (k + 1) * b + W
      <4>1. u = Sums(c)[U] + Sums(w)[U] /\ Sums(c)[U] \in Int /\ Sums(w)[U] \in Int
        BY <1>4, <1>5, <3>1
      <4>2. Sums(w)[U] <= W
        BY <1>2, <3>1
      <4>3. Sums(c)[U] <= Cardinality(U) * Lag(n, W, Cardinality(U))
        BY <1>8, <3>1
      <4>4. Sums(c)[U] <= (k + 1) * b
        BY <3>2, <4>3
      <4>5. b \in Nat
        BY <1>2, <2>1, <3>2, LagGrows
      <4>6. (k + 1) * b \in Int
        BY <2>1, <4>5
      <4> QED BY <1>2, <4>1, <4>2, <4>4, <4>6
    <3>6. b \in Nat /\ h \in Nat /\ (k + 1) * h >= W /\ Lag(n, W, k) = h + b
      <4>1. k < n /\ k + 1 \in Nat \ {0}
        BY <2>1, <3>2
      <4> QED BY <1>2, <2>1, <3>2, <4>1, LagGrows, ShareIsEnough
    <3>7. Sums(d)[T] = s
      BY <1>6, <2>5
    <3>8. k \in Nat \ {0} /\ g[p] \in Int
      BY <1>1, <2>1
    <3> HIDE DEF k, n, W, U, s, u, b, h
    <3>9. s <= k * (h + b)
      <4>1. (k + 1) * s <= k * u
        <5>1. (k + 1) * s = k * s + s /\ k * u = k * g[p] + k * s
          BY <3>3, <3>8
        <5>2. k * s \in Int /\ k * g[p] \in Int
          BY <3>3, <3>8
        <5> QED BY <3>3, <3>4, <5>1, <5>2
      <4>2. k * u <= k * ((k + 1) * b + (k + 1) * h)
        <5> DEFINE y == (k + 1) * b + (k + 1) * h
        <5>1. u <= y /\ y \in Int
          <6>1. (k + 1) * b \in Int /\ (k + 1) * h \in Int
            BY <3>6, <3>8
          <6> QED BY <1>2, <3>3, <3>5, <3>6, <6>1
        <5> HIDE DEF y
        <5>2. k * u <= k * y
          BY <3>3, <3>8, <5>1
        <5> QED BY <5>2 DEF y
      <4>3. k * ((k + 1) * b + (k + 1) * h) = (k + 1) * (k * (h + b))
        BY <3>6, <3>8
      <4> DEFINE y == k * (h + b)
      <4>4. y \in Int
        BY <3>6, <3>8
      <4> HIDE DEF y
      <4>5. (k + 1) * s <= (k + 1) * y
        <5>1. k * u \in Int /\ (k + 1) * s \in Int /\ (k + 1) * y \in Int
          BY <3>3, <3>8, <4>4
        <5> QED BY <4>1, <4>2, <4>3, <5>1 DEF y
      <4>6. s <= y
        BY <3>3, <3>8, <4>4, <4>5
      <4> QED BY <4>6 DEF y
    <3> QED BY <3>6, <3>7, <3>9 DEF k
  <2> QED BY <2>4, <2>5
<1> QED BY <1>3, <1>9, <1>11, <1>12 DEF Balanced

(***************************************************************************)
(* The inductive invariant.  A selector keeps the weights it was made of,  *)
(* and a request the selector it found, whichever is installed later.      *)
(***************************************************************************)
SelectorFields == {"weight", "cw", "holder"}
RequestFields  == {"pc", "group", "sel", "pick", "tried"}

IsSeq(q) == \E S : q \in Seq(S)

GoodSelector(s) ==
  /\ DOMAIN s = SelectorFields
  /\ s.weight \in Groups /\ s.weight # <<>>
  /\ Balanced(s.weight, s.cw)
  /\ s.holder \in Callers \cup {Nobody}

\* At l of its way, with n selectors made.
GoodRequest(l, n) ==
  /\ DOMAIN l = RequestFields
  /\ l.pc = "find" => l.group \in Groups
  /\ l.pc \in {"lock", "round", "check"} => l.sel \in 1 .. n

Shape ==
  /\ IsSeq(sels)
  /\ group \in Groups /\ rebuild \in BOOLEAN /\ current \in 0 .. Len(sels)
  /\ \A i \in 1 .. Len(sels) : GoodSelector(sels[i])
  /\ DOMAIN search = Callers /\ search = [r \in Callers |-> search[r]]
  /\ \A r \in Callers : GoodRequest(search[r], Len(sels))

\* Who is in the rounds of a selector.
InRounds(r, i) == search[r].pc \in {"round", "check"} /\ search[r].sel = i

HolderIsInRounds ==
  \A i \in 1 .. Len(sels), r \in Callers : sels[i].holder = r <=> InRounds(r, i)

SelInv == Shape /\ HolderIsInRounds /\ SelectorIsCurrent

(***************************************************************************)
(* Sequences and records                                                   *)
(***************************************************************************)
LEMMA Appended ==
  ASSUME NEW q, IsSeq(q), NEW s
  PROVE  /\ IsSeq(Append(q, s))
         /\ Len(q) \in Nat /\ Len(Append(q, s)) = Len(q) + 1
         /\ Append(q, s)[Len(q) + 1] = s
         /\ \A i \in 1 .. Len(q) : Append(q, s)[i] = q[i]
<1>1. PICK S : q \in Seq(S)
  BY DEF IsSeq
<1>2. q \in Seq(S \cup {s})
  BY <1>1
<1> QED
  BY <1>2, AppendProperties DEF IsSeq

LEMMA SelectorReplaced ==
  ASSUME IsSeq(sels), NEW k \in 1 .. Len(sels), NEW s, sels' = [sels EXCEPT ![k] = s]
  PROVE  /\ IsSeq(sels') /\ Len(sels') = Len(sels) /\ sels'[k] = s
         /\ \A i \in 1 .. Len(sels) : i # k => sels'[i] = sels[i]
<1>1. PICK S : sels \in Seq(S)
  BY DEF IsSeq
<1>2. sels \in Seq(S \cup {s})
  BY <1>1
<1> QED
  BY <1>2, ExceptSeq DEF IsSeq

LEMMA GroupsAreWeights ==
  ASSUME NEW g \in Groups, g # <<>>
  PROVE  Weighing(g)
<1>1. DOMAIN g \subseteq Subs /\ g \in [DOMAIN g -> Nat \ {0}] /\ IsFiniteSet(Subs)
  BY SubGroupsAssumption
<1>2. IsFiniteSet(DOMAIN g)
  BY <1>1, FS_Subset
<1>3. DOMAIN g # {}
  BY <1>1
<1> QED BY <1>1, <1>2, <1>3 DEF Weighing, Numbers

LEMMA NewSelectorIsGood ==
  ASSUME NEW g \in Groups, g # <<>>
  PROVE  /\ GoodSelector(NewSelector(g))
         /\ NewSelector(g).weight = g /\ NewSelector(g).holder = Nobody
<1>1. Balanced(g, [i \in DOMAIN g |-> 0])
  BY GroupsAreWeights, Zeroes
<1> QED BY <1>1 DEF GoodSelector, NewSelector, SelectorFields

\* The sub-group picked is one that has grown most.
LEMMA PickedIsGreatest ==
  ASSUME NEW s, GoodSelector(s)
  PROVE  /\ Numbers(Grown(s)) /\ DOMAIN Grown(s) = DOMAIN s.weight
         /\ \A i \in DOMAIN s.weight : Grown(s)[i] = s.cw[i] + s.weight[i]
         /\ Picked(s) \in DOMAIN s.weight
         /\ \A i \in DOMAIN s.weight : Grown(s)[Picked(s)] >= Grown(s)[i]
<1> DEFINE D == DOMAIN s.weight
           g == Grown(s)
           top == {i \in D : \A j \in D : g[i] >= g[j]}
<1>1. Weighing(s.weight) /\ DOMAIN s.cw = D /\ Numbers(s.cw) /\ D \subseteq Nat
  BY GroupsAreWeights, SubGroupsAssumption DEF GoodSelector, Balanced
<1>2. IsFiniteSet(D) /\ D # {}
  BY <1>1 DEF Weighing, Numbers
<1>3. DOMAIN g = D /\ \A i \in D : g[i] = s.cw[i] + s.weight[i]
  BY <1>1 DEF Grown
<1>4. \A i \in D : g[i] \in Int
  BY <1>1, <1>3 DEF Weighing, Numbers
<1>5. Numbers(g)
  BY <1>2, <1>3, <1>4 DEF Numbers
<1>6. Picked(s) = Min(top)
  BY <1>1 DEF Picked
<1> HIDE DEF g
<1>7. top # {}
  <2>1. \E i \in D : \A j \in D : g[i] >= g[j]
    BY <1>2, <1>3, <1>5, Greatest
  <2> QED BY <2>1
<1>8. IsFiniteSet(top) /\ top \subseteq Int
  BY <1>1, <1>2, FS_Subset
<1>9. Picked(s) \in top
  <2> HIDE DEF top
  <2> QED BY <1>6, <1>7, <1>8, Least
<1> QED BY <1>3, <1>5, <1>9 DEF g

LEMMA RoundKeeps ==
  ASSUME NEW s, GoodSelector(s)
  PROVE  /\ GoodSelector(AfterRound(s))
         /\ AfterRound(s).weight = s.weight /\ AfterRound(s).holder = s.holder
<1>1. ASSUME NEW v, NEW t, t = [s EXCEPT !.cw = v]
      PROVE  /\ DOMAIN t = SelectorFields /\ t.weight = s.weight /\ t.holder = s.holder
             /\ t.cw = v
  BY <1>1 DEF GoodSelector, SelectorFields
<1> DEFINE w == s.weight
           g == Grown(s)
           p == Picked(s)
           d == [g EXCEPT ![p] = @ - Total(s.weight)]
<1>2. Weighing(w) /\ Balanced(w, s.cw)
  BY GroupsAreWeights DEF GoodSelector
<1>3. /\ Numbers(g) /\ DOMAIN g = DOMAIN w
      /\ \A i \in DOMAIN w : g[i] = s.cw[i] + w[i]
      /\ p \in DOMAIN w
      /\ \A i \in DOMAIN w : g[p] >= g[i]
  BY PickedIsGreatest
<1>4. DOMAIN d = DOMAIN w /\ d[p] = g[p] - Whole(w) /\ \A i \in DOMAIN w : i # p => d[i] = g[i]
  <2>1. Total(s.weight) = Whole(w)
    BY TotalIs DEF Whole
  <2> HIDE DEF g, p
  <2> QED BY <1>3, <2>1
<1>5. AfterRound(s) = [s EXCEPT !.cw = d]
  BY DEF AfterRound
<1> HIDE DEF w, g, p, d
<1>6. Balanced(w, d)
  BY <1>2, <1>3, <1>4, RoundBalances
<1>7. /\ DOMAIN AfterRound(s) = SelectorFields /\ AfterRound(s).weight = w
      /\ AfterRound(s).holder = s.holder /\ AfterRound(s).cw = d
  BY <1>1, <1>5 DEF w
<1> QED BY <1>6, <1>7 DEF GoodSelector, w

LEMMA HolderChanges ==
  ASSUME NEW s, GoodSelector(s), NEW h \in Callers \cup {Nobody}
  PROVE  LET t == [s EXCEPT !.holder = h] IN
         GoodSelector(t) /\ t.weight = s.weight /\ t.holder = h
BY DEF GoodSelector, SelectorFields

LEMMA HolderStays ==
  ASSUME HolderIsInRounds, NEW i \in 1 .. Len(sels), NEW q \in Callers,
         sels'[i] = sels[i], InRounds(q, i)' <=> InRounds(q, i)
  PROVE  sels'[i].holder = q <=> InRounds(q, i)'
BY DEF HolderIsInRounds

(***************************************************************************)
(* Steps of one request                                                    *)
(***************************************************************************)
CallerMoves(r) ==
  /\ DOMAIN search' = Callers /\ search' = [q \in Callers |-> search'[q]]
  /\ DOMAIN search'[r] = RequestFields
  /\ \A q \in Callers \ {r} : search'[q] = search[q]

LEMMA GoesTo ==
  ASSUME Shape, NEW r \in Callers, NEW pc, Continue(r, pc)
  PROVE  /\ CallerMoves(r)
         /\ search'[r].pc = pc /\ search'[r].sel = search[r].sel /\ search'[r].group = search[r].group
<1>1. DOMAIN search = Callers /\ DOMAIN search[r] = RequestFields
  BY DEF Shape, GoodRequest
<1>2. search' = [search EXCEPT ![r].pc = pc]
  BY DEF Continue
<1> QED
  BY <1>1, <1>2 DEF CallerMoves, RequestFields

LEMMA TakesGroup ==
  ASSUME Shape, NEW r \in Callers, TakeGroup(r)
  PROVE  CallerMoves(r) /\ search'[r].pc = "find" /\ search'[r].group = group
<1>1. DOMAIN search = Callers /\ DOMAIN search[r] = RequestFields
  BY DEF Shape, GoodRequest
<1>2. search' = [search EXCEPT ![r].pc = "find", ![r].group = group]
  BY DEF TakeGroup
<1> QED
  BY <1>1, <1>2 DEF CallerMoves, RequestFields

LEMMA TakesSelector ==
  ASSUME Shape, NEW r \in Callers, NEW i,
         search' = [search EXCEPT ![r].pc = "lock", ![r].sel = i]
  PROVE  CallerMoves(r) /\ search'[r].pc = "lock" /\ search'[r].sel = i
<1>1. DOMAIN search = Callers /\ DOMAIN search[r] = RequestFields
  BY DEF Shape, GoodRequest
<1> QED
  BY <1>1 DEF CallerMoves, RequestFields

LEMMA LockMoves ==
  ASSUME Shape, NEW r \in Callers, Lock(r)
  PROVE  CallerMoves(r) /\ search'[r].pc \in {"round", "check"} /\ search'[r].sel = search[r].sel
<1>1. DOMAIN search = Callers /\ DOMAIN search[r] = RequestFields
  BY DEF Shape, GoodRequest
<1>2. ASSUME NEW l, search' = [search EXCEPT ![r] = l], DOMAIN l = RequestFields
      PROVE  CallerMoves(r) /\ search'[r] = l
  BY <1>1, <1>2 DEF CallerMoves
<1> DEFINE c == [search[r] EXCEPT !.pc = "check", !.pick = Min(Members(r)), !.tried = Members(r)]
           o == [search[r] EXCEPT !.pc = "round"]
<1>3. search' = [search EXCEPT ![r] = IF Cardinality(Members(r)) = 1 THEN c ELSE o]
  BY DEF Lock
<1>4. /\ DOMAIN c = RequestFields /\ c.pc = "check" /\ c.sel = search[r].sel
      /\ DOMAIN o = RequestFields /\ o.pc = "round" /\ o.sel = search[r].sel
  BY <1>1 DEF RequestFields
<1> HIDE DEF c, o
<1>5. CASE Cardinality(Members(r)) = 1
  BY <1>2, <1>3, <1>4, <1>5
<1>6. CASE Cardinality(Members(r)) # 1
  BY <1>2, <1>3, <1>4, <1>6
<1> QED
  BY <1>5, <1>6

LEMMA RoundMoves ==
  ASSUME Shape, NEW r \in Callers, Round(r)
  PROVE  CallerMoves(r) /\ search'[r].pc \in {"round", "check"} /\ search'[r].sel = search[r].sel
<1>1. DOMAIN search = Callers /\ DOMAIN search[r] = RequestFields
  BY DEF Shape, GoodRequest
<1>2. ASSUME NEW pc, NEW p, NEW T,
             search' = [search EXCEPT ![r].pc = pc, ![r].pick = p, ![r].tried = T]
      PROVE  CallerMoves(r) /\ search'[r].pc = pc /\ search'[r].sel = search[r].sel
  BY <1>1, <1>2 DEF CallerMoves, RequestFields
<1>3. PICK i : search' = [search EXCEPT ![r].pc    = IF i \in search[r].tried THEN "round" ELSE "check",
                                  ![r].pick  = i,
                                  ![r].tried = search[r].tried \cup {i}]
  BY DEF Round
<1> QED
  BY <1>2, <1>3

\* One request leaves everything as it should be when it does so for itself.
LEMMA CallerKeeps ==
  ASSUME SelInv, NEW r \in Callers, CallerMoves(r),
         IsSeq(sels'), Len(sels') = Len(sels), current' \in 0 .. Len(sels'),
         UNCHANGED <<group, rebuild, current>>,
         \A i \in 1 .. Len(sels) :
           /\ GoodSelector(sels'[i]) /\ sels'[i].weight = sels[i].weight
           /\ \A q \in Callers \ {r} : sels'[i].holder = q <=> sels[i].holder = q
           /\ sels'[i].holder = r <=> InRounds(r, i)',
         GoodRequest(search'[r], Len(sels))
  PROVE  SelInv'
<1>1. Shape'
  BY DEF SelInv, Shape, CallerMoves, GoodRequest
<1>2. HolderIsInRounds'
  BY DEF SelInv, HolderIsInRounds, InRounds, CallerMoves
<1>3. SelectorIsCurrent'
  BY DEF SelInv, Shape, SelectorIsCurrent
<1> QED
  BY <1>1, <1>2, <1>3 DEF SelInv

(***************************************************************************)
(* The invariant is inductive                                              *)
(***************************************************************************)
LEMMA InitInv == Init => SelInv
<1> SUFFICES ASSUME Init PROVE SelInv
  OBVIOUS
<1>1. group \in Groups /\ rebuild \in BOOLEAN
  BY DEF Init
<1>2. ASSUME NEW r \in Callers
      PROVE  search[r].pc = "idle" /\ GoodRequest(search[r], Len(sels))
  BY DEF Init, Idle, RequestFields, GoodRequest
<1>3. DOMAIN search = Callers /\ search = [r \in Callers |-> search[r]]
  BY DEF Init
<1>4. CASE group = <<>>
  <2>1. sels = <<>> /\ Len(sels) = 0 /\ current = 0
    BY <1>4 DEF Init
  <2>2. IsSeq(sels)
    BY <2>1, EmptySeq DEF IsSeq
  <2>3. Shape
    <3>1. \A r \in Callers : GoodRequest(search[r], Len(sels))
      BY <1>2
    <3>2. current \in 0 .. Len(sels)
      <4>1. Len(sels) = 0 /\ current = 0
        BY <2>1
      <4> QED
        BY <4>1
    <3>3. \A i \in 1 .. Len(sels) : GoodSelector(sels[i])
      BY <2>1, <2>2
    <3> QED
      BY <1>1, <1>3, <2>2, <3>1, <3>2, <3>3 DEF Shape
  <2> QED
    BY <1>4, <2>1, <2>3 DEF SelInv, HolderIsInRounds, SelectorIsCurrent
<1>5. CASE group # <<>>
  <2>1. sels = <<NewSelector(group)>>
    BY <1>5 DEF Init
  <2> DEFINE s == NewSelector(group)
  <2>2. GoodSelector(s) /\ s.weight = group /\ s.holder = Nobody
    BY <1>1, <1>5, NewSelectorIsGood
  <2> HIDE DEF s
  <2>3. sels = <<s>>
    BY <2>1 DEF s
  <2>4. Len(sels) = 1 /\ sels[1] = s /\ current = 1
    BY <2>3 DEF Init
  <2>5. IsSeq(sels)
    <3>1. <<s>> \in Seq({s})
      OBVIOUS
    <3> QED
      BY <2>3, <3>1 DEF IsSeq
  <2>6. Shape
    <3>1. \A r \in Callers : GoodRequest(search[r], Len(sels))
      BY <1>2
    <3>2. current \in 0 .. Len(sels)
      <4>1. Len(sels) = 1 /\ current = 1
        BY <2>4
      <4> QED
        BY <4>1
    <3>3. \A i \in 1 .. Len(sels) : GoodSelector(sels[i])
      BY <2>2, <2>4, <2>5
    <3> QED
      BY <1>1, <1>3, <2>5, <3>1, <3>2, <3>3 DEF Shape
  <2> QED
    BY <1>2, <2>2, <2>4, <2>6, SubGroupsAssumption
    DEF SelInv, HolderIsInRounds, InRounds, SelectorIsCurrent
<1> QED
  BY <1>4, <1>5

\* A step of a request that leaves the selectors alone, outside of rounds.
LEMMA Walks ==
  ASSUME SelInv, NEW r \in Callers, CallerMoves(r),
         UNCHANGED <<group, rebuild, sels, current>>,
         search[r].pc \in {"round", "check"} <=> search'[r].pc \in {"round", "check"},
         search[r].pc \in {"round", "check"} => search'[r].sel = search[r].sel,
         GoodRequest(search'[r], Len(sels))
  PROVE  SelInv'
<1>1. \A i \in 1 .. Len(sels) : GoodSelector(sels[i]) /\ (sels[i].holder = r <=> InRounds(r, i)')
  BY DEF SelInv, Shape, HolderIsInRounds, InRounds
<1> QED
  BY <1>1, CallerKeeps DEF SelInv, Shape

\* One selector's holder or current weights change.
LEMMA Updates ==
  ASSUME SelInv, NEW r \in Callers, CallerMoves(r), search[r].sel \in 1 .. Len(sels),
         UNCHANGED <<group, rebuild, current>>,
         NEW s, sels' = [sels EXCEPT ![search[r].sel] = s],
         GoodSelector(s), s.weight = Sel(r).weight,
         Sel(r).holder \in {r, Nobody}, s.holder \in {r, Nobody},
         s.holder = r <=> search'[r].pc \in {"round", "check"},
         search'[r].sel = search[r].sel,
         GoodRequest(search'[r], Len(sels))
  PROVE  SelInv'
<1> DEFINE k == search[r].sel
<1>1. IsSeq(sels) /\ k \in 1 .. Len(sels)
  BY DEF SelInv, Shape
<1>2. /\ IsSeq(sels') /\ Len(sels') = Len(sels) /\ sels'[k] = s
      /\ \A i \in 1 .. Len(sels) : i # k => sels'[i] = sels[i]
  <2>1. sels' = [sels EXCEPT ![k] = s]
    OBVIOUS
  <2> HIDE DEF k
  <2> QED
    BY <1>1, <2>1, SelectorReplaced
<1>3. ASSUME NEW i \in 1 .. Len(sels)
      PROVE  /\ GoodSelector(sels'[i]) /\ sels'[i].weight = sels[i].weight
             /\ \A q \in Callers \ {r} : sels'[i].holder = q <=> sels[i].holder = q
             /\ sels'[i].holder = r <=> InRounds(r, i)'
  <2>1. CASE i = k
    BY <1>2, <2>1, SubGroupsAssumption DEF Sel, InRounds
  <2>2. CASE i # k
    <3>1. sels'[i] = sels[i] /\ sels[i].holder # r
      BY <1>2, <2>2 DEF SelInv, HolderIsInRounds, InRounds
    <3> QED
      BY <2>2, <3>1 DEF SelInv, Shape, InRounds
  <2> QED
    BY <2>1, <2>2
<1> QED
  BY <1>2, <1>3, CallerKeeps DEF SelInv, Shape

\* A selector is added to those there are.
LEMMA Adds ==
  ASSUME SelInv, NEW g \in Groups, g # <<>>, sels' = Append(sels, NewSelector(g)),
         NEW r, r \in Callers => CallerMoves(r),
         DOMAIN search' = Callers, search' = [q \in Callers |-> search'[q]],
         \A q \in Callers : search'[q] = search[q] \/
           /\ q = r /\ GoodRequest(search'[q], Len(sels) + 1)
           /\ search[q].pc \notin {"round", "check"} /\ search'[q].pc \notin {"round", "check"},
         current' = Len(sels'), group' \in Groups, rebuild' \in BOOLEAN
  PROVE  /\ Shape' /\ HolderIsInRounds' /\ current' # 0 /\ sels'[current'].weight = g
<1> DEFINE s == NewSelector(g)
<1>1. GoodSelector(s) /\ s.weight = g /\ s.holder = Nobody
  BY NewSelectorIsGood
<1> HIDE DEF s
<1>2. /\ IsSeq(sels') /\ Len(sels) \in Nat /\ Len(sels') = Len(sels) + 1
      /\ sels'[Len(sels) + 1] = s
      /\ \A i \in 1 .. Len(sels) : sels'[i] = sels[i]
  BY Appended DEF SelInv, Shape, s
<1>3. HolderIsInRounds
  BY DEF SelInv
<1>4. \A i \in 1 .. Len(sels) + 1 : i = Len(sels) + 1 \/ i \in 1 .. Len(sels)
  BY <1>2
<1>5. \A i \in 1 .. Len(sels') : GoodSelector(sels'[i])
  BY <1>1, <1>2, <1>4 DEF SelInv, Shape
<1>6. \A q \in Callers : GoodRequest(search'[q], Len(sels'))
  BY <1>2 DEF SelInv, Shape, GoodRequest
<1>7. Shape'
  BY <1>2, <1>5, <1>6 DEF Shape
<1>8. \A i \in 1 .. Len(sels), q \in Callers : InRounds(q, i)' <=> InRounds(q, i)
  BY DEF InRounds
<1>9. ASSUME NEW q \in Callers, NEW i, i = Len(sels) + 1, InRounds(q, i)'
      PROVE  FALSE
  <2>1. search'[q] = search[q]
    BY <1>9 DEF InRounds
  <2>2. search[q].sel \in 1 .. Len(sels) /\ search[q].sel = Len(sels) + 1
    BY <1>9, <2>1 DEF SelInv, Shape, GoodRequest, InRounds
  <2> QED
    BY <1>2, <2>2
<1>10. HolderIsInRounds'
  <2> SUFFICES ASSUME NEW i \in 1 .. Len(sels) + 1, NEW q \in Callers
               PROVE  sels'[i].holder = q <=> InRounds(q, i)'
    BY <1>2 DEF HolderIsInRounds
  <2>1. CASE i \in 1 .. Len(sels)
    <3>1. sels'[i] = sels[i] /\ (InRounds(q, i)' <=> InRounds(q, i))
      BY <1>2, <1>8, <2>1
    <3> QED
      BY <2>1, <3>1, <1>3 DEF HolderIsInRounds
  <2>2. CASE i = Len(sels) + 1
    <3>1. sels'[i].holder = Nobody /\ q # Nobody
      BY <1>1, <1>2, <2>2, SubGroupsAssumption
    <3>2. ~InRounds(q, i)'
      BY <1>9, <2>2
    <3> QED
      BY <3>1, <3>2
  <2> QED
    BY <1>4, <2>1, <2>2
<1> QED
  BY <1>1, <1>2, <1>7, <1>10

LEMMA CallerStep ==
  ASSUME SelInv, NEW r \in Callers, TakeGroup(r) \/ Lock(r) \/ Step(r)
  PROVE  SelInv'
<1>1. GoodRequest(search[r], Len(sels)) /\ Shape
  BY DEF SelInv, Shape
<1>2. CASE TakeGroup(r)
  <2>1. CallerMoves(r) /\ search'[r].pc = "find" /\ search'[r].group = group /\ search[r].pc = "idle"
    <3>1. CallerMoves(r) /\ search'[r].pc = "find" /\ search'[r].group = group
      BY <1>1, <1>2, TakesGroup
    <3>2. search[r] = Idle
      BY <1>2 DEF TakeGroup
    <3> QED
      BY <3>1, <3>2 DEF Idle
  <2>2. GoodRequest(search'[r], Len(sels))
    BY <1>1, <2>1 DEF GoodRequest, CallerMoves, Shape
  <2>3. UNCHANGED <<group, rebuild, sels, current>>
    BY <1>2 DEF TakeGroup
  <2> QED
    BY <2>1, <2>2, <2>3, Walks
<1>3. CASE FindSelector(r)
  <2>1. CallerMoves(r) /\ search'[r].pc = "lock" /\ search'[r].sel = current /\ search[r].pc = "find"
    BY <1>1, <1>3, TakesSelector DEF FindSelector
  <2>2. GoodRequest(search'[r], Len(sels))
    BY <1>1, <1>3, <2>1 DEF GoodRequest, CallerMoves, Shape, FindSelector
  <2>3. UNCHANGED <<group, rebuild, sels, current>>
    BY <1>3 DEF FindSelector
  <2> QED
    BY <2>1, <2>2, <2>3, Walks
<1>4. CASE MakeSelector(r)
  <2>1. /\ CallerMoves(r) /\ search'[r].pc = "lock" /\ search'[r].sel = Len(sels')
        /\ search[r].pc = "find" /\ search[r].group \in Groups /\ search[r].group # <<>>
    BY <1>1, <1>4, TakesSelector DEF MakeSelector, GoodRequest
  <2>2. /\ sels' = Append(sels, NewSelector(search[r].group)) /\ current' = Len(sels')
        /\ current = 0 /\ UNCHANGED <<group, rebuild>>
    BY <1>4 DEF MakeSelector
  <2>3. Len(sels) \in Nat /\ Len(sels') = Len(sels) + 1
    BY <1>1, <2>2, Appended DEF Shape
  <2>4. GoodRequest(search'[r], Len(sels) + 1)
    BY <2>1, <2>3 DEF GoodRequest, CallerMoves
  <2>5. Shape' /\ HolderIsInRounds'
    BY <1>1, <2>1, <2>2, <2>4, Adds DEF CallerMoves, Shape
  <2>6. SelectorIsCurrent'
    BY <2>2 DEF SelInv, SelectorIsCurrent
  <2> QED
    BY <2>5, <2>6 DEF SelInv
<1>5. ASSUME NEW pc \in {"selected", "refused", "round"}, Continue(r, pc),
             pc = "round" <=> search[r].pc = "check", search[r].pc # "round",
             UNCHANGED <<group, rebuild, sels, current>>
      PROVE  SelInv'
  <2>1. CallerMoves(r) /\ search'[r].pc = pc /\ search'[r].sel = search[r].sel
    BY <1>1, <1>5, GoesTo
  <2>2. GoodRequest(search'[r], Len(sels))
    BY <1>1, <1>5, <2>1 DEF GoodRequest, CallerMoves
  <2> QED
    BY <1>5, <2>1, <2>2, Walks
<1>6. CASE NoSelector(r)
  BY <1>5, <1>6 DEF NoSelector
<1>7. CASE TryNext(r)
  BY <1>5, <1>7 DEF TryNext
<1>8. CASE Lock(r)
  <2>1. /\ CallerMoves(r) /\ search'[r].pc \in {"round", "check"} /\ search'[r].sel = search[r].sel
        /\ search[r].pc = "lock" /\ search[r].sel \in 1 .. Len(sels) /\ Sel(r).holder = Nobody
    BY <1>1, <1>8, LockMoves DEF Lock, GoodRequest
  <2>2. GoodRequest(search'[r], Len(sels))
    BY <1>1, <2>1 DEF GoodRequest, CallerMoves
  <2>3. PICK s : s = [Sel(r) EXCEPT !.holder = r]
    OBVIOUS
  <2>4. GoodSelector(s) /\ s.weight = Sel(r).weight /\ s.holder = r
    BY <1>1, <2>1, <2>3, HolderChanges DEF Shape, Sel
  <2>5. sels' = [sels EXCEPT ![search[r].sel] = s] /\ UNCHANGED <<group, rebuild, current>>
    BY <1>8, <2>3 DEF Lock, Sel
  <2> QED
    BY <2>1, <2>2, <2>4, <2>5, Updates
<1>9. CASE Round(r)
  <2>1. /\ CallerMoves(r) /\ search'[r].pc \in {"round", "check"} /\ search'[r].sel = search[r].sel
        /\ search[r].pc = "round" /\ search[r].sel \in 1 .. Len(sels)
    BY <1>1, <1>9, RoundMoves DEF Round, GoodRequest
  <2>2. GoodRequest(search'[r], Len(sels)) /\ Sel(r).holder = r
    BY <1>1, <2>1 DEF GoodRequest, CallerMoves, SelInv, HolderIsInRounds, InRounds, Sel
  <2>3. PICK s : s = AfterRound(Sel(r))
    OBVIOUS
  <2>4. GoodSelector(s) /\ s.weight = Sel(r).weight /\ s.holder = r
    BY <1>1, <2>1, <2>2, <2>3, RoundKeeps DEF Shape, Sel
  <2>5. sels' = [sels EXCEPT ![search[r].sel] = s] /\ UNCHANGED <<group, rebuild, current>>
    BY <1>9, <2>3 DEF Round, Sel
  <2> QED
    BY <2>1, <2>2, <2>4, <2>5, Updates
<1>10. ASSUME NEW pc \in {"selected", "refused"}, search[r].pc = "check", Leave(r, pc),
              UNCHANGED <<group, rebuild, current>>
       PROVE  SelInv'
  <2>1. /\ CallerMoves(r) /\ search'[r].pc = pc /\ search'[r].sel = search[r].sel
        /\ search[r].sel \in 1 .. Len(sels)
    BY <1>1, <1>10, GoesTo DEF Leave, GoodRequest
  <2>2. GoodRequest(search'[r], Len(sels)) /\ Sel(r).holder = r
    BY <1>1, <1>10, <2>1 DEF GoodRequest, CallerMoves, SelInv, HolderIsInRounds, InRounds, Sel
  <2>3. PICK s : s = [Sel(r) EXCEPT !.holder = Nobody]
    OBVIOUS
  <2>4. GoodSelector(s) /\ s.weight = Sel(r).weight /\ s.holder = Nobody
    BY <1>1, <2>1, <2>3, HolderChanges DEF Shape, Sel
  <2>5. sels' = [sels EXCEPT ![search[r].sel] = s]
    BY <1>10, <2>3 DEF Leave, Sel
  <2> QED
    BY <1>10, <2>1, <2>2, <2>4, <2>5, Updates, SubGroupsAssumption
<1>11. CASE Found(r)
  BY <1>10, <1>11 DEF Found
<1>12. CASE NoneLeft(r)
  BY <1>10, <1>12 DEF NoneLeft
<1>13. CASE Return(r)
  <2>1. /\ CallerMoves(r) /\ search'[r] = Idle /\ search[r].pc \in {"selected", "refused"}
        /\ UNCHANGED <<group, rebuild, sels, current>>
    BY <1>1, <1>13 DEF Return, CallerMoves, Shape, Idle, RequestFields
  <2>2. GoodRequest(search'[r], Len(sels)) /\ search'[r].pc = "idle"
    BY <2>1 DEF GoodRequest, Idle, RequestFields
  <2> QED
    BY <2>1, <2>2, Walks
<1> QED
  BY <1>2, <1>3, <1>4, <1>6, <1>7, <1>8, <1>9, <1>11, <1>12, <1>13 DEF Step

LEMMA NextInv == SelInv /\ [Next]_vars => SelInv'
<1> SUFFICES ASSUME SelInv, [Next]_vars PROVE SelInv'
  OBVIOUS
<1>1. ASSUME NEW g \in Groups, SetGroup(g)
      PROVE  SelInv'
  <2>1. rebuild' = TRUE /\ group' \in Groups /\ UNCHANGED <<sels, current, search>>
    BY <1>1 DEF SetGroup
  <2>2. Shape' /\ HolderIsInRounds'
    BY <2>1 DEF SelInv, Shape, HolderIsInRounds, InRounds
  <2> QED
    BY <2>1, <2>2 DEF SelInv, SelectorIsCurrent
<1>2. CASE RebuildSelectors
  <2>1. CASE group = <<>>
    <3>1. current' = 0 /\ rebuild' \in BOOLEAN /\ UNCHANGED <<group, sels, search>>
      BY <1>2, <2>1 DEF RebuildSelectors
    <3>2. 0 \in 0 .. Len(sels)
      BY DEF SelInv, Shape
    <3>3. Shape' /\ HolderIsInRounds'
      BY <3>1, <3>2 DEF SelInv, Shape, HolderIsInRounds, InRounds
    <3> QED
      BY <2>1, <3>1, <3>3 DEF SelInv, SelectorIsCurrent
  <2>2. CASE group # <<>>
    <3>1. /\ sels' = Append(sels, NewSelector(group)) /\ current' = Len(sels')
          /\ UNCHANGED <<group, search>> /\ rebuild' \in BOOLEAN
      BY <1>2, <2>2 DEF RebuildSelectors
    <3>2. Nobody \notin Callers /\ group \in Groups /\ group # <<>>
      BY <2>2, SubGroupsAssumption DEF SelInv, Shape
    <3>3. Shape' /\ HolderIsInRounds' /\ current' # 0 /\ sels'[current'].weight = group
      BY <3>1, <3>2, Adds DEF SelInv, Shape
    <3> QED
      BY <3>1, <3>3 DEF SelInv, SelectorIsCurrent
  <2> QED
    BY <2>1, <2>2
<1>3. ASSUME NEW i \in Subs, KeysChange(i)
      PROVE  SelInv'
  BY <1>3 DEF KeysChange, SelInv, Shape, HolderIsInRounds, InRounds, SelectorIsCurrent
<1>4. CASE UNCHANGED vars
  BY <1>4 DEF vars, SelInv, Shape, HolderIsInRounds, InRounds, SelectorIsCurrent
<1> QED
  BY <1>1, <1>2, <1>3, <1>4, CallerStep DEF Next

LEMMA Invariance == Spec => []SelInv
BY InitInv, NextInv, PTL DEF Spec

\* Selectors and requests have their types, for any group and requests.
THEOREM TypesHold == Spec => []TypeOK
<1>1. SelInv => TypeOK
  BY DEF SelInv, Shape, TypeOK, GoodSelector, GoodRequest
<1> QED
  BY <1>1, Invariance, PTL

\* The selector in use is made of the group as it is, whichever selectors were
\* made by requests with older copies of it (RebuildSelectors, getSelector).
THEOREM SelectorsAreCurrent == Spec => []SelectorIsCurrent
<1>1. SelInv => SelectorIsCurrent
  BY DEF SelInv
<1> QED
  BY <1>1, Invariance, PTL

\* The mutex of a selector is held by the one request that is in its rounds,
\* and by nobody when there is none: every way out of selectNext releases it.
THEOREM MutexIsHeldInRounds == Spec => []HolderIsInRounds
<1>1. SelInv => HolderIsInRounds
  BY DEF SelInv
<1> QED
  BY <1>1, Invariance, PTL

\* The turns of the sub-groups are shared by weight after any number of rounds,
\* whatever their number and weights: nobody is ahead by a turn, and nobody
\* further behind than 1/2 + ... + 1/n of a turn (selectByWeight).
THEOREM TurnsStayShared == Spec => []TurnsAreShared
<1>1. SelInv => TurnsAreShared
  <2> SUFFICES ASSUME SelInv, NEW k \in 1 .. Len(sels)
               PROVE  LET w == sels[k].weight  cw == sels[k].cw IN
                      /\ Total(cw) = 0
                      /\ \A i \in DOMAIN w : cw[i] > -Total(w) /\ cw[i] <= Behind(w)
    BY DEF TurnsAreShared
  <2> DEFINE w == sels[k].weight
             c == sels[k].cw
             n == Cardinality(DOMAIN w)
  <2>1. Weighing(w) /\ Balanced(w, c)
    BY GroupsAreWeights DEF SelInv, Shape, GoodSelector
  <2> HIDE DEF w, c
  <2>2. /\ Numbers(c) /\ DOMAIN c = DOMAIN w
        /\ Whole(c) = 0 /\ \A i \in DOMAIN w : c[i] > -Whole(w)
        /\ \A T \in SUBSET DOMAIN w : T # {} =>
             Sums(c)[T] <= Cardinality(T) * Lag(n, Whole(w), Cardinality(T))
    BY <2>1 DEF Balanced
  <2>3. Total(c) = 0 /\ Total(w) = Whole(w)
    BY <2>2, TotalIs DEF Whole
  <2>4. n \in Nat \ {0} /\ Whole(w) \in Nat
    BY <2>1, WholeIsPositive, FS_CardinalityType, FS_EmptySet DEF Weighing, Numbers
  <2>5. Behind(w) = Lag(n, Whole(w), 1)
    <3>1. Behind(w) = Total(Shares(n, Whole(w)))
      BY <2>3 DEF Behind, Shares, Share
    <3>2. DOMAIN Shares(n, Whole(w)) = 2 .. n
      BY DEF Shares
    <3> QED BY <3>1, <3>2, TotalIs DEF Lag
  <2>6. ASSUME NEW i \in DOMAIN w PROVE c[i] <= Behind(w)
    <3>1. {i} \in SUBSET DOMAIN w /\ {i} # {} /\ {i} \ {i} = {} /\ Cardinality({i}) = 1
      BY FS_Singleton
    <3>2. Sums(c)[{i}] <= 1 * Lag(n, Whole(w), 1)
      BY <2>2, <3>1
    <3>3. Sums(c)[{i}] = c[i] + Sums(c)[{i} \ {i}]
      BY <2>2, <3>1, SumsTake
    <3>4. Sums(c)[{}] = 0
      BY <2>2, SumsAdd DEF Numbers
    <3>5. c[i] \in Int
      BY <2>2 DEF Numbers
    <3>6. Lag(n, Whole(w), 1) \in Nat
      <4>1. 1 \in 1 .. n /\ n \in Nat
        BY <2>4
      <4> HIDE DEF n
      <4> QED BY <2>4, <4>1, LagGrows
    <3>7. Sums(c)[{i}] = c[i]
      <4>1. Sums(c)[{i} \ {i}] = 0
        BY <3>1, <3>4
      <4> QED BY <3>3, <3>5, <4>1
    <3> QED BY <2>5, <3>2, <3>5, <3>6, <3>7
  <2>7. /\ Total(c) = 0
        /\ \A i \in DOMAIN w : c[i] > -Total(w) /\ c[i] <= Behind(w)
    BY <2>2, <2>3, <2>6
  <2> QED BY <2>7 DEF w, c
<1> QED
  BY <1>1, Invariance, PTL

(***************************************************************************)
(* The cache-hit selection: what its values are, and of a request at each  *)
(* place what it has found so far (Knows).                                 *)
(***************************************************************************)
Positive == Nat \ {0}
Rec  == [key : Keys, old : BOOLEAN]
Adj  == {a \in [key : Keys, delta : {-1, 1}, w : Nat, b : Nat] : a.w > 0 => a.b > 0}
Late == [name : Hashes, key : Keys, deleted : BOOLEAN]
Way  == [pc : {"free", "get", "details", "refresh", "touch", "unbind", "unrecord",
               "select", "setnx", "record", "other", "theirs", "hashbind",
               "hashrecord", "done"},
         q : Kinds \cup {NoKind}, d : {0, 2, 4, 6},
         key : Keys \cup {None}, saw : Keys \cup {None}]

Session(q) == ExtractSessionID(q)
NameAt(l)  == IF l.d = 0 THEN Session(l.q) ELSE CalculatePromptHash(l.q, l.d)

\* What a request at l has come to know.
Knows(l) ==
  /\ l.pc # "free" => l.q \in Kinds
  /\ l.pc \notin {"free", "done"} =>
       (Route(l.q) = "session" => l.d = 0) /\ (Route(l.q) = "hash" => l.d # 0)
  /\ l.pc \in {"get", "details", "refresh", "touch", "unbind", "unrecord"} =>
       Route(l.q) \in {"session", "hash"}
  /\ l.pc \in {"details", "refresh", "touch", "unbind", "unrecord"} =>
       NameAt(l) \in Names /\ l.key \in Keys
  /\ l.pc \in {"setnx", "record", "other", "theirs"} =>
       Route(l.q) = "session" /\ l.key \in Keys
  /\ l.pc = "theirs" => l.saw \in Keys
  /\ l.pc \in {"hashbind", "hashrecord"} =>
       /\ l.key \in Keys /\ CalculatePromptHash(l.q, 2) \in Hashes
       /\ l.d > 2 /\ l.saw # None => NameAt(l) \in Hashes
  /\ l.saw # None => l.pc \in {"theirs", "hashbind", "hashrecord"}

Weighed ==
  /\ alive \in SUBSET Keys
  /\ wt \in [Keys -> Positive] /\ base \in [Keys -> Positive]
  /\ row \in [Keys -> [w : Positive, b : Positive]]
  /\ sync \in [todo : SUBSET Keys, seen : [Keys -> Nat], key : Keys \cup {None},
               w : Nat]
  /\ sync.key # None => sync.w # 0
  /\ adm \in [pc : {"idle", "hset", "clear", "commit"}, todo : SUBSET Keys,
              cur : Keys \cup {None}, w : Nat, based : BOOLEAN,
              locked : SUBSET Keys]
  /\ adm.pc # "idle" => adm.w # 0
  /\ adm.pc = "clear" <=> adm.cur # None
  /\ drifted \in SUBSET Keys

Recorded ==
  /\ bind \in [Names -> Keys \cup {None}]
  /\ rec \in [Names -> Rec \cup {NoRec}]
  /\ adj \in [Adjusters -> Adj \cup {NoAdj}]
  /\ sched \in [Requests -> Late \cup {NoLate}]
  /\ clean \in [todo : SUBSET (Names \X Keys), cur : (Names \X Keys) \cup {<<>>}]

Under ==
  /\ loc \in [Requests -> Way]
  /\ \A r \in Requests : Knows(loc[r])
  /\ calm \in SUBSET Requests

Types == Weighed /\ Recorded /\ Under

LEMMA Constants ==
  /\ None \notin Keys /\ None \notin Names
  /\ Base \in Positive /\ Weights \subseteq Positive
  /\ Sessions \subseteq Names /\ Hashes \subseteq Names /\ Sessions \cap Hashes = {}
BY CacheHitAssumption DEF Names, Positive

LEMMA LeastIsIn ==
  ASSUME NEW I, I \subseteq Nat, I # {}
  PROVE  Min(I) \in I
<1>1. PICK n \in I : \A m \in I : ~ (<<m, n>> \in OpToRel(<, Nat))
  BY NatLessThanWellFounded, WFMin
<1>2. ASSUME NEW m \in I PROVE n <= m
  <2>1. ~ (<<m, n>> \in {ss \in Nat \X Nat : ss[1] < ss[2]})
    BY <1>1, Zenon DEF OpToRel
  <2>2. <<m, n>> \in Nat \X Nat
    OBVIOUS
  <2>3. ~ (m < n)
    BY <2>1, <2>2
  <2> QED BY <2>3
<1> QED BY <1>2 DEF Min

\* The names a request may look at.
LEMMA NamesOfKinds ==
  ASSUME NEW q \in Kinds
  PROVE  /\ Session(q) \in Sessions \cup {None}
         /\ Route(q) = "session" => Session(q) \in Sessions
         /\ \A d \in {2, 4, 6} : CalculatePromptHash(q, d) \in Hashes \cup {None}
         /\ \A d \in {2, 4, 6} : CalculatePromptHash(q, d) \in Hashes =>
              CalculatePromptHash(q, 2) \in Hashes
<1>1. /\ q.ids \in Seq(Sessions \cup {None}) /\ q.conv \in Conversations /\ q.turns \in Nat
      /\ \A d \in {2, 4, 6} : q.turns > d => q.turns - d \in Turns
  BY CacheHitAssumption
<1>2. Session(q) \in Sessions \cup {None}
  <2> DEFINE I == {i \in DOMAIN q.ids : q.ids[i] # None}
  <2>1. CASE I = {}
    BY <2>1 DEF Session, ExtractSessionID
  <2>2. CASE I # {}
    <3>1. I \subseteq Nat /\ I \subseteq DOMAIN q.ids
      BY <1>1
    <3>2. Min(I) \in I
      BY <2>2, <3>1, LeastIsIn
    <3>3. \A i \in DOMAIN q.ids : q.ids[i] \in Sessions \cup {None}
      BY <1>1
    <3>4. q.ids[Min(I)] \in Sessions \cup {None}
      BY <3>1, <3>2, <3>3
    <3> QED BY <2>2, <3>4 DEF Session, ExtractSessionID
  <2> QED BY <2>1, <2>2
<1>3. Route(q) = "session" => Session(q) # None
  BY DEF Route, Session
<1>4. \A d \in {2, 4, 6} : CalculatePromptHash(q, d) \in Hashes \cup {None}
  BY <1>1 DEF CalculatePromptHash, Hashes
<1>5. \A d \in {2, 4, 6} : CalculatePromptHash(q, d) \in Hashes => q.turns > 2
  BY <1>1, Constants DEF CalculatePromptHash
<1>6. q.turns > 2 => CalculatePromptHash(q, 2) \in Hashes
  BY <1>1 DEF CalculatePromptHash, Hashes
<1> QED BY <1>2, <1>3, <1>4, <1>5, <1>6

LEMMA NamesAre ==
  \A r : Name(r) = NameAt(loc[r]) /\ NewHash(r) = CalculatePromptHash(loc[r].q, 2)
BY DEF Name, NameAt, NewHash, Session

\* A request that knows its place goes to the next.
Moves(r, l) ==
  /\ loc' = [loc EXCEPT ![r] = l]
  /\ l \in Way /\ Knows(l)
  /\ calm' \in SUBSET Requests

LEMMA Moved ==
  ASSUME Under, NEW r \in Requests, NEW l, Moves(r, l)
  PROVE  Under' /\ loc'[r] = l /\ \A q \in Requests \ {r} : loc'[q] = loc[q]
<1>1. loc' \in [Requests -> Way]
  BY DEF Under, Moves
<1>2. \A q \in Requests : loc'[q] = IF q = r THEN l ELSE loc[q]
  BY DEF Under, Moves
<1>3. \A q \in Requests : Knows(loc'[q])
  BY <1>2 DEF Under, Moves
<1>4. (\A q \in Requests : Knows(loc[q]))' <=> \A q \in Requests : Knows(loc'[q])
  BY DEF Knows, NameAt, Session
<1> QED BY <1>1, <1>2, <1>3, <1>4 DEF Under, Moves

Places == {"get", "details", "refresh", "touch", "unbind", "unrecord", "select",
           "setnx", "record", "other", "theirs", "hashbind", "hashrecord", "done"}

LEMMA WayGoes ==
  ASSUME NEW l \in Way, NEW pc \in Places, NEW k \in Keys \cup {None},
         NEW s \in Keys \cup {None}, NEW d \in {0, 2, 4, 6},
         NEW m, m = [l EXCEPT !.pc = pc, !.key = k, !.saw = s, !.d = d]
  PROVE  m \in Way /\ m.pc = pc /\ m.q = l.q /\ m.key = k /\ m.saw = s /\ m.d = d
BY DEF Way, Places

LEMMA DoneIs ==
  ASSUME Under, NEW r \in Requests, NEW k \in Keys \cup {None}, Done(r, k),
         calm' \in SUBSET Requests, loc[r].pc # "free"
  PROVE  \E l : Moves(r, l) /\ l.pc = "done" /\ l.key = k /\ l.q = loc[r].q
<1> DEFINE m == [Free EXCEPT !.pc = "done", !.q = loc[r].q, !.key = k]
<1>0. loc[r] \in Way /\ Knows(loc[r]) /\ loc[r].q \in Kinds \cup {NoKind}
  BY DEF Under, Way
<1>1. m.pc = "done" /\ m.q = loc[r].q /\ m.key = k /\ m.saw = None
  BY DEF Free
<1>2. m \in Way
  BY <1>0 DEF Free, Way
<1>4. loc' = [loc EXCEPT ![r] = m]
  BY DEF Done, Set
<1> HIDE DEF m
<1>5. m.q \in Kinds
  BY <1>0, <1>1 DEF Knows
<1>6. Knows(m)
  BY <1>1, <1>5 DEF Knows
<1> QED BY <1>1, <1>2, <1>4, <1>6 DEF Moves

(***************************************************************************)
(* What a request whose session kept its binding knows of that binding     *)
(* (Keeps): the key it goes to is the one its session is bound to.  Every  *)
(* step of the request itself preserves it.                                *)
(***************************************************************************)
\* What a request whose session kept its binding b knows of b.
Keeps(l, b) ==
  /\ l.pc # "free" /\ Route(l.q) = "session"
  /\ \/ l.pc \in {"details", "refresh", "touch", "unbind", "record", "hashbind",
                  "hashrecord"}
     \/ l.pc = "done" /\ l.key # None
     => l.key = b
  /\ l.pc = "theirs" => l.saw = b
  /\ l.pc = "other" => b # None

CalmKeeps == \A r \in calm : Keeps(loc[r], bind[Session(loc[r].q)])

Steps(r) ==
  \E m : Moves(r, m) /\ (r \in calm' => Keeps(m, bind'[Session(m.q)]))

Now == Recorded /\ Under /\ CalmKeeps

LEMMA WhereItIs ==
  ASSUME Now, NEW r \in Requests
  PROVE  LET l == loc[r]  b == bind[Session(l.q)] IN
         /\ l \in Way /\ Knows(l) /\ (r \in calm => Keeps(l, b))
         /\ l.key \in Keys \cup {None} /\ l.saw \in Keys \cup {None} /\ l.d \in {0, 2, 4, 6}
         /\ calm \in SUBSET Requests /\ None \notin Keys /\ None \notin Names
         /\ \A c \in Names : bind[c] \in Keys \cup {None}
BY Constants DEF Now, Under, CalmKeeps, Way, Recorded

LEMMA ArriveSteps ==
  ASSUME Now, NEW r \in Requests, NEW q \in Kinds, Arrive(r, q)
  PROVE  Steps(r)
<1> DEFINE way == Route(q)
           m == [pc  |-> IF way \in {"session", "hash"} THEN "get" ELSE "select",
                 q   |-> q, d |-> IF way = "hash" THEN 2 ELSE 0, key |-> None,
                 saw |-> None]
<1>1. /\ loc' = [loc EXCEPT ![r] = m]
      /\ calm' = IF way = "session" THEN calm \cup {r} ELSE calm
      /\ loc[r].pc = "free"
  BY DEF Arrive, Set
<1>2. m \in Way
  BY DEF Way
<1>3. /\ m.pc = IF way \in {"session", "hash"} THEN "get" ELSE "select"
      /\ m.q = q /\ m.d = (IF way = "hash" THEN 2 ELSE 0) /\ m.saw = None
  OBVIOUS
<1> HIDE DEF m
<1>4. Knows(m)
  BY <1>3 DEF Knows
<1>5. r \in calm => Keeps(loc[r], bind[Session(loc[r].q)])
  BY WhereItIs
<1>6. r \in calm' => Keeps(m, bind'[Session(m.q)])
  BY <1>1, <1>3, <1>5 DEF Keeps
<1>7. calm' \in SUBSET Requests
  BY <1>1 DEF Now, Under
<1> QED BY <1>1, <1>2, <1>4, <1>6, <1>7 DEF Steps, Moves

LEMMA MissedSteps ==
  ASSUME Now, NEW r \in Requests, Set(r, Missed(r)), calm' \in SUBSET calm,
         loc[r].pc \in {"get", "unrecord"}
  PROVE  Steps(r)
<1> DEFINE l == loc[r]  m == Missed(r)
<1>1. l \in Way /\ Knows(l) /\ (r \in calm => Keeps(l, bind[Session(l.q)])) /\ l.d \in {0, 2, 4, 6}
      /\ calm \in SUBSET Requests
  BY WhereItIs
<1>2. /\ m \in Way /\ m.pc \in {"get", "select"} /\ m.q = l.q /\ m.saw = l.saw
      /\ (m.d = 0 <=> l.d = 0) /\ (m.pc = "get" => m.d # 0 /\ l.d # 0)
  <2>1. CASE l.d \in {2, 4}
    <3>1. m = [l EXCEPT !.pc = "get", !.d = l.d + 2]
      BY <2>1 DEF Missed
    <3>2. PICK e \in {4, 6} : e = l.d + 2
      BY <2>1
    <3>3. m = [l EXCEPT !.pc = "get", !.d = e]
      BY <3>1, <3>2
    <3> HIDE DEF m, l
    <3>4. m \in Way /\ m.pc = "get" /\ m.q = l.q /\ m.saw = l.saw /\ m.d = e
      BY <1>1, <3>3 DEF Way
    <3> QED BY <2>1, <3>4
  <2>2. CASE l.d \notin {2, 4}
    <3>1. m = [l EXCEPT !.pc = "select"]
      BY <2>2 DEF Missed
    <3> HIDE DEF m
    <3> QED BY <1>1, <3>1 DEF Way
  <2> QED BY <2>1, <2>2
<1>3. loc' = [loc EXCEPT ![r] = m]
  BY DEF Set
<1> HIDE DEF m, l
<1>4. Route(l.q) = "session" => l.d = 0
  BY <1>1 DEF Knows, l
<1>5. Route(l.q) = "hash" => l.d # 0
  BY <1>1 DEF Knows, l
<1>6. Knows(m)
  BY <1>1, <1>2, <1>4, <1>5 DEF Knows, l
<1>7. r \in calm' => Keeps(m, bind'[Session(m.q)])
  BY <1>1, <1>2 DEF Keeps
<1> QED BY <1>1, <1>2, <1>3, <1>6, <1>7 DEF Steps, Moves

LEMMA GetSteps ==
  ASSUME Now, NEW r \in Requests, Get(r)
  PROVE  Steps(r)
<1> DEFINE l == loc[r]  c == Name(r)
<1>1. /\ l \in Way /\ Knows(l) /\ (r \in calm => Keeps(l, bind[Session(l.q)]))
      /\ \A n \in Names : bind[n] \in Keys \cup {None}
      /\ calm \in SUBSET Requests /\ l.d \in {0, 2, 4, 6}
  BY WhereItIs
<1>2. l.pc = "get" /\ calm' = calm /\ bind' = bind
  BY DEF Get, store
<1>3. CASE c = None \/ bind[c] = None
  BY <1>2, <1>3, MissedSteps DEF Get
<1>4. CASE ~ (c = None \/ bind[c] = None)
  <2> DEFINE m == [l EXCEPT !.pc = "details", !.key = bind[c]]
  <2>1. loc' = [loc EXCEPT ![r] = m]
    BY <1>4 DEF Get, Set
  <2>2. l.q \in Kinds /\ Route(l.q) \in {"session", "hash"}
        /\ (Route(l.q) = "session" => l.d = 0) /\ (Route(l.q) = "hash" => l.d # 0)
        /\ l.saw = None
    BY <1>1, <1>2 DEF Knows
  <2>3. c = NameAt(l) /\ c \in Names
    <3>1. c = NameAt(l)
      BY NamesAre
    <3>2. NameAt(l) \in Sessions \cup Hashes \cup {None}
      BY <1>1, <2>2, NamesOfKinds DEF NameAt
    <3> QED BY <1>4, <3>1, <3>2 DEF Names
  <2>4. bind[c] \in Keys
    BY <1>1, <1>4, <2>3
  <2>5. /\ m \in Way /\ m.pc = "details" /\ m.q = l.q /\ m.d = l.d /\ m.saw = l.saw
        /\ m.key = bind[c]
    BY <1>1, <2>4 DEF Way
  <2> HIDE DEF m
  <2>6. NameAt(m) = NameAt(l)
    BY <2>5 DEF NameAt
  <2>7. Knows(m)
    BY <2>2, <2>3, <2>4, <2>5, <2>6 DEF Knows
  <2>8. r \in calm' => Keeps(m, bind'[Session(m.q)])
    <3> SUFFICES ASSUME r \in calm PROVE Keeps(m, bind[Session(l.q)])
      BY <1>2, <2>5
    <3>1. Route(l.q) = "session" /\ c = Session(l.q)
      BY <1>1, <2>2, <2>3 DEF Keeps, NameAt
    <3> QED BY <2>5, <3>1 DEF Keeps
  <2> QED BY <1>1, <1>2, <2>1, <2>5, <2>7, <2>8 DEF Steps, Moves
<1> QED BY <1>3, <1>4

LEMMA DoneSteps ==
  ASSUME Now, NEW r \in Requests, NEW k \in Keys \cup {None}, Done(r, k),
         calm' \in SUBSET calm, loc[r].pc # "free",
         r \in calm' => bind' = bind /\ (k = bind[Session(loc[r].q)] \/ k = None)
  PROVE  Steps(r)
<1>1. Under /\ calm \in SUBSET Requests /\ (r \in calm => Keeps(loc[r], bind[Session(loc[r].q)]))
  BY WhereItIs DEF Now
<1>2. PICK m : Moves(r, m) /\ m.pc = "done" /\ m.key = k /\ m.q = loc[r].q
  BY <1>1, DoneIs
<1>3. r \in calm' => Keeps(m, bind'[Session(m.q)])
  BY <1>1, <1>2 DEF Keeps
<1> QED BY <1>2, <1>3 DEF Steps

\* The names of a request of a session.
LEMMA OfASession ==
  ASSUME NEW l, Knows(l), l.pc \notin {"free", "done"}, Route(l.q) = "session"
  PROVE  /\ l.q \in Kinds /\ l.d = 0 /\ NameAt(l) = Session(l.q)
         /\ Session(l.q) \in Sessions /\ Session(l.q) \in Names
<1>1. l.q \in Kinds /\ l.d = 0
  BY DEF Knows
<1> QED BY <1>1, NamesOfKinds, Constants DEF NameAt

LEMMA DetailsSteps ==
  ASSUME Now, NEW r \in Requests, Details(r)
  PROVE  Steps(r)
<1> DEFINE l == loc[r]
<1>1. /\ l \in Way /\ Knows(l) /\ (r \in calm => Keeps(l, bind[Session(l.q)]))
      /\ calm \in SUBSET Requests /\ None \notin Names /\ None \notin Keys
  BY WhereItIs
<1>2. l.pc = "details" /\ calm' = calm /\ bind' = bind
  BY DEF Details, store
<1>3. /\ l.key \in Keys /\ l.q \in Kinds /\ NameAt(l) \in Names
      /\ Route(l.q) \in {"session", "hash"} /\ l.saw = None
      /\ (Route(l.q) = "session" => l.d = 0) /\ (Route(l.q) = "hash" => l.d # 0)
  BY <1>1, <1>2 DEF Knows
<1>4. ASSUME NEW pc \in {"unbind", "refresh"}, loc' = [loc EXCEPT ![r] = [l EXCEPT !.pc = pc]]
      PROVE  Steps(r)
  <2> DEFINE m == [l EXCEPT !.pc = pc]
  <2>1. m \in Way /\ m.pc = pc /\ m.q = l.q /\ m.d = l.d /\ m.saw = l.saw /\ m.key = l.key
    BY <1>1 DEF Way
  <2> HIDE DEF m
  <2>2. NameAt(m) = NameAt(l)
    BY <2>1 DEF NameAt
  <2>3. Knows(m)
    BY <1>3, <2>1, <2>2 DEF Knows
  <2>4. r \in calm' => Keeps(m, bind'[Session(m.q)])
    BY <1>1, <1>2, <2>1 DEF Keeps
  <2> QED BY <1>1, <1>2, <1>4, <2>1, <2>3, <2>4 DEF Steps, Moves, m
<1>5. CASE Goto(r, "unbind") \/ Goto(r, "refresh")
  BY <1>4, <1>5 DEF Goto, Set
<1>6. CASE Done(r, l.key)
  <2>1. r \in calm' => l.key = bind[Session(l.q)]
    BY <1>1, <1>2 DEF Keeps
  <2> QED BY <1>2, <1>3, <1>6, <2>1, DoneSteps
<1>7. CASE l.d > 2 /\ Set(r, [loc[r] EXCEPT !.pc = "hashbind", !.saw = loc[r].key])
  <2> DEFINE m == [l EXCEPT !.pc = "hashbind", !.saw = l.key]
  <2>1. loc' = [loc EXCEPT ![r] = m]
    BY <1>7 DEF Set
  <2>2. m \in Way /\ m.pc = "hashbind" /\ m.q = l.q /\ m.d = l.d /\ m.saw = l.key /\ m.key = l.key
    BY <1>1, <1>3 DEF Way
  <2> HIDE DEF m
  <2>3. NameAt(m) = NameAt(l)
    BY <2>2 DEF NameAt
  <2>4. l.d \in {4, 6}
    BY <1>1, <1>7 DEF Way
  <2>5. NameAt(l) = CalculatePromptHash(l.q, l.d)
    BY <2>4 DEF NameAt
  <2>6. NameAt(l) \in Hashes /\ CalculatePromptHash(l.q, 2) \in Hashes
    BY <1>1, <1>3, <2>4, <2>5, NamesOfKinds
  <2>7. Knows(m)
    BY <1>3, <2>2, <2>3, <2>6 DEF Knows
  <2>8. r \notin calm
    BY <1>1, <1>3, <2>4 DEF Keeps
  <2> QED BY <1>1, <1>2, <2>1, <2>2, <2>7, <2>8 DEF Steps, Moves
<1> QED BY <1>5, <1>6, <1>7 DEF Details

\* A request that goes to pc with what it knows.
LEMMA GoSteps ==
  ASSUME Now, NEW r \in Requests, NEW pc \in Places, NEW k \in Keys \cup {None},
         loc' = [loc EXCEPT ![r] = [loc[r] EXCEPT !.pc = pc, !.key = k]],
         calm' \in SUBSET calm,
         \A m : (/\ m.pc = pc /\ m.q = loc[r].q /\ m.d = loc[r].d /\ m.key = k
                 /\ m.saw = loc[r].saw /\ NameAt(m) = NameAt(loc[r]))
                => Knows(m) /\ (r \in calm' => Keeps(m, bind'[Session(loc[r].q)]))
  PROVE  Steps(r)
<1> DEFINE l == loc[r]  m == [l EXCEPT !.pc = pc, !.key = k]
<1>1. l \in Way /\ calm \in SUBSET Requests
  BY WhereItIs
<1>2. m \in Way /\ m.pc = pc /\ m.q = l.q /\ m.d = l.d /\ m.saw = l.saw /\ m.key = k
  BY <1>1 DEF Way, Places
<1> HIDE DEF m
<1>3. NameAt(m) = NameAt(l)
  BY <1>2 DEF NameAt
<1>4. Knows(m) /\ (r \in calm' => Keeps(m, bind'[Session(m.q)]))
  BY <1>2, <1>3
<1> QED BY <1>1, <1>2, <1>4 DEF Steps, Moves, m

LEMMA GotoSteps ==
  ASSUME Now, NEW r \in Requests, NEW pc \in Places, Goto(r, pc),
         calm' \in SUBSET calm,
         \A m : (/\ m.pc = pc /\ m.q = loc[r].q /\ m.d = loc[r].d /\ m.key = loc[r].key
                 /\ m.saw = loc[r].saw /\ NameAt(m) = NameAt(loc[r]))
                => Knows(m) /\ (r \in calm' => Keeps(m, bind'[Session(loc[r].q)]))
  PROVE  Steps(r)
<1> DEFINE l == loc[r]  m == [l EXCEPT !.pc = pc]
<1>1. l \in Way /\ calm \in SUBSET Requests
  BY WhereItIs
<1>2. m \in Way /\ m.pc = pc /\ m.q = l.q /\ m.d = l.d /\ m.saw = l.saw /\ m.key = l.key
  BY <1>1 DEF Way, Places
<1>5. loc' = [loc EXCEPT ![r] = m]
  BY DEF Goto, Set
<1> HIDE DEF m
<1>3. NameAt(m) = NameAt(l)
  BY <1>2 DEF NameAt
<1>4. Knows(m) /\ (r \in calm' => Keeps(m, bind'[Session(m.q)]))
  BY <1>2, <1>3
<1> QED BY <1>1, <1>2, <1>4, <1>5 DEF Steps, Moves

LEMMA RefreshSteps ==
  ASSUME Now, NEW r \in Requests, Refresh(r)
  PROVE  Steps(r)
<1> DEFINE l == loc[r]  c == Name(r)
<1>1. /\ Knows(l) /\ (r \in calm => Keeps(l, bind[Session(l.q)]))
      /\ \A n \in Names : bind[n] \in Keys \cup {None}
  BY WhereItIs
<1>2. /\ l.pc = "refresh" /\ bind' = [bind EXCEPT ![c] = l.key] /\ c = NameAt(l)
      /\ calm' \in SUBSET calm /\ Goto(r, "touch")
  BY NamesAre DEF Refresh, Unsettled
<1>3. /\ l.q \in Kinds /\ NameAt(l) \in Names /\ l.key \in Keys
      /\ Route(l.q) \in {"session", "hash"} /\ l.saw = None
      /\ (Route(l.q) = "session" => l.d = 0) /\ (Route(l.q) = "hash" => l.d # 0)
  BY <1>1, <1>2 DEF Knows
<1>4. bind'[c] = l.key
  BY <1>2, <1>3 DEF Now, Recorded
<1>5. Route(l.q) = "session" => c = Session(l.q)
  BY <1>2, <1>3 DEF NameAt
<1> HIDE DEF l, c
<1>6. ASSUME NEW m, m.pc = "touch", m.q = l.q, m.d = l.d, m.key = l.key, m.saw = l.saw,
             NameAt(m) = NameAt(l)
      PROVE  Knows(m) /\ (r \in calm' => Keeps(m, bind'[Session(l.q)]))
  <2>1. Knows(m)
    BY <1>3, <1>6 DEF Knows
  <2>2. r \in calm' => Route(l.q) = "session"
    BY <1>1, <1>2 DEF Keeps
  <2> QED BY <1>4, <1>5, <1>6, <2>1, <2>2 DEF Keeps
<1>7. "touch" \in Places
  BY DEF Places
<1> QED BY <1>2, <1>6, <1>7, GotoSteps DEF l

LEMMA TouchSteps ==
  ASSUME Now, NEW r \in Requests, Touch(r)
  PROVE  Steps(r)
<1>1. /\ loc[r].pc = "touch" /\ calm' = calm /\ bind' = bind /\ Done(r, loc[r].key)
  BY DEF Touch, store
<1>2. loc[r].key \in Keys \cup {None} /\ (r \in calm => Keeps(loc[r], bind[Session(loc[r].q)]))
  BY WhereItIs
<1>3. r \in calm' => loc[r].key = bind[Session(loc[r].q)]
  BY <1>1, <1>2 DEF Keeps
<1> QED BY <1>1, <1>2, <1>3, DoneSteps

LEMMA UnbindSteps ==
  ASSUME Now, NEW r \in Requests, Unbind(r)
  PROVE  Steps(r)
<1> DEFINE l == loc[r]  c == Name(r)
<1>1. /\ Knows(l) /\ (r \in calm => Keeps(l, bind[Session(l.q)])) /\ None \notin Keys
  BY WhereItIs
<1>2. l.pc = "unbind" /\ Delete(c) /\ Goto(r, "unrecord") /\ c = NameAt(l)
  BY NamesAre DEF Unbind
<1>3. calm' \in SUBSET calm
  BY <1>2 DEF Delete, Unsettled
<1>4. /\ l.q \in Kinds /\ NameAt(l) \in Names /\ l.key \in Keys
      /\ Route(l.q) \in {"session", "hash"} /\ l.saw = None
      /\ (Route(l.q) = "session" => l.d = 0) /\ (Route(l.q) = "hash" => l.d # 0)
  BY <1>1, <1>2 DEF Knows
<1>5. r \notin calm'
  <2> SUFFICES ASSUME r \in calm PROVE r \notin calm'
    BY <1>3
  <2>1. Route(l.q) = "session" /\ l.key = bind[Session(l.q)]
    BY <1>1, <1>2 DEF Keeps
  <2>2. c = Session(l.q)
    BY <1>2, <1>4, <2>1 DEF NameAt
  <2>3. bind[c] # None
    BY <1>1, <1>4, <2>1, <2>2
  <2>4. calm' = Unsettled(c)
    BY <1>2, <2>3 DEF Delete
  <2> QED BY <2>1, <2>2, <2>4 DEF Unsettled, Session
<1> HIDE DEF l, c
<1>6. ASSUME NEW m, m.pc = "unrecord", m.q = l.q, m.d = l.d, m.key = l.key, m.saw = l.saw,
             NameAt(m) = NameAt(l)
      PROVE  Knows(m)
  BY <1>4, <1>6 DEF Knows
<1>7. "unrecord" \in Places
  BY DEF Places
<1> QED BY <1>2, <1>3, <1>5, <1>6, <1>7, GotoSteps DEF l

LEMMA GiveBackSteps ==
  ASSUME Now, NEW r \in Requests, GiveBack(r)
  PROVE  Steps(r)
BY MissedSteps DEF GiveBack, store

LEMMA SelectKeySteps ==
  ASSUME Now, NEW r \in Requests, SelectKey(r), alive \subseteq Keys
  PROVE  Steps(r)
<1> DEFINE l == loc[r]
<1>1. /\ Knows(l) /\ (r \in calm => Keeps(l, bind[Session(l.q)]))
  BY WhereItIs
<1>2. l.pc = "select" /\ calm' = calm /\ bind' = bind
  BY DEF SelectKey, store
<1>3. l.q \in Kinds /\ l.saw = None
      /\ (Route(l.q) = "session" => l.d = 0) /\ (Route(l.q) = "hash" => l.d # 0)
  BY <1>1, <1>2 DEF Knows
<1>4. r \in calm => Route(l.q) = "session"
  BY <1>1 DEF Keeps
<1>5. ASSUME NEW k \in Keys \cup {None}, Done(r, k), r \in calm => k = None
      PROVE  Steps(r)
  BY <1>2, <1>5, DoneSteps
<1>6. ASSUME NEW k \in Keys, Route(l.q) = "session",
             Set(r, [loc[r] EXCEPT !.pc = "setnx", !.key = k])
      PROVE  Steps(r)
  <2>1. ASSUME NEW m, m.pc = "setnx", m.q = l.q, m.d = l.d, m.key = k, m.saw = l.saw,
               NameAt(m) = NameAt(l)
        PROVE  Knows(m) /\ (r \in calm' => Keeps(m, bind'[Session(l.q)]))
    <3>1. Knows(m)
      BY <1>3, <1>6, <2>1 DEF Knows
    <3>2. r \in calm' => Keeps(m, bind'[Session(l.q)])
      BY <1>6, <2>1 DEF Keeps
    <3> QED BY <3>1, <3>2
  <2>2. "setnx" \in Places
    BY DEF Places
  <2>3. loc' = [loc EXCEPT ![r] = [loc[r] EXCEPT !.pc = "setnx", !.key = k]]
    BY <1>6 DEF Set
  <2> HIDE DEF l
  <2> QED BY <1>2, <2>1, <2>2, <2>3, GoSteps DEF l
<1>7. ASSUME NEW k \in Keys, Route(l.q) = "hash", NewHash(r) # None,
             Set(r, [loc[r] EXCEPT !.pc = "hashbind", !.key = k])
      PROVE  Steps(r)
  <2>1. CalculatePromptHash(l.q, 2) \in Hashes
    BY <1>3, <1>7, NamesAre, NamesOfKinds
  <2>2. ASSUME NEW m, m.pc = "hashbind", m.q = l.q, m.d = l.d, m.key = k, m.saw = l.saw,
               NameAt(m) = NameAt(l)
        PROVE  Knows(m)
    BY <1>3, <1>7, <2>1, <2>2 DEF Knows
  <2>3. "hashbind" \in Places
    BY DEF Places
  <2>4. loc' = [loc EXCEPT ![r] = [loc[r] EXCEPT !.pc = "hashbind", !.key = k]]
    BY <1>7 DEF Set
  <2>5. r \notin calm'
    BY <1>2, <1>4, <1>7
  <2> HIDE DEF l
  <2> QED BY <1>2, <2>2, <2>3, <2>4, <2>5, GoSteps DEF l
<1>8. CASE alive = {} /\ Done(r, None)
  BY <1>5, <1>8
<1>9. ASSUME NEW k \in alive,
        CASE Route(l.q) \in {"rotate", "plain"} -> Done(r, k)
          [] Route(l.q) = "session" ->
               Set(r, [loc[r] EXCEPT !.pc = "setnx", !.key = k])
          [] OTHER -> IF NewHash(r) = None THEN Done(r, k)
                      ELSE Set(r, [loc[r] EXCEPT !.pc = "hashbind", !.key = k])
      PROVE  Steps(r)
  <2>1. k \in Keys /\ Route(l.q) \in {"rotate", "plain", "session", "hash"}
    BY DEF Route
  <2>2. CASE Route(l.q) \in {"rotate", "plain"}
    BY <1>4, <1>5, <1>9, <2>1, <2>2
  <2>3. CASE Route(l.q) = "session"
    BY <1>6, <1>9, <2>1, <2>3
  <2>4. CASE Route(l.q) = "hash"
    BY <1>4, <1>5, <1>7, <1>9, <2>1, <2>4
  <2> QED BY <2>1, <2>2, <2>3, <2>4
<1> QED BY <1>8, <1>9 DEF SelectKey

\* Where a request is that has selected a key for its session.
LEMMA InItsSession ==
  ASSUME Now, NEW r \in Requests, loc[r].pc \in {"setnx", "record", "other", "theirs"}
  PROVE  LET l == loc[r]  b == bind[Session(l.q)] IN
         /\ Knows(l) /\ (r \in calm => Keeps(l, b)) /\ calm \in SUBSET Requests
         /\ l.q \in Kinds /\ Route(l.q) = "session" /\ l.d = 0 /\ l.key \in Keys
         /\ Name(r) = Session(l.q) /\ NameAt(l) = Session(l.q) /\ Session(l.q) \in Names
         /\ b \in Keys \cup {None} /\ (l.pc # "theirs" => l.saw = None)
         /\ (l.pc = "theirs" => l.saw \in Keys) /\ None \notin Keys
<1>1. /\ Knows(loc[r]) /\ (r \in calm => Keeps(loc[r], bind[Session(loc[r].q)]))
      /\ calm \in SUBSET Requests /\ None \notin Keys
      /\ \A c \in Names : bind[c] \in Keys \cup {None}
  BY WhereItIs
<1>2. Route(loc[r].q) = "session" /\ loc[r].key \in Keys
  BY <1>1 DEF Knows
<1>3. (loc[r].pc # "theirs" => loc[r].saw = None) /\ (loc[r].pc = "theirs" => loc[r].saw \in Keys)
  BY <1>1 DEF Knows
<1> QED BY <1>1, <1>2, <1>3, OfASession, NamesAre

LEMMA HashOrDoneSteps ==
  ASSUME Now, NEW r \in Requests, loc[r].pc \in {"record", "other", "theirs"},
         HashOrDone(r), calm' \in SUBSET calm, bind' = bind,
         r \in calm' => loc[r].key = bind[Session(loc[r].q)]
  PROVE  Steps(r)
<1> DEFINE l == loc[r]
<1>1. l.q \in Kinds /\ Route(l.q) = "session" /\ l.d = 0 /\ l.key \in Keys
  BY InItsSession
<1>2. CASE NewHash(r) = None
  BY <1>1, <1>2, DoneSteps DEF HashOrDone
<1>3. CASE NewHash(r) # None
  <2>1. CalculatePromptHash(l.q, 2) \in Hashes
    BY <1>1, <1>3, NamesAre, NamesOfKinds
  <2>2. ASSUME NEW m, m.pc = "hashbind", m.q = l.q, m.d = l.d, m.key = l.key, m.saw = l.saw,
               NameAt(m) = NameAt(l)
        PROVE  Knows(m) /\ (r \in calm' => Keeps(m, bind'[Session(l.q)]))
    <3>1. Knows(m)
      BY <1>1, <2>1, <2>2 DEF Knows
    <3>2. r \in calm' => Keeps(m, bind'[Session(l.q)])
      BY <1>1, <2>2 DEF Keeps
    <3> QED BY <3>1, <3>2
  <2>3. Goto(r, "hashbind") /\ "hashbind" \in Places
    BY <1>3 DEF HashOrDone, Places
  <2> HIDE DEF l
  <2> QED BY <2>2, <2>3, GotoSteps DEF l
<1> QED BY <1>2, <1>3

LEMMA SetNXSteps ==
  ASSUME Now, NEW r \in Requests, SetNX(r)
  PROVE  Steps(r)
<1> DEFINE l == loc[r]  b == bind[Session(l.q)]
<1>1. l.pc = "setnx" /\ calm' = calm /\ Claim(r, Session(l.q))
  BY InItsSession DEF SetNX
<1>2. /\ Knows(l) /\ l.q \in Kinds /\ Route(l.q) = "session" /\ l.d = 0 /\ l.key \in Keys
      /\ Session(l.q) \in Names /\ l.saw = None
  BY <1>1, InItsSession
<1>3. ASSUME NEW pc \in {"record", "other"}, Goto(r, pc),
             pc = "record" => bind'[Session(l.q)] = l.key,
             pc = "other" => bind'[Session(l.q)] # None
      PROVE  Steps(r)
  <2>1. ASSUME NEW m, m.pc = pc, m.q = l.q, m.d = l.d, m.key = l.key, m.saw = l.saw,
               NameAt(m) = NameAt(l)
        PROVE  Knows(m) /\ (r \in calm' => Keeps(m, bind'[Session(l.q)]))
    <3>1. Knows(m)
      BY <1>2, <2>1 DEF Knows
    <3>2. r \in calm' => Keeps(m, bind'[Session(l.q)])
      BY <1>2, <1>3, <2>1 DEF Keeps
    <3> QED BY <3>1, <3>2
  <2>2. pc \in Places /\ calm' \in SUBSET calm
    BY <1>1 DEF Places
  <2> HIDE DEF l
  <2> QED BY <1>3, <2>1, <2>2, GotoSteps DEF l
<1>4. CASE b = None
  <2>1. bind'[Session(l.q)] = l.key
    BY <1>1, <1>2, <1>4 DEF Claim, Now, Recorded
  <2> QED BY <1>1, <1>3, <1>4, <2>1 DEF Claim
<1>5. CASE b # None
  BY <1>1, <1>3, <1>5 DEF Claim
<1> QED BY <1>4, <1>5

LEMMA SetNXFailsSteps ==
  ASSUME Now, NEW r \in Requests, SetNXFails(r)
  PROVE  Steps(r)
<1>1. loc[r].pc = "setnx" /\ Done(r, loc[r].key) /\ calm' = calm \ {r}
  BY DEF SetNXFails
<1>2. loc[r].key \in Keys
  BY <1>1, InItsSession
<1> QED BY <1>1, <1>2, DoneSteps

LEMMA RecordSessionSteps ==
  ASSUME Now, NEW r \in Requests, RecordSession(r)
  PROVE  Steps(r)
<1>1. loc[r].pc = "record" /\ HashOrDone(r) /\ calm' = calm /\ bind' = bind
  BY DEF RecordSession, store
<1>2. r \in calm => loc[r].key = bind[Session(loc[r].q)]
  BY <1>1, InItsSession DEF Keeps
<1> QED BY <1>1, <1>2, HashOrDoneSteps

LEMMA OtherSteps ==
  ASSUME Now, NEW r \in Requests, Other(r)
  PROVE  Steps(r)
<1> DEFINE l == loc[r]  b == bind[Session(l.q)]
<1>1. /\ l.pc = "other" /\ bind' = bind /\ b \in Keys \cup {None} /\ Name(r) = Session(l.q)
      /\ Route(l.q) = "session" /\ l.d = 0 /\ l.key \in Keys /\ l.q \in Kinds
      /\ calm \in SUBSET Requests
  BY InItsSession DEF Other, store
<1>2. CASE b = None
  BY <1>1, <1>2, HashOrDoneSteps DEF Other
<1>3. CASE b # None
  <2> DEFINE m == [l EXCEPT !.pc = "theirs", !.saw = b]
  <2>1. loc' = [loc EXCEPT ![r] = m] /\ calm' = calm
    BY <1>1, <1>3 DEF Other, Set
  <2>2. l \in Way
    BY WhereItIs
  <2>3. /\ m \in Way /\ m.pc = "theirs" /\ m.q = l.q /\ m.d = l.d /\ m.saw = b
        /\ m.key = l.key
    BY <1>1, <2>2 DEF Way
  <2> HIDE DEF m
  <2>4. Knows(m)
    BY <1>1, <1>3, <2>3 DEF Knows
  <2>5. r \in calm' => Keeps(m, bind'[Session(m.q)])
    BY <1>1, <2>3 DEF Keeps
  <2> QED BY <1>1, <2>1, <2>3, <2>4, <2>5 DEF Steps, Moves
<1> QED BY <1>2, <1>3

LEMMA TheirsSteps ==
  ASSUME Now, NEW r \in Requests, Theirs(r)
  PROVE  Steps(r)
<1>1. /\ loc[r].pc = "theirs" /\ bind' = bind
      /\ IF loc[r].saw \in alive THEN Done(r, loc[r].saw) /\ calm' = calm
                                 ELSE HashOrDone(r) /\ calm' = calm \ {r}
  BY DEF Theirs, store
<1>2. /\ loc[r].saw \in Keys /\ (r \in calm => loc[r].saw = bind[Session(loc[r].q)])
  BY <1>1, InItsSession DEF Keeps
<1>3. CASE loc[r].saw \in alive
  BY <1>1, <1>2, <1>3, DoneSteps
<1>4. CASE loc[r].saw \notin alive
  BY <1>1, <1>4, HashOrDoneSteps
<1> QED BY <1>3, <1>4

LEMMA InItsHash ==
  ASSUME Now, NEW r \in Requests, loc[r].pc \in {"hashbind", "hashrecord"}
  PROVE  LET l == loc[r]  b == bind[Session(l.q)] IN
         /\ l \in Way /\ Knows(l) /\ (r \in calm => Keeps(l, b)) /\ calm \in SUBSET Requests
         /\ l.q \in Kinds /\ l.key \in Keys
         /\ NewHash(r) \in Hashes /\ NewHash(r) \in Names
         /\ l.d > 2 /\ l.saw # None => Name(r) \in Hashes
         /\ Session(l.q) \in Sessions \cup {None} /\ Session(l.q) \notin Hashes
<1>1. /\ loc[r] \in Way /\ Knows(loc[r]) /\ (r \in calm => Keeps(loc[r], bind[Session(loc[r].q)]))
      /\ calm \in SUBSET Requests
  BY WhereItIs
<1>2. loc[r].q \in Kinds /\ loc[r].key \in Keys /\ CalculatePromptHash(loc[r].q, 2) \in Hashes
      /\ (loc[r].d > 2 /\ loc[r].saw # None => NameAt(loc[r]) \in Hashes)
  BY <1>1 DEF Knows
<1>3. Session(loc[r].q) \in Sessions \cup {None}
  BY <1>2, NamesOfKinds
<1> QED BY <1>1, <1>2, <1>3, NamesAre, Constants

LEMMA HashBindSteps ==
  ASSUME Now, NEW r \in Requests, HashBind(r)
  PROVE  Steps(r)
<1> DEFINE l == loc[r]
<1>1. /\ l.pc = "hashbind" /\ calm' = calm /\ Goto(r, "hashrecord")
      /\ bind' = [bind EXCEPT ![NewHash(r)] = l.key]
  BY DEF HashBind
<1>2. /\ Knows(l) /\ (r \in calm => Keeps(l, bind[Session(l.q)])) /\ NewHash(r) \in Hashes
      /\ Session(l.q) \notin Hashes
  BY <1>1, InItsHash
<1>3. r \in calm => bind'[Session(l.q)] = bind[Session(l.q)]
  <2>1. Session(l.q) # NewHash(r)
    BY <1>2
  <2>2. bind = [c \in Names |-> bind[c]]
    BY DEF Now, Recorded
  <2>4. r \in calm => Session(l.q) \in Names
    BY <1>1, <1>2, OfASession DEF Keeps
  <2> HIDE DEF l
  <2> QED BY <1>1, <2>1, <2>2, <2>4
<1>4. /\ l.q \in Kinds /\ l.key \in Keys /\ CalculatePromptHash(l.q, 2) \in Hashes
      /\ (Route(l.q) = "session" => l.d = 0) /\ (Route(l.q) = "hash" => l.d # 0)
      /\ (l.d > 2 /\ l.saw # None => NameAt(l) \in Hashes)
  BY <1>1, <1>2 DEF Knows
<1>5. ASSUME NEW m, m.pc = "hashrecord", m.q = l.q, m.d = l.d, m.key = l.key, m.saw = l.saw,
             NameAt(m) = NameAt(l)
      PROVE  Knows(m) /\ (r \in calm' => Keeps(m, bind'[Session(l.q)]))
  <2>1. Knows(m)
    BY <1>4, <1>5 DEF Knows
  <2>2. r \in calm' => Keeps(m, bind'[Session(l.q)])
    BY <1>1, <1>2, <1>3, <1>5 DEF Keeps
  <2> QED BY <2>1, <2>2
<1>6. "hashrecord" \in Places
  BY DEF Places
<1> HIDE DEF l
<1> QED BY <1>1, <1>5, <1>6, GotoSteps DEF l

LEMMA HashRecordSteps ==
  ASSUME Now, NEW r \in Requests, HashRecord(r)
  PROVE  Steps(r)
<1>1. loc[r].pc = "hashrecord" /\ Done(r, loc[r].key) /\ calm' = calm /\ bind' = bind
  BY DEF HashRecord, store
<1>2. loc[r].key \in Keys /\ (r \in calm => loc[r].key = bind[Session(loc[r].q)])
  BY <1>1, InItsHash DEF Keeps
<1> QED BY <1>1, <1>2, DoneSteps

LEMMA CallFailsSteps ==
  ASSUME Now, NEW r \in Requests, CallFails(r)
  PROVE  Steps(r)
<1> DEFINE l == loc[r]
<1>1. /\ Knows(l) /\ (r \in calm => Keeps(l, bind[Session(l.q)])) /\ l.key \in Keys \cup {None}
  BY WhereItIs
<1>2. /\ calm' \in SUBSET calm /\ bind' = bind
      /\ l.pc \in {"other", "theirs"} => r \notin calm'
  BY DEF CallFails, store
<1>3. CASE l.pc = "get" /\ Set(r, Missed(r))
  BY <1>2, <1>3, MissedSteps
<1>4. CASE l.pc = "select" /\ Done(r, None)
  BY <1>2, <1>4, DoneSteps
<1>5. CASE l.pc \in {"other", "theirs"} /\ HashOrDone(r)
  BY <1>2, <1>5, HashOrDoneSteps
<1>6. ASSUME NEW pc \in {"unbind", "touch", "unrecord"}, Goto(r, pc),
             l.pc \in {"details", "refresh", "unbind"}
      PROVE  Steps(r)
  <2>1. /\ l.q \in Kinds /\ NameAt(l) \in Names /\ l.key \in Keys
        /\ Route(l.q) \in {"session", "hash"} /\ l.saw = None
        /\ (Route(l.q) = "session" => l.d = 0) /\ (Route(l.q) = "hash" => l.d # 0)
    BY <1>1, <1>6 DEF Knows
  <2> HIDE DEF l
  <2>2. ASSUME NEW m, m.pc = pc, m.q = l.q, m.d = l.d, m.key = l.key, m.saw = l.saw,
               NameAt(m) = NameAt(l)
        PROVE  Knows(m) /\ (r \in calm' => Keeps(m, bind'[Session(l.q)]))
    <3>1. Knows(m)
      BY <1>6, <2>1, <2>2 DEF Knows
    <3>2. r \in calm' => Keeps(m, bind'[Session(l.q)])
      BY <1>1, <1>2, <1>6, <2>2 DEF Keeps
    <3> QED BY <3>1, <3>2
  <2>3. pc \in Places
    BY <1>6 DEF Places
  <2> QED BY <1>2, <1>6, <2>2, <2>3, GotoSteps DEF l
<1>7. CASE l.pc = "hashbind" /\ Goto(r, "hashrecord")
  <2>1. /\ l.q \in Kinds /\ l.key \in Keys /\ CalculatePromptHash(l.q, 2) \in Hashes
        /\ (Route(l.q) = "session" => l.d = 0) /\ (Route(l.q) = "hash" => l.d # 0)
        /\ (l.d > 2 /\ l.saw # None => NameAt(l) \in Hashes)
    BY <1>1, <1>7 DEF Knows
  <2> HIDE DEF l
  <2>2. ASSUME NEW m, m.pc = "hashrecord", m.q = l.q, m.d = l.d, m.key = l.key, m.saw = l.saw,
               NameAt(m) = NameAt(l)
        PROVE  Knows(m) /\ (r \in calm' => Keeps(m, bind'[Session(l.q)]))
    <3>1. Knows(m)
      BY <2>1, <2>2 DEF Knows
    <3>2. r \in calm' => Keeps(m, bind'[Session(l.q)])
      BY <1>1, <1>2, <1>7, <2>2 DEF Keeps
    <3> QED BY <3>1, <3>2
  <2>3. "hashrecord" \in Places
    BY DEF Places
  <2> QED BY <1>2, <1>7, <2>2, <2>3, GotoSteps DEF l
<1> QED BY <1>3, <1>4, <1>5, <1>6, <1>7 DEF CallFails

(***************************************************************************)
(* Every step of the others preserves it too: a request that could bind    *)
(* the session of another away from its key makes it uneasy (CalmKeeps is  *)
(* about the calm ones only).                                              *)
(***************************************************************************)
\* Whoever stays calm has its binding, or never had one.
Spares(q) ==
  LET s == Session(loc[q].q) IN
  q \in calm /\ (bind'[s] = bind[s] \/ bind[s] = None)

LEMMA CalmAreOfSessions ==
  ASSUME Now, NEW q \in calm
  PROVE  /\ q \in Requests /\ Keeps(loc[q], bind[Session(loc[q].q)])
         /\ Route(loc[q].q) = "session" /\ Session(loc[q].q) \in Names
         /\ Session(loc[q].q) \notin Hashes
<1>1. q \in Requests /\ Keeps(loc[q], bind[Session(loc[q].q)])
  BY DEF Now, Under, CalmKeeps
<1>2. Knows(loc[q])
  BY <1>1, WhereItIs
<1>3. loc[q].q \in Kinds /\ Route(loc[q].q) = "session"
  BY <1>1, <1>2 DEF Knows, Keeps
<1> QED BY <1>1, <1>3, NamesOfKinds, Constants

LEMMA SparedKeeps ==
  ASSUME Now, NEW q \in Requests, Spares(q)
  PROVE  Keeps(loc[q], bind'[Session(loc[q].q)])
<1> DEFINE l == loc[q]  s == Session(l.q)
<1>1. /\ Knows(l) /\ Keeps(l, bind[s]) /\ None \notin Keys
  BY WhereItIs DEF Spares
<1>2. CASE bind'[s] = bind[s]
  BY <1>1, <1>2
<1>3. CASE bind[s] = None
  <2>1. l.pc \notin {"details", "refresh", "touch", "unbind", "record", "hashbind",
                     "hashrecord", "theirs", "other"}
    BY <1>1, <1>3 DEF Knows, Keeps
  <2>2. l.pc = "done" => l.key = None
    BY <1>1, <1>3 DEF Keeps
  <2> QED BY <1>1, <2>1, <2>2 DEF Keeps
<1> QED BY <1>2, <1>3 DEF Spares

LEMMA DeleteSpares ==
  ASSUME Now, NEW c \in Names, Delete(c)
  PROVE  calm' \in SUBSET calm /\ \A q \in calm' : Spares(q)
<1>1. calm' \in SUBSET calm
  BY DEF Delete, Unsettled
<1>2. ASSUME NEW q \in calm' PROVE Spares(q)
  <2> DEFINE s == Session(loc[q].q)
  <2>1. q \in calm /\ Route(loc[q].q) = "session" /\ s \in Names /\ q \in Requests
    BY <1>1, CalmAreOfSessions
  <2>2. bind = [n \in Names |-> bind[n]] /\ bind' = [bind EXCEPT ![c] = None]
    BY DEF Now, Recorded, Delete
  <2>3. CASE s = c
    <3>1. bind[c] = None
      BY <2>1, <2>3 DEF Delete, Unsettled, Session
    <3> QED BY <2>1, <2>3, <3>1 DEF Spares
  <2>4. CASE s # c
    <3>1. bind'[s] = bind[s]
      <4> HIDE DEF s
      <4> QED BY <2>1, <2>2, <2>4
    <3> QED BY <2>1, <3>1 DEF Spares
  <2> QED BY <2>3, <2>4
<1> QED BY <1>1, <1>2

LEMMA StepKeeps ==
  ASSUME Now, NEW r \in Requests, Steps(r), \A q \in calm' \ {r} : Spares(q)
  PROVE  Under' /\ CalmKeeps'
<1>1. PICK l : Moves(r, l) /\ (r \in calm' => Keeps(l, bind'[Session(l.q)]))
  BY DEF Steps
<1>2. Under' /\ loc'[r] = l /\ \A q \in Requests \ {r} : loc'[q] = loc[q]
  BY <1>1, Moved DEF Now
<1>3. ASSUME NEW q \in calm' PROVE Keeps(loc'[q], bind'[Session(loc'[q].q)])
  <2>1. CASE q = r
    BY <1>1, <1>2, <2>1
  <2>2. CASE q # r
    <3>1. q \in Requests /\ Spares(q)
      BY <1>1, <2>2 DEF Moves
    <3>2. loc'[q] = loc[q]
      BY <1>2, <2>2, <3>1
    <3> QED BY <3>1, <3>2, SparedKeeps
  <2> QED BY <2>1, <2>2
<1>4. CalmKeeps' <=> \A q \in calm' : Keeps(loc'[q], bind'[Session(loc'[q].q)])
  BY DEF CalmKeeps, Keeps, Session
<1> QED BY <1>2, <1>3, <1>4

LEMMA StandKeeps ==
  ASSUME Now, loc' = loc, calm' \in SUBSET calm, \A q \in calm' : Spares(q)
  PROVE  Under' /\ CalmKeeps'
<1>1. Under' <=> /\ loc' \in [Requests -> Way] /\ calm' \in SUBSET Requests
                 /\ \A r \in Requests : Knows(loc'[r])
  BY DEF Under, Knows, NameAt, Session
<1>2. Under /\ Under'
  BY <1>1 DEF Now, Under
<1>3. ASSUME NEW q \in calm' PROVE Keeps(loc'[q], bind'[Session(loc'[q].q)])
  <2>1. q \in Requests /\ Spares(q)
    BY <1>2 DEF Under
  <2> QED BY <2>1, SparedKeeps
<1>4. CalmKeeps' <=> \A q \in calm' : Keeps(loc'[q], bind'[Session(loc'[q].q)])
  BY DEF CalmKeeps, Keeps, Session
<1> QED BY <1>2, <1>3, <1>4

\* A step that leaves requests and bindings alone.
LEMMA ElseKeeps ==
  ASSUME Now, loc' = loc, calm' = calm, bind' = bind
  PROVE  Under' /\ CalmKeeps'
BY StandKeeps DEF Spares

LEMMA RequestKeeps ==
  ASSUME Now, alive \subseteq Keys, NEW r \in Requests,
         (\E q \in Kinds : Arrive(r, q)) \/ RequestStep(r)
  PROVE  Under' /\ CalmKeeps'
<1>1. ASSUME Steps(r), calm' \in SUBSET (calm \cup {r}), bind' = bind
      PROVE  Under' /\ CalmKeeps'
  BY <1>1, StepKeeps DEF Spares
<1>2. CASE \E q \in Kinds : Arrive(r, q)
  <2>1. calm' \in SUBSET (calm \cup {r}) /\ bind' = bind
    BY <1>2 DEF Arrive, store
  <2> QED BY <1>1, <1>2, <2>1, ArriveSteps
<1>3. CASE Get(r)
  BY <1>1, <1>3, GetSteps DEF Get, store
<1>4. CASE Details(r)
  BY <1>1, <1>4, DetailsSteps DEF Details, store
<1>5. CASE Refresh(r)
  <2> DEFINE c == Name(r)
  <2>1. Steps(r)
    BY <1>5, RefreshSteps
  <2>2. ASSUME NEW q \in calm' \ {r} PROVE Spares(q)
    <3>1. /\ calm' = IF bind[c] = loc[r].key THEN calm ELSE Unsettled(c)
          /\ bind' = [bind EXCEPT ![c] = loc[r].key]
      BY <1>5 DEF Refresh
    <3>2. q \in calm
      BY <3>1 DEF Unsettled
    <3> DEFINE s == Session(loc[q].q)
    <3>3. Route(loc[q].q) = "session" /\ s \in Names /\ q \in Requests
      BY <3>2, CalmAreOfSessions
    <3>4. s = c => bind[c] = loc[r].key
      BY <3>1, <3>3 DEF Unsettled, Session
    <3>5. bind = [n \in Names |-> bind[n]]
      BY DEF Now, Recorded
    <3>6. bind'[s] = bind[s]
      <4> HIDE DEF s, c
      <4> QED BY <3>1, <3>3, <3>4, <3>5
    <3> QED BY <3>2, <3>6 DEF Spares
  <2> QED BY <2>1, <2>2, StepKeeps
<1>6. CASE Touch(r)
  BY <1>1, <1>6, TouchSteps DEF Touch, store
<1>7. CASE Unbind(r)
  <2>1. Knows(loc[r]) /\ loc[r].pc = "unbind" /\ Delete(Name(r))
    BY <1>7, WhereItIs DEF Unbind
  <2>2. Name(r) \in Names
    BY <2>1, NamesAre DEF Knows
  <2>3. \A q \in calm' : Spares(q)
    BY <2>1, <2>2, DeleteSpares
  <2> QED BY <1>7, <2>3, UnbindSteps, StepKeeps
<1>8. CASE GiveBack(r)
  BY <1>1, <1>8, GiveBackSteps DEF GiveBack, store
<1>9. CASE SelectKey(r)
  BY <1>1, <1>9, SelectKeySteps DEF SelectKey, store
<1>10. CASE SetNX(r)
  <2> DEFINE c == Session(loc[r].q)
  <2>1. Steps(r) /\ loc[r].pc = "setnx" /\ calm' = calm /\ Name(r) = c /\ c \in Names
    BY <1>10, SetNXSteps, InItsSession DEF SetNX
  <2>2. ASSUME NEW q \in calm' \ {r} PROVE Spares(q)
    <3> DEFINE s == Session(loc[q].q)
    <3>1. q \in calm /\ s \in Names
      BY <2>1, CalmAreOfSessions
    <3>2. bind' = bind \/ (bind[c] = None /\ bind' = [bind EXCEPT ![c] = loc[r].key])
      BY <1>10, <2>1 DEF SetNX, Claim
    <3>3. bind = [n \in Names |-> bind[n]]
      BY DEF Now, Recorded
    <3>4. bind'[s] = bind[s] \/ bind[s] = None
      <4> HIDE DEF s, c
      <4> QED BY <3>1, <3>2, <3>3
    <3> QED BY <3>1, <3>4 DEF Spares
  <2> QED BY <2>1, <2>2, StepKeeps
<1>11. CASE SetNXFails(r)
  <2> DEFINE c == Session(loc[r].q)
  <2>1. Steps(r) /\ loc[r].pc = "setnx" /\ calm' = calm \ {r} /\ Name(r) = c /\ c \in Names
    BY <1>11, SetNXFailsSteps, InItsSession DEF SetNXFails
  <2>2. ASSUME NEW q \in calm' \ {r} PROVE Spares(q)
    <3> DEFINE s == Session(loc[q].q)
    <3>1. q \in calm /\ s \in Names
      BY <2>1, CalmAreOfSessions
    <3>2. bind' = bind \/ (bind[c] = None /\ bind' = [bind EXCEPT ![c] = loc[r].key])
      BY <1>11, <2>1 DEF SetNXFails
    <3>3. bind = [n \in Names |-> bind[n]]
      BY DEF Now, Recorded
    <3>4. bind'[s] = bind[s] \/ bind[s] = None
      <4> HIDE DEF s, c
      <4> QED BY <3>1, <3>2, <3>3
    <3> QED BY <3>1, <3>4 DEF Spares
  <2> QED BY <2>1, <2>2, StepKeeps
<1>12. CASE RecordSession(r)
  BY <1>1, <1>12, RecordSessionSteps DEF RecordSession, store
<1>13. CASE Other(r)
  <2>1. calm' \in SUBSET calm /\ bind' = bind
    BY <1>13 DEF Other, store
  <2> QED BY <1>1, <1>13, <2>1, OtherSteps
<1>14. CASE Theirs(r)
  <2>1. calm' \in SUBSET calm /\ bind' = bind
    BY <1>14 DEF Theirs, store
  <2> QED BY <1>1, <1>14, <2>1, TheirsSteps
<1>15. CASE HashBind(r)
  <2> DEFINE c == NewHash(r)
  <2>1. /\ Steps(r) /\ loc[r].pc = "hashbind" /\ calm' = calm /\ c \in Hashes
        /\ bind' = [bind EXCEPT ![c] = loc[r].key]
    BY <1>15, HashBindSteps, InItsHash DEF HashBind
  <2>2. ASSUME NEW q \in calm' \ {r} PROVE Spares(q)
    <3> DEFINE s == Session(loc[q].q)
    <3>1. q \in calm /\ s \in Names /\ s \notin Hashes
      BY <2>1, CalmAreOfSessions
    <3>2. bind = [n \in Names |-> bind[n]]
      BY DEF Now, Recorded
    <3>3. bind'[s] = bind[s]
      <4> HIDE DEF s, c
      <4> QED BY <2>1, <3>1, <3>2
    <3> QED BY <3>1, <3>3 DEF Spares
  <2> QED BY <2>1, <2>2, StepKeeps
<1>16. CASE HashRecord(r)
  BY <1>1, <1>16, HashRecordSteps DEF HashRecord, store
<1>17. CASE LateDelete(r)
  <2>1. sched[r] # NoLate /\ Delete(sched[r].name) /\ loc' = loc
    BY <1>17 DEF LateDelete
  <2>2. sched[r].name \in Names
    BY <2>1, Constants DEF Now, Recorded, Late
  <2> QED BY <2>1, <2>2, DeleteSpares, StandKeeps
<1>18. CASE LateRemove(r)
  BY <1>18, ElseKeeps DEF LateRemove, store
<1>19. CASE CallFails(r)
  <2>1. calm' \in SUBSET calm /\ bind' = bind
    BY <1>19 DEF CallFails, store
  <2> QED BY <1>1, <1>19, <2>1, CallFailsSteps
<1>20. CASE LateDeleteFails(r)
  <2>1. /\ sched[r] # NoLate /\ loc' = loc
        /\ Delete(sched[r].name) \/ (bind' = bind /\ calm' = calm)
    BY <1>20 DEF LateDeleteFails
  <2>2. sched[r].name \in Names
    BY <2>1, Constants DEF Now, Recorded, Late
  <2> QED BY <2>1, <2>2, DeleteSpares, StandKeeps, ElseKeeps
<1> QED BY <1>2, <1>3, <1>4, <1>5, <1>6, <1>7, <1>8, <1>9, <1>10, <1>11, <1>12,
           <1>13, <1>14, <1>15, <1>16, <1>17, <1>18, <1>19, <1>20 DEF RequestStep

LEMMA CleanDeleteKeeps ==
  ASSUME Now, CleanDelete
  PROVE  Under' /\ CalmKeeps'
<1>1. PICK t \in clean.todo : Delete(t[1]) \/ (bind' = bind /\ calm' = calm)
  BY DEF CleanDelete
<1>2. t[1] \in Names
  BY DEF Now, Recorded
<1>3. loc' = loc
  BY DEF CleanDelete
<1> QED BY <1>1, <1>2, <1>3, DeleteSpares, StandKeeps, ElseKeeps

LEMMA EntryExpiresKeeps ==
  ASSUME Now, NEW c \in Names, EntryExpires(c)
  PROVE  Under' /\ CalmKeeps'
BY DeleteSpares, StandKeeps DEF EntryExpires

LEMMA ClearRecordsKeeps ==
  ASSUME Now, ClearRecords
  PROVE  Under' /\ CalmKeeps'
<1> DEFINE k == adm.cur
           C == {c \in Names : rec[c].key = k}
<1>0. PICK L \in SUBSET C :
        /\ bind' = [c \in Names |-> IF c \in C \ L THEN None ELSE bind[c]]
        /\ calm' = calm \ UNION {calm \ Unsettled(c) : c \in {d \in C \ L : bind[d] # None}}
  BY DEF ClearRecords
<1> DEFINE D == {d \in C \ L : bind[d] # None}
<1>1. /\ bind' = [c \in Names |-> IF c \in C \ L THEN None ELSE bind[c]]
      /\ calm' = calm \ UNION {calm \ Unsettled(c) : c \in D}
      /\ loc' = loc
  BY <1>0 DEF ClearRecords
<1>2. ASSUME NEW q \in calm' PROVE Spares(q)
  <2> DEFINE s == Session(loc[q].q)
  <2>1. q \in calm
    BY <1>1
  <2>2. q \in Requests /\ Route(loc[q].q) = "session" /\ s \in Names
    BY <2>1, CalmAreOfSessions
  <2>3. q \notin Unsettled(s)
    BY <2>2 DEF Unsettled, Session
  <2>4. s \notin D
    <3> HIDE DEF D, s
    <3> QED BY <1>1, <2>1, <2>3
  <2>5. bind'[s] = bind[s] \/ bind[s] = None
    <3> HIDE DEF s
    <3> QED BY <1>1, <2>2, <2>4
  <2> QED BY <2>1, <2>5 DEF Spares
<1>3. calm' \in SUBSET calm
  BY <1>1
<1> QED BY <1>1, <1>2, <1>3, StandKeeps

LEMMA RestartKeeps ==
  ASSUME Restart
  PROVE  Under' /\ CalmKeeps'
<1>1. loc' = [r \in Requests |-> Free] /\ calm' = {}
  BY DEF Restart
<1>2. Free \in Way
  BY DEF Free, Way
<1>3. Knows(Free)
  BY DEF Knows, Free
<1>4. Under' <=> /\ loc' \in [Requests -> Way] /\ calm' \in SUBSET Requests
                 /\ \A r \in Requests : Knows(loc'[r])
  BY DEF Under, Knows, NameAt, Session
<1>5. CalmKeeps'
  BY <1>1 DEF CalmKeeps
<1> QED BY <1>1, <1>2, <1>3, <1>4, <1>5

LEMMA NextKeeps ==
  ASSUME Now, alive \subseteq Keys, [CacheNext]_cacheVars
  PROVE  Under' /\ CalmKeeps'
<1>1. ASSUME NEW r \in Requests, (\E q \in Kinds : Arrive(r, q)) \/ RequestStep(r)
      PROVE  Under' /\ CalmKeeps'
  BY <1>1, RequestKeeps
<1>2. CASE Adjusts
  BY <1>2, ElseKeeps DEF Adjusts, AdjustRead, AdjustWrite, AdjustFails, store
<1>3. CASE Cleaner
  <2>1. CASE Collect
    BY <2>1, ElseKeeps DEF Collect, store
  <2>2. CASE CleanDelete
    BY <2>2, CleanDeleteKeeps
  <2>3. CASE CleanRemove
    BY <2>3, ElseKeeps DEF CleanRemove, store
  <2> QED BY <1>3, <2>1, <2>2, <2>3 DEF Cleaner
<1>4. CASE SyncFind \/ Syncer
  BY <1>4, ElseKeeps DEF SyncFind, Syncer, SyncRead, SyncWrite, SyncFails, store
<1>5. CASE Admin
  <2>1. CASE WeighHSet
    BY <2>1, ElseKeeps DEF WeighHSet
  <2>2. CASE ClearRecords
    BY <2>2, ClearRecordsKeeps
  <2>3. CASE WeighCommit
    BY <2>3, ElseKeeps DEF WeighCommit, store
  <2>4. CASE WeighFails \/ WeighAnyway
    BY <2>4, ElseKeeps DEF WeighFails, WeighAnyway, store
  <2> QED BY <1>5, <2>1, <2>2, <2>3, <2>4 DEF Admin
<1>6. ASSUME NEW K \in (SUBSET Keys) \ {{}}, NEW w \in Weights, Weigh(K, w)
      PROVE  Under' /\ CalmKeeps'
  BY <1>6, ElseKeeps DEF Weigh, store
<1>7. ASSUME NEW k \in Keys, ResetSingleKeyWeight(k) \/ Dies(k) \/ Restored(k)
      PROVE  Under' /\ CalmKeeps'
  BY <1>7, ElseKeeps DEF ResetSingleKeyWeight, Dies, Restored, store
<1>8. ASSUME NEW c \in Names, EntryExpires(c) \/ RecordExpires(c)
      PROVE  Under' /\ CalmKeeps'
  <2>1. CASE RecordExpires(c)
    BY <2>1, ElseKeeps DEF RecordExpires, store
  <2> QED BY <1>8, <2>1, EntryExpiresKeeps
<1>9. CASE Restart
  BY <1>9, RestartKeeps
<1>10. CASE UNCHANGED cacheVars
  BY <1>10, ElseKeeps DEF cacheVars
<1> QED BY <1>1, <1>2, <1>3, <1>4, <1>5, <1>6, <1>7, <1>8, <1>9, <1>10 DEF CacheNext

(***************************************************************************)
(* Weights, bindings and records have their types.                         *)
(***************************************************************************)
LEMMA AsyncType ==
  ASSUME Recorded, NEW k \in Keys, NEW d \in {-1, 1}, AdjustKeyWeightAsync(k, d)
  PROVE  adj' \in [Adjusters -> Adj \cup {NoAdj}]
<1> DEFINE a == [NoAdj EXCEPT !.key = k, !.delta = d]
<1>1. a \in Adj
  BY DEF NoAdj, Adj
<1>2. PICK g \in Adjusters : adj' = [adj EXCEPT ![g] = a]
  BY DEF AdjustKeyWeightAsync
<1> HIDE DEF a
<1> QED BY <1>1, <1>2 DEF Recorded

LEMMA RecordType ==
  ASSUME Recorded, NEW c \in Names, NEW k \in Keys, Record(c, k)
  PROVE  rec' \in [Names -> Rec \cup {NoRec}] /\ adj' \in [Adjusters -> Adj \cup {NoAdj}]
<1>1. AdjustKeyWeightAsync(k, -1) /\ -1 \in {-1, 1}
  BY DEF Record
<1>2. rec' = [rec EXCEPT ![c] = [key |-> k, old |-> FALSE]]
  BY DEF Record
<1>3. [key |-> k, old |-> FALSE] \in Rec
  BY DEF Rec
<1>4. rec' \in [Names -> Rec \cup {NoRec}]
  BY <1>2, <1>3 DEF Recorded
<1> QED BY <1>1, <1>4, AsyncType

LEMMA UnrecordType ==
  ASSUME Recorded, NEW c, NEW k, Unrecord(c, k)
  PROVE  rec' \in [Names -> Rec \cup {NoRec}]
BY DEF Recorded, Unrecord

LEMMA DeleteType ==
  ASSUME Recorded, NEW c, Delete(c)
  PROVE  bind' \in [Names -> Keys \cup {None}]
BY DEF Recorded, Delete

LEMMA NoRecStays == [NoRec EXCEPT !.old = FALSE] = NoRec
<1> DEFINE n == [NoRec EXCEPT !.old = FALSE]
<1>1. /\ DOMAIN n = {"key", "old"} /\ n["key"] = None /\ n["old"] = FALSE
      /\ n = [x \in DOMAIN n |-> n[x]]
  BY DEF NoRec
<1>2. /\ DOMAIN NoRec = {"key", "old"} /\ NoRec["key"] = None /\ NoRec["old"] = FALSE
      /\ NoRec = [x \in DOMAIN NoRec |-> NoRec[x]]
  BY DEF NoRec
<1> HIDE DEF n
<1>3. \A x \in DOMAIN n : n[x] = NoRec[x]
  BY <1>1, <1>2
<1> QED BY <1>1, <1>2, <1>3 DEF n

\* A request at its name, with its key.
LEMMA AtItsName ==
  ASSUME Now, NEW r \in Requests
  PROVE  /\ loc[r].pc \in {"refresh", "touch", "unbind", "unrecord", "setnx", "record"} =>
              Name(r) \in Names /\ loc[r].key \in Keys
         /\ loc[r].pc \in {"hashbind", "hashrecord"} =>
              /\ NewHash(r) \in Hashes /\ NewHash(r) \in Names /\ loc[r].key \in Keys
              /\ loc[r].d > 2 /\ loc[r].saw # None => Name(r) \in Hashes
<1>1. Knows(loc[r])
  BY WhereItIs
<1>2. loc[r].pc \in {"refresh", "touch", "unbind", "unrecord"} =>
        Name(r) \in Names /\ loc[r].key \in Keys
  BY <1>1, NamesAre DEF Knows
<1> QED BY <1>2, InItsSession, InItsHash

LEMMA RequestRecords ==
  ASSUME Now, NEW r \in Requests,
         (\E q \in Kinds : Arrive(r, q)) \/ RequestStep(r)
  PROVE  Recorded'
<1>0. Recorded /\ None \notin Keys
  BY Constants DEF Now
<1>1. ASSUME UNCHANGED <<bind, rec, adj, sched, clean>> PROVE Recorded'
  BY <1>0, <1>1 DEF Recorded
<1>2. CASE \E q \in Kinds : Arrive(r, q)
  BY <1>1, <1>2 DEF Arrive, store, workers
<1>3. CASE Get(r) \/ Details(r) \/ SelectKey(r) \/ CallFails(r) \/ Other(r) \/ Theirs(r)
  BY <1>1, <1>3 DEF Get, Details, SelectKey, CallFails, Other, Theirs, store, workers
<1>4. CASE Refresh(r)
  BY <1>0, <1>4, AtItsName DEF Refresh, Recorded, workers
<1>5. CASE Touch(r)
  <2>1. Name(r) \in Names /\ rec' = [rec EXCEPT ![Name(r)].old = FALSE]
    BY <1>5, AtItsName DEF Touch
  <2>2. rec[Name(r)] \in Rec \cup {NoRec}
    BY <1>0, <2>1 DEF Recorded
  <2>3. [rec[Name(r)] EXCEPT !.old = FALSE] \in Rec \cup {NoRec}
    <3>1. CASE rec[Name(r)] \in Rec
      BY <3>1 DEF Rec
    <3>2. CASE rec[Name(r)] = NoRec
      BY <3>2, NoRecStays
    <3> QED BY <2>2, <3>1, <3>2
  <2>4. rec' \in [Names -> Rec \cup {NoRec}]
    BY <1>0, <2>1, <2>3 DEF Recorded
  <2> QED BY <1>0, <1>5, <2>4 DEF Touch, Recorded, store, workers
<1>6. CASE Unbind(r)
  BY <1>0, <1>6, DeleteType DEF Unbind, Recorded, workers
<1>7. CASE GiveBack(r)
  <2>1. loc[r].key \in Keys /\ 1 \in {-1, 1}
    BY <1>7, AtItsName DEF GiveBack
  <2> QED BY <1>0, <1>7, <2>1, UnrecordType, AsyncType DEF GiveBack, Recorded, store, workers
<1>8. CASE SetNX(r)
  <2>1. loc[r].key \in Keys
    BY <1>8, AtItsName DEF SetNX
  <2> QED BY <1>0, <1>8, <2>1 DEF SetNX, Claim, Recorded, workers
<1>9. CASE RecordSession(r)
  <2>1. Name(r) \in Names /\ loc[r].key \in Keys /\ Record(Name(r), loc[r].key)
    BY <1>9, AtItsName DEF RecordSession
  <2> QED BY <1>0, <1>9, <2>1, RecordType DEF RecordSession, Recorded, store, workers
<1>10. CASE HashBind(r)
  <2>1. loc[r].key \in Keys
    BY <1>10, AtItsName DEF HashBind
  <2> QED BY <1>0, <1>10, <2>1 DEF HashBind, Recorded, workers
<1>11. CASE HashRecord(r)
  <2> DEFINE late == [name |-> Name(r), key |-> loc[r].key, deleted |-> FALSE]
  <2>1. NewHash(r) \in Names /\ loc[r].key \in Keys /\ Record(NewHash(r), loc[r].key)
        /\ (loc[r].d > 2 /\ loc[r].saw # None => Name(r) \in Hashes)
    BY <1>11, AtItsName DEF HashRecord
  <2>2. sched' = IF loc[r].d > 2 /\ loc[r].saw # None THEN [sched EXCEPT ![r] = late] ELSE sched
    BY <1>11 DEF HashRecord
  <2>3. loc[r].d > 2 /\ loc[r].saw # None => late \in Late
    BY <2>1 DEF Late
  <2>4. sched' \in [Requests -> Late \cup {NoLate}]
    <3> HIDE DEF late
    <3> QED BY <1>0, <2>2, <2>3 DEF Recorded
  <2> QED BY <1>0, <1>11, <2>1, <2>4, RecordType DEF HashRecord, Recorded, store, workers
<1>12. CASE LateDelete(r)
  <2>1. sched[r] \in Late /\ sched' = [sched EXCEPT ![r].deleted = TRUE]
        /\ Delete(sched[r].name) /\ AdjustKeyWeightAsync(sched[r].key, 1)
    BY <1>0, <1>12 DEF LateDelete, Recorded
  <2>2. sched[r].key \in Keys /\ [sched[r] EXCEPT !.deleted = TRUE] \in Late /\ 1 \in {-1, 1}
    BY <2>1 DEF Late
  <2>3. sched' \in [Requests -> Late \cup {NoLate}]
    BY <1>0, <2>1, <2>2 DEF Recorded
  <2> QED BY <1>0, <1>12, <2>1, <2>2, <2>3, DeleteType, AsyncType DEF LateDelete, Recorded, workers
<1>13. CASE LateRemove(r)
  BY <1>0, <1>13, UnrecordType DEF LateRemove, Recorded, store, workers
<1>14. CASE SetNXFails(r)
  <2>1. loc[r].key \in Keys
    BY <1>14, AtItsName DEF SetNXFails
  <2>2. bind' \in [Names -> Keys \cup {None}]
    BY <1>0, <1>14, <2>1 DEF SetNXFails, Recorded
  <2> QED BY <1>0, <1>14, <2>2 DEF SetNXFails, Recorded, workers
<1>15. CASE LateDeleteFails(r)
  <2>1. sched[r] \in Late /\ sched' = [sched EXCEPT ![r].deleted = TRUE]
    BY <1>0, <1>15 DEF LateDeleteFails, Recorded
  <2>2. [sched[r] EXCEPT !.deleted = TRUE] \in Late
    BY <2>1 DEF Late
  <2>3. sched' \in [Requests -> Late \cup {NoLate}]
    BY <1>0, <2>1, <2>2 DEF Recorded
  <2>4. bind' \in [Names -> Keys \cup {None}]
    BY <1>0, <1>15, DeleteType DEF LateDeleteFails, Recorded
  <2> QED BY <1>0, <1>15, <2>3, <2>4 DEF LateDeleteFails, Recorded, workers
<1> QED BY <1>2, <1>3, <1>4, <1>5, <1>6, <1>7, <1>8, <1>9, <1>10, <1>11, <1>12, <1>13,
           <1>14, <1>15 DEF RequestStep

LEMMA AdjustsType ==
  ASSUME Recorded, wt \in [Keys -> Positive], base \in [Keys -> Positive],
         NEW g \in Adjusters, AdjustRead(g) \/ AdjustWrite(g) \/ AdjustFails(g)
  PROVE  Recorded' /\ wt' \in [Keys -> Positive] /\ base' = base
         /\ drifted' \subseteq drifted \cup Keys
<1> DEFINE a == adj[g]
<1>1. a \in Adj \cup {NoAdj}
  BY DEF Recorded
<1>2. CASE AdjustRead(g)
  <2>1. a \in Adj
    BY <1>1, <1>2 DEF AdjustRead
  <2>2. a.key \in Keys /\ wt[a.key] \in Positive /\ base[a.key] \in Positive
    BY <2>1 DEF Adj
  <2>3. adj' = [adj EXCEPT ![g] = [a EXCEPT !.w = wt[a.key], !.b = base[a.key]]]
    BY <1>2 DEF AdjustRead, Recorded
  <2>4. [a EXCEPT !.w = wt[a.key], !.b = base[a.key]] \in Adj
    <3> DEFINE x == wt[a.key]  y == base[a.key]
    <3> HIDE DEF x, y
    <3>1. x \in Positive /\ y \in Positive
      BY <2>2 DEF x, y
    <3>2. [a EXCEPT !.w = x, !.b = y] \in Adj
      <4> DEFINE m == [a EXCEPT !.w = x, !.b = y]
      <4>1. a \in [key : Keys, delta : {-1, 1}, w : Nat, b : Nat]
        BY <2>1 DEF Adj
      <4>2. x \in Nat /\ y \in Nat /\ y > 0
        BY <3>1 DEF Positive
      <4>3. m \in [key : Keys, delta : {-1, 1}, w : Nat, b : Nat] /\ m.b = y
        <5> HIDE DEF a
        <5> QED BY <4>1, <4>2
      <4> HIDE DEF m
      <4>4. m \in Adj
        BY <4>2, <4>3 DEF Adj
      <4> QED BY <4>4 DEF m
    <3> QED BY <3>2 DEF x, y
  <2>5. adj' \in [Adjusters -> Adj \cup {NoAdj}]
    BY <2>3, <2>4 DEF Recorded
  <2> QED BY <1>2, <2>5 DEF AdjustRead, Recorded, store, workers
<1>3. CASE AdjustWrite(g)
  <2>1. a \in Adj /\ a.w > 0
    BY <1>1, <1>3 DEF AdjustWrite, NoAdj
  <2>2. a.key \in Keys /\ a.w \in Nat /\ a.delta \in {-1, 1} /\ a.b \in Positive
    BY <2>1 DEF Adj, Positive
  <2>3. Clamp(a.w + a.delta, a.b) \in Positive
    BY <2>1, <2>2 DEF Clamp, Positive
  <2>4. adj' = [adj EXCEPT ![g] = NoAdj] /\ wt' = [wt EXCEPT ![a.key] = Clamp(a.w + a.delta, a.b)]
        /\ drifted' \subseteq drifted \cup {a.key}
    BY <1>3 DEF AdjustWrite
  <2>5. adj' \in [Adjusters -> Adj \cup {NoAdj}] /\ wt' \in [Keys -> Positive]
    <3> HIDE DEF a
    <3> QED BY <2>2, <2>3, <2>4 DEF Recorded
  <2> QED BY <1>3, <2>2, <2>4, <2>5 DEF AdjustWrite, Recorded, workers
<1>4. CASE AdjustFails(g)
  <2>1. a \in Adj
    BY <1>1, <1>4 DEF AdjustFails
  <2>2. a.key \in Keys
    BY <2>1 DEF Adj
  <2>3. adj' \in [Adjusters -> Adj \cup {NoAdj}] /\ drifted' = drifted \cup {a.key}
    BY <1>4 DEF AdjustFails, Recorded
  <2> QED BY <1>4, <2>2, <2>3 DEF AdjustFails, Recorded, store, workers
<1> QED BY <1>2, <1>3, <1>4

LEMMA CleanerType ==
  ASSUME Recorded, Cleaner
  PROVE  Recorded'
<1>0. clean.todo \in SUBSET (Names \X Keys) /\ clean.cur \in (Names \X Keys) \cup {<<>>}
  BY DEF Recorded
<1>1. CASE Collect
  <2> DEFINE T == {<<c, rec[c].key>> : c \in Expired}
  <2>1. \A c \in Expired : c \in Names /\ rec[c].key \in Keys
    BY DEF Expired, Recorded, Rec, NoRec
  <2>2. T \in SUBSET (Names \X Keys)
    BY <2>1
  <2>3. clean' = [clean EXCEPT !.todo = T]
    BY <1>1 DEF Collect
  <2>4. clean' \in [todo : SUBSET (Names \X Keys), cur : (Names \X Keys) \cup {<<>>}]
    <3> HIDE DEF T
    <3> QED BY <2>2, <2>3 DEF Recorded
  <2> QED BY <1>1, <2>4 DEF Collect, Recorded, store
<1>2. CASE CleanDelete
  <2>1. PICK t \in clean.todo : /\ Delete(t[1]) \/ bind' = bind
                                /\ AdjustKeyWeightAsync(t[2], 1)
                                /\ clean' = [todo |-> clean.todo \ {t}, cur |-> t]
    BY <1>2 DEF CleanDelete
  <2>2. t \in Names \X Keys /\ t[2] \in Keys /\ 1 \in {-1, 1}
    BY <1>0
  <2>3. clean' \in [todo : SUBSET (Names \X Keys), cur : (Names \X Keys) \cup {<<>>}]
    BY <1>0, <2>1, <2>2
  <2>4. bind' \in [Names -> Keys \cup {None}]
    BY <2>1, DeleteType DEF Recorded
  <2> QED BY <1>2, <2>1, <2>2, <2>3, <2>4, AsyncType DEF CleanDelete, Recorded
<1>3. CASE CleanRemove
  <2>1. clean' \in [todo : SUBSET (Names \X Keys), cur : (Names \X Keys) \cup {<<>>}]
    BY <1>3 DEF CleanRemove, Recorded
  <2> QED BY <1>3, <2>1, UnrecordType DEF CleanRemove, Recorded, store
<1> QED BY <1>1, <1>2, <1>3 DEF Cleaner

LEMMA RecordExpiresType ==
  ASSUME Recorded, NEW c \in Names, RecordExpires(c)
  PROVE  Recorded'
<1>1. rec[c] \in Rec /\ rec' = [rec EXCEPT ![c].old = TRUE]
  BY DEF RecordExpires, Recorded
<1>2. rec' \in [Names -> Rec \cup {NoRec}]
  BY <1>1 DEF Recorded, Rec
<1> QED BY <1>2 DEF RecordExpires, Recorded, store, workers

LEMMA ClearRecordsType ==
  ASSUME Recorded, ClearRecords
  PROVE  Recorded'
BY DEF Recorded, ClearRecords

LEMMA RestartType ==
  ASSUME Restart
  PROVE  Recorded'
BY DEF Recorded, Restart, NoClean

\* Steps that leave the workers alone.
LEMMA SameWork ==
  ASSUME Weighed, UNCHANGED <<alive, wt, base, row, sync, adm>>, drifted' \subseteq drifted \cup Keys
  PROVE  Weighed'
<1>1. drifted' \in SUBSET Keys
  BY DEF Weighed
<1> QED BY <1>1 DEF Weighed

LEMMA RecordedKeys ==
  ASSUME Recorded
  PROVE  /\ \A c \in Names : rec[c].key \in Keys \cup {None}
         /\ \A r \in Requests : sched[r] # NoLate => sched[r].key \in Keys
         /\ clean.cur # <<>> => clean.cur[2] \in Keys
<1>1. \A c \in Names : rec[c].key \in Keys \cup {None}
  BY DEF Recorded, Rec, NoRec
<1>2. \A r \in Requests : sched[r] # NoLate => sched[r].key \in Keys
  BY DEF Recorded, Late
<1>3. clean.cur # <<>> => clean.cur[2] \in Keys
  BY DEF Recorded
<1> QED BY <1>1, <1>2, <1>3

LEMMA RecordDrifts ==
  ASSUME Recorded, NEW c \in Names, NEW k \in Keys, Record(c, k) \/ Unrecord(c, k)
  PROVE  drifted' \subseteq drifted \cup Keys
BY RecordedKeys DEF Record, Unrecord

LEMMA RequestWeighs ==
  ASSUME Weighed, Now, NEW r \in Requests,
         (\E q \in Kinds : Arrive(r, q)) \/ RequestStep(r)
  PROVE  Weighed'
<1>0. Recorded
  BY DEF Now
<1>1. CASE \/ \E q \in Kinds : Arrive(r, q)
           \/ Get(r) \/ Details(r) \/ SelectKey(r) \/ CallFails(r) \/ Other(r)
           \/ Theirs(r) \/ Touch(r)
  BY <1>1, SameWork DEF Arrive, Get, Details, SelectKey, CallFails, Other, Theirs,
     Touch, store, workers
<1>2. CASE Refresh(r) \/ Unbind(r) \/ SetNX(r) \/ SetNXFails(r) \/ HashBind(r)
  BY <1>2, SameWork DEF Refresh, Unbind, SetNX, SetNXFails, HashBind, workers
<1>3. CASE GiveBack(r)
  <2>1. Name(r) \in Names /\ loc[r].key \in Keys /\ Unrecord(Name(r), loc[r].key)
    BY <1>3, AtItsName DEF GiveBack
  <2> QED BY <1>0, <1>3, <2>1, RecordDrifts, SameWork DEF GiveBack, store, workers
<1>4. CASE RecordSession(r)
  <2>1. Name(r) \in Names /\ loc[r].key \in Keys /\ Record(Name(r), loc[r].key)
    BY <1>4, AtItsName DEF RecordSession
  <2> QED BY <1>0, <1>4, <2>1, RecordDrifts, SameWork DEF RecordSession, store, workers
<1>5. CASE HashRecord(r)
  <2>1. NewHash(r) \in Names /\ loc[r].key \in Keys /\ Record(NewHash(r), loc[r].key)
    BY <1>5, AtItsName DEF HashRecord
  <2> QED BY <1>0, <1>5, <2>1, RecordDrifts, SameWork DEF HashRecord, store, workers
<1>6. CASE LateDelete(r)
  BY <1>6, SameWork DEF LateDelete, workers
<1>7. CASE LateRemove(r)
  <2>1. sched[r] \in Late /\ Unrecord(sched[r].name, sched[r].key)
    BY <1>0, <1>7 DEF LateRemove, Recorded, NoLate
  <2>2. sched[r].name \in Names /\ sched[r].key \in Keys
    BY <2>1, Constants DEF Late
  <2> QED BY <1>0, <1>7, <2>1, <2>2, RecordDrifts, SameWork DEF LateRemove, store, workers
<1>8. CASE LateDeleteFails(r)
  <2>1. sched[r].key \in Keys
    BY <1>0, <1>8, RecordedKeys DEF LateDeleteFails
  <2> QED BY <1>8, <2>1, SameWork DEF LateDeleteFails, workers
<1> QED BY <1>1, <1>2, <1>3, <1>4, <1>5, <1>6, <1>7, <1>8 DEF RequestStep

LEMMA CleanerWeighs ==
  ASSUME Weighed, Recorded, Cleaner
  PROVE  Weighed'
<1>1. CASE Collect \/ CleanDelete
  BY <1>1, SameWork DEF Collect, CleanDelete, store
<1>2. CASE CleanRemove
  <2>1. clean.cur \in Names \X Keys /\ Unrecord(clean.cur[1], clean.cur[2])
    BY <1>2 DEF CleanRemove, Recorded
  <2>2. clean.cur[1] \in Names /\ clean.cur[2] \in Keys
    BY <2>1
  <2>3. drifted' \subseteq drifted \cup Keys
    BY <2>1, <2>2, RecordDrifts
  <2> QED BY <1>2, <2>3, SameWork DEF CleanRemove, store
<1> QED BY <1>1, <1>2 DEF Cleaner

SyncType == [todo : SUBSET Keys, seen : [Keys -> Nat], key : Keys \cup {None}, w : Nat]
AdmType  == [pc : {"idle", "hset", "clear", "commit"}, todo : SUBSET Keys,
             cur : Keys \cup {None}, w : Nat, based : BOOLEAN, locked : SUBSET Keys]

LEMMA SyncerWeighs ==
  ASSUME Weighed, SyncFind \/ SyncRead \/ SyncWrite \/ SyncFails
  PROVE  Weighed'
<1>0. None \notin Keys /\ sync \in SyncType /\ row \in [Keys -> [w : Positive, b : Positive]]
      /\ wt \in [Keys -> Positive] /\ (sync.key # None => sync.w # 0)
  BY Constants DEF Weighed, SyncType
<1>1. NoSync \in SyncType /\ NoSync.key = None
  BY DEF NoSync, SyncType
<1>2. ASSUME sync' \in SyncType, sync'.key # None => sync'.w # 0,
             UNCHANGED <<alive, wt, base, row, adm, drifted>>
      PROVE  Weighed'
  BY <1>2 DEF Weighed, SyncType
<1>6. \A K : Synced(K) \in SyncType /\ Synced(K).key = None
  BY <1>0, <1>1 DEF Synced, SyncType
<1>3. CASE SyncFind
  <2> DEFINE s == [k \in Keys |-> row[k].w]
  <2>1. s \in [Keys -> Nat]
    BY <1>0 DEF Positive
  <2>2. sync' = [NoSync EXCEPT !.todo = Keys, !.seen = s]
    BY <1>3 DEF SyncFind
  <2> HIDE DEF s
  <2>3. sync' \in SyncType /\ sync'.key = None
    BY <2>1, <2>2 DEF NoSync, SyncType
  <2> QED BY <1>2, <1>3, <2>3 DEF SyncFind, store
<1>4. CASE SyncRead
  <2>1. PICK k \in sync.todo :
          sync' = IF sync.seen[k] # wt[k]
                    THEN [sync EXCEPT !.todo = @ \ {k}, !.key = k, !.w = wt[k]]
                    ELSE Synced({k})
    BY <1>4 DEF SyncRead
  <2>2. k \in Keys /\ sync.todo \in SUBSET Keys /\ wt[k] \in Positive /\ sync.key = None
    BY <1>0, <1>4 DEF SyncRead, SyncType
  <2> DEFINE m == [sync EXCEPT !.todo = @ \ {k}, !.key = k, !.w = wt[k]]
             n == Synced({k})
  <2>3. m \in SyncType /\ m.w = wt[k]
    BY <1>0, <2>2 DEF SyncType, Positive
  <2>4. sync' \in {m, n} /\ n \in SyncType /\ n.key = None
    BY <1>6, <2>1
  <2> HIDE DEF m, n
  <2>5. sync' \in SyncType /\ (sync'.key # None => sync'.w # 0)
    BY <2>2, <2>3, <2>4 DEF Positive
  <2> QED BY <1>2, <1>4, <2>5 DEF SyncRead, store
<1>5. CASE SyncWrite
  <2>1. sync.key \in Keys /\ sync.w \in Positive
    BY <1>0, <1>5 DEF SyncWrite, SyncType, Positive
  <2>2. row' = [row EXCEPT ![sync.key].w = sync.w]
    BY <1>5 DEF SyncWrite
  <2>3. row' \in [Keys -> [w : Positive, b : Positive]]
    BY <1>0, <2>1, <2>2
  <2>4. sync' = Synced({})
    BY <1>5 DEF SyncWrite
  <2>5. sync' \in SyncType /\ sync'.key = None
    BY <1>6, <2>4
  <2> QED BY <1>5, <2>3, <2>5 DEF SyncWrite, Weighed, SyncType, store
<1>7. CASE SyncFails
  <2>1. PICK K : sync' = Synced(K)
    BY <1>7 DEF SyncFails
  <2>2. sync' \in SyncType /\ sync'.key = None
    BY <1>6, <2>1
  <2> QED BY <1>2, <1>7, <2>2 DEF SyncFails, store
<1> QED BY <1>3, <1>4, <1>5, <1>7

LEMMA AdminWeighs ==
  ASSUME Weighed, Recorded,
         \/ Admin
         \/ \E K \in (SUBSET Keys) \ {{}}, w \in Weights : Weigh(K, w)
         \/ \E k \in Keys : ResetSingleKeyWeight(k)
  PROVE  Weighed'
<1>0. /\ None \notin Keys /\ adm \in AdmType /\ row \in [Keys -> [w : Positive, b : Positive]]
      /\ wt \in [Keys -> Positive] /\ base \in [Keys -> Positive]
      /\ (adm.pc # "idle" => adm.w # 0) /\ (adm.pc = "clear" <=> adm.cur # None)
  BY Constants DEF Weighed, AdmType
<1> DEFINE AdmOK == /\ adm' \in AdmType /\ (adm'.pc # "idle" => adm'.w # 0)
                    /\ (adm'.pc = "clear" <=> adm'.cur # None)
<1>1. ASSUME AdmOK, UNCHANGED <<alive, wt, base, row, sync, drifted>> PROVE Weighed'
  BY <1>1 DEF Weighed, AdmType
<1>2. ASSUME NEW K \in (SUBSET Keys) \ {{}}, NEW w \in Weights, Weigh(K, w) PROVE Weighed'
  <2>1. w \in Positive
    BY Constants
  <2>2. adm' = [pc |-> "hset", todo |-> K, cur |-> None, w |-> w, based |-> TRUE, locked |-> K]
    BY <1>2 DEF Weigh
  <2>3. AdmOK
    BY <2>1, <2>2 DEF AdmType, Positive
  <2> QED BY <1>1, <1>2, <2>3 DEF Weigh, store
<1>3. ASSUME NEW k \in Keys, ResetSingleKeyWeight(k) PROVE Weighed'
  <2>1. row[k].b \in Positive
    BY <1>0
  <2>2. adm' = [pc |-> "hset", todo |-> {k}, cur |-> None, w |-> row[k].b, based |-> FALSE,
                locked |-> {k}]
    BY <1>3 DEF ResetSingleKeyWeight
  <2>3. AdmOK
    BY <2>1, <2>2 DEF AdmType, Positive
  <2> QED BY <1>1, <1>3, <2>3 DEF ResetSingleKeyWeight, store
<1>4. CASE WeighHSet
  <2>1. PICK k \in adm.todo :
          /\ wt' = [wt EXCEPT ![k] = adm.w]
          /\ base' = IF adm.based THEN [base EXCEPT ![k] = adm.w] ELSE base
          /\ adm' = [adm EXCEPT !.pc = "clear", !.cur = k]
    BY <1>4 DEF WeighHSet
  <2>2. k \in Keys /\ adm.w \in Positive
    BY <1>0, <1>4 DEF WeighHSet, AdmType, Positive
  <2>3. wt' \in [Keys -> Positive] /\ base' \in [Keys -> Positive]
    BY <1>0, <2>1, <2>2
  <2>4. adm' \in AdmType /\ adm'.pc = "clear" /\ adm'.cur = k /\ adm'.w = adm.w
    BY <1>0, <2>1, <2>2 DEF AdmType
  <2>5. AdmOK
    BY <1>0, <2>2, <2>4 DEF Positive
  <2> QED BY <1>4, <2>3, <2>5 DEF WeighHSet, Weighed, AdmType
<1>5. CASE ClearRecords
  <2> DEFINE k == adm.cur
             pc == IF adm.todo = {k} THEN "commit" ELSE "hset"
  <2>1. k \in Keys /\ adm.w # 0
    BY <1>0, <1>5 DEF ClearRecords, AdmType
  <2>2. adm' = [adm EXCEPT !.todo = @ \ {k}, !.cur = None, !.pc = pc]
    BY <1>5 DEF ClearRecords
  <2>3. drifted' \in SUBSET Keys
    BY <1>5, <2>1 DEF ClearRecords, Weighed
  <2>4. pc \in {"commit", "hset"}
    OBVIOUS
  <2>5. adm' \in AdmType /\ adm'.pc = pc /\ adm'.cur = None /\ adm'.w = adm.w
    <3> HIDE DEF pc, k
    <3> QED BY <1>0, <2>2, <2>4 DEF AdmType
  <2>6. AdmOK
    BY <2>1, <2>4, <2>5
  <2> HIDE DEF k, pc
  <2> QED BY <1>5, <2>3, <2>6 DEF ClearRecords, Weighed, AdmType
<1>6. CASE WeighCommit
  <2>1. adm.w \in Positive
    BY <1>0, <1>6 DEF WeighCommit, AdmType, Positive
  <2>2. row' = [k \in Keys |-> IF k \notin adm.locked THEN row[k]
                               ELSE [w |-> adm.w, b |-> IF adm.based THEN adm.w ELSE row[k].b]]
    BY <1>6 DEF WeighCommit
  <2>3. row' \in [Keys -> [w : Positive, b : Positive]]
    BY <1>0, <2>1, <2>2
  <2>4. adm' = NoAdm
    BY <1>6 DEF WeighCommit
  <2>5. AdmOK
    BY <2>4 DEF NoAdm, AdmType
  <2> QED BY <1>6, <2>3, <2>5 DEF WeighCommit, Weighed, AdmType, store
<1>7. NoAdm \in AdmType /\ NoAdm.pc = "idle" /\ NoAdm.cur = None
  BY DEF NoAdm, AdmType
<1>8. CASE WeighFails
  <2>1. AdmOK
    <3>1. CASE adm' = NoAdm
      BY <1>7, <3>1
    <3>2. CASE adm.pc = "hset" /\ \E k \in adm.todo : adm' = [adm EXCEPT !.pc = "clear", !.cur = k]
      <4>1. PICK k \in adm.todo : adm' = [adm EXCEPT !.pc = "clear", !.cur = k]
        BY <3>2
      <4>2. k \in Keys
        BY <1>0 DEF AdmType
      <4>3. adm' \in AdmType /\ adm'.pc = "clear" /\ adm'.cur = k /\ adm'.w = adm.w
        BY <1>0, <4>1, <4>2 DEF AdmType
      <4> QED BY <1>0, <3>2, <4>2, <4>3
    <3> QED BY <1>8, <3>1, <3>2 DEF WeighFails
  <2> QED BY <1>1, <1>8, <2>1 DEF WeighFails, store
<1>9. CASE WeighAnyway
  <2>1. PICK k \in Keys : /\ wt' = [wt EXCEPT ![k] = adm.w]
                          /\ base' = IF adm.based THEN [base EXCEPT ![k] = adm.w] ELSE base
                          /\ drifted' = drifted \cup {k}
    BY <1>9 DEF WeighAnyway
  <2>2. adm.w \in Positive
    BY <1>0, <1>9 DEF WeighAnyway, AdmType, Positive
  <2>3. wt' \in [Keys -> Positive] /\ base' \in [Keys -> Positive] /\ drifted' \in SUBSET Keys
    BY <1>0, <2>1, <2>2 DEF Weighed
  <2>4. adm' = NoAdm
    BY <1>9 DEF WeighAnyway
  <2>5. AdmOK
    BY <1>7, <2>4
  <2> QED BY <1>9, <2>3, <2>5 DEF WeighAnyway, Weighed, AdmType
<1> QED BY <1>2, <1>3, <1>4, <1>5, <1>6, <1>8, <1>9 DEF Admin

LEMMA RestartWeighs ==
  ASSUME Weighed, Restart
  PROVE  Weighed'
<1>1. row \in [Keys -> [w : Positive, b : Positive]] /\ row' = row /\ alive' = alive
  BY DEF Weighed, Restart
<1>2. wt' = [k \in Keys |-> row[k].w] /\ base' = [k \in Keys |-> row[k].b]
      /\ sync' = NoSync /\ adm' = NoAdm /\ drifted' = {k \in Keys : row[k].w # row[k].b}
  BY DEF Restart
<1>3. wt' \in [Keys -> Positive] /\ base' \in [Keys -> Positive] /\ drifted' \in SUBSET Keys
  BY <1>1, <1>2
<1>4. NoSync \in SyncType /\ NoSync.key = None
  BY DEF NoSync, SyncType
<1>5. NoAdm \in AdmType /\ NoAdm.pc = "idle" /\ NoAdm.cur = None
  BY DEF NoAdm, AdmType
<1> QED BY <1>1, <1>2, <1>3, <1>4, <1>5 DEF Weighed, SyncType, AdmType

LEMMA DeathsWeigh ==
  ASSUME Weighed, NEW k \in Keys, Dies(k) \/ Restored(k)
  PROVE  Weighed'
<1>1. CASE Dies(k)
  BY <1>1 DEF Dies, Weighed, workers
<1>2. CASE Restored(k)
  <2>1. row[k].w \in Positive /\ row[k].b \in Positive
    BY DEF Weighed
  <2> QED BY <1>2, <2>1 DEF Restored, Weighed, workers
<1> QED BY <1>1, <1>2

Inv == Weighed /\ Now

LEMMA TypesKept ==
  ASSUME Inv, [CacheNext]_cacheVars
  PROVE  Inv'
<1>0. Weighed /\ Now /\ Recorded /\ alive \subseteq Keys
  BY DEF Inv, Now, Weighed
<1>1. Under' /\ CalmKeeps'
  BY <1>0, NextKeeps
<1>2. ASSUME UNCHANGED <<bind, rec, adj, sched, clean>> PROVE Recorded'
  BY <1>0, <1>2 DEF Recorded
<1>3. Weighed' /\ Recorded'
  <2>1. ASSUME NEW r \in Requests, (\E q \in Kinds : Arrive(r, q)) \/ RequestStep(r)
        PROVE  Weighed' /\ Recorded'
    BY <1>0, <2>1, RequestWeighs, RequestRecords
  <2>2. CASE Adjusts
    <3>1. PICK g \in Adjusters : AdjustRead(g) \/ AdjustWrite(g) \/ AdjustFails(g)
      BY <2>2 DEF Adjusts
    <3>2. Recorded' /\ wt' \in [Keys -> Positive] /\ base' = base /\ drifted' \subseteq drifted \cup Keys
      BY <1>0, <3>1, AdjustsType DEF Weighed
    <3>3. alive' = alive /\ row' = row /\ sync' = sync /\ adm' = adm
      BY <3>1 DEF AdjustRead, AdjustWrite, AdjustFails, store, workers
    <3>4. drifted' \in SUBSET Keys
      BY <1>0, <3>2 DEF Weighed
    <3> QED BY <1>0, <3>2, <3>3, <3>4 DEF Weighed
  <2>3. CASE Cleaner
    BY <1>0, <2>3, CleanerType, CleanerWeighs
  <2>4. CASE SyncFind \/ Syncer
    <3>1. UNCHANGED <<bind, rec, adj, sched, clean>>
      BY <2>4 DEF SyncFind, Syncer, SyncRead, SyncWrite, SyncFails, store
    <3> QED BY <1>0, <1>2, <2>4, <3>1, SyncerWeighs DEF Syncer
  <2>5. CASE Admin
    <3>1. CASE ClearRecords
      BY <1>0, <2>5, <3>1, AdminWeighs, ClearRecordsType
    <3>2. CASE WeighHSet \/ WeighCommit \/ WeighFails \/ WeighAnyway
      <4>1. UNCHANGED <<bind, rec, adj, sched, clean>>
        BY <3>2 DEF WeighHSet, WeighCommit, WeighFails, WeighAnyway, store
      <4> QED BY <1>0, <1>2, <2>5, <4>1, AdminWeighs
    <3> QED BY <2>5, <3>1, <3>2 DEF Admin
  <2>6. ASSUME NEW K \in (SUBSET Keys) \ {{}}, NEW w \in Weights, Weigh(K, w)
        PROVE  Weighed' /\ Recorded'
    <3>1. UNCHANGED <<bind, rec, adj, sched, clean>>
      BY <2>6 DEF Weigh, store
    <3> QED BY <1>0, <1>2, <2>6, <3>1, AdminWeighs
  <2>7. ASSUME NEW k \in Keys, ResetSingleKeyWeight(k) PROVE Weighed' /\ Recorded'
    <3>1. UNCHANGED <<bind, rec, adj, sched, clean>>
      BY <2>7 DEF ResetSingleKeyWeight, store
    <3> QED BY <1>0, <1>2, <2>7, <3>1, AdminWeighs
  <2>8. ASSUME NEW k \in Keys, Dies(k) \/ Restored(k) PROVE Weighed' /\ Recorded'
    <3>1. UNCHANGED <<bind, rec, adj, sched, clean>>
      BY <2>8 DEF Dies, Restored, workers
    <3> QED BY <1>0, <1>2, <2>8, <3>1, DeathsWeigh
  <2>9. ASSUME NEW c \in Names, EntryExpires(c) PROVE Weighed' /\ Recorded'
    <3>1. Recorded'
      BY <1>0, <2>9, DeleteType DEF EntryExpires, Recorded, workers
    <3> QED BY <1>0, <2>9, <3>1, SameWork DEF EntryExpires, workers
  <2>10. ASSUME NEW c \in Names, RecordExpires(c) PROVE Weighed' /\ Recorded'
    BY <1>0, <2>10, RecordExpiresType, SameWork DEF RecordExpires, store, workers
  <2>11. CASE Restart
    BY <1>0, <2>11, RestartType, RestartWeighs
  <2>12. CASE UNCHANGED cacheVars
    BY <1>0, <1>2, <2>12, SameWork DEF cacheVars
  <2> QED BY <2>1, <2>2, <2>3, <2>4, <2>5, <2>6, <2>7, <2>8, <2>9, <2>10, <2>11, <2>12
          DEF CacheNext
<1> QED BY <1>1, <1>3 DEF Inv, Now

LEMMA InitTypes == CacheInit => Inv
<1> SUFFICES ASSUME CacheInit PROVE Inv
  OBVIOUS
<1>1. Free \in Way /\ Knows(Free)
  BY DEF Free, Way, Knows
<1>2. Under /\ CalmKeeps
  BY <1>1 DEF CacheInit, Under, CalmKeeps
<1>3. Recorded
  BY DEF CacheInit, Recorded, NoClean
<1>4. NoSync \in SyncType /\ NoSync.key = None
  BY DEF NoSync, SyncType
<1>5. NoAdm \in AdmType /\ NoAdm.pc = "idle" /\ NoAdm.cur = None
  BY DEF NoAdm, AdmType
<1>6. Weighed
  BY <1>4, <1>5, Constants DEF CacheInit, Weighed, SyncType, AdmType
<1> QED BY <1>2, <1>3, <1>6 DEF Inv, Now

(***************************************************************************)
(* Bindings and records are of keys, and no weight, base or row falls      *)
(* below 1, whatever changes of them are under way (Clamp, and the updates *)
(* of an administrator, in cache_hit_service.go).                          *)
(***************************************************************************)
THEOREM BindingsAreTyped == CacheSpec => []CacheTypeOK
<1>1. Inv => CacheTypeOK
  <2> SUFFICES ASSUME Inv PROVE CacheTypeOK
    OBVIOUS
  <2>1. \A g \in Adjusters : adj[g].key # None => adj[g].delta \in {-1, 1}
    BY DEF Inv, Now, Recorded, Adj, NoAdj
  <2>2. \A r \in Requests : sched[r].key # None => sched[r].name \in Hashes
    BY DEF Inv, Now, Recorded, Late, NoLate
  <2>3. \A r \in Requests : loc[r].key \in Keys \cup {None}
    BY WhereItIs DEF Inv
  <2> QED BY <2>1, <2>2, <2>3 DEF Inv, Now, Weighed, Recorded, Under, Rec, Positive, CacheTypeOK
<1> QED BY <1>1, InitTypes, TypesKept, PTL DEF CacheSpec

(***************************************************************************)
(* Two requests of one session that got a key have the same one, however   *)
(* they and the steps of the others interleave, failing calls included:    *)
(* one that finds the session bound, or loses its SetNX, goes to the bound *)
(* key.  Not so the requests that are no longer in calm, as their session  *)
(* lost its binding, or they could not ask for it.                         *)
(***************************************************************************)
THEOREM OneKeyForASession == CacheSpec => []OneKeyPerSession
<1>1. Inv => OneKeyPerSession
  <2> SUFFICES ASSUME Inv, NEW r \in calm, NEW q \in calm,
                      ExtractSessionID(loc[r].q) = ExtractSessionID(loc[q].q),
                      loc[r].pc = "done", loc[q].pc = "done",
                      loc[r].key # None, loc[q].key # None
               PROVE  loc[r].key = loc[q].key
    BY DEF OneKeyPerSession
  <2> QED BY DEF Inv, Now, CalmKeeps, Keeps, Session
<1> QED BY <1>1, InitTypes, TypesKept, PTL DEF CacheSpec

(***************************************************************************)
(* Accounts.  HowMany(f, S) is how many values of f are in S.              *)
(***************************************************************************)
Those(f, S)   == {x \in DOMAIN f : f[x] \in S}
HowMany(f, S) == Cardinality(Those(f, S))
Few(f, S)     == IsFiniteSet(Those(f, S))

One(b) == IF b THEN 1 ELSE 0

LEMMA CountChanges ==
  ASSUME NEW f, NEW x \in DOMAIN f, NEW v, NEW S, Few(f, S)
  PROVE  LET g == [f EXCEPT ![x] = v]
         IN  Few(g, S) /\ HowMany(g, S) = HowMany(f, S) + One(v \in S) - One(f[x] \in S)
<1> DEFINE g == [f EXCEPT ![x] = v]
           F == Those(f, S)  G == Those(g, S)  R == F \ {x}
<1>1. IsFiniteSet(F) /\ Cardinality(F) \in Nat
  BY FS_CardinalityType DEF Few
<1>2. R = G \ {x} /\ (x \in F <=> f[x] \in S) /\ (x \in G <=> v \in S)
  BY DEF Those
<1>3. IsFiniteSet(R) /\ Cardinality(R) = Cardinality(F) - One(f[x] \in S)
  <2>1. CASE x \in F
    <3> HIDE DEF F
    <3>1. IsFiniteSet(F \ {x}) /\ Cardinality(F \ {x}) = Cardinality(F) - 1
      BY <1>1, <2>1, FS_RemoveElement
    <3> QED BY <1>2, <2>1, <3>1 DEF One
  <2>2. CASE x \notin F
    <3>1. R = F
      BY <2>2
    <3>2. One(f[x] \in S) = 0
      BY <1>2, <2>2 DEF One
    <3>3. Cardinality(F) = Cardinality(F) - 0
      BY <1>1
    <3> HIDE DEF F, R
    <3> QED BY <1>1, <3>1, <3>2, <3>3
  <2> QED BY <2>1, <2>2
<1>4. Cardinality(R) \in Nat
  BY <1>3, FS_CardinalityType
<1>5. IsFiniteSet(G) /\ Cardinality(G) = Cardinality(R) + One(v \in S)
  <2>1. CASE x \in G
    <3>1. G = R \cup {x} /\ x \notin R
      BY <1>2, <2>1
    <3> HIDE DEF F, G, R
    <3>2. IsFiniteSet(R \cup {x}) /\ Cardinality(R \cup {x}) = Cardinality(R) + 1
      BY <1>3, <3>1, FS_AddElement
    <3> QED BY <1>2, <2>1, <3>1, <3>2 DEF One
  <2>2. CASE x \notin G
    <3>1. G = R
      BY <1>2, <2>2
    <3> HIDE DEF F, G, R
    <3> QED BY <1>2, <1>3, <1>4, <2>2, <3>1 DEF One
  <2> QED BY <2>1, <2>2
<1> HIDE DEF g, F, G, R
<1>6. Few(g, S) /\ HowMany(f, S) = Cardinality(F) /\ HowMany(g, S) = Cardinality(G)
  BY <1>5 DEF Few, HowMany, F, G
<1>7. Cardinality(G) \in Nat
  BY <1>5, FS_CardinalityType
<1>8. One(v \in S) \in {0, 1} /\ One(f[x] \in S) \in {0, 1}
  BY DEF One
<1>9. Few(g, S) /\ HowMany(g, S) = HowMany(f, S) + One(v \in S) - One(f[x] \in S)
  BY <1>1, <1>3, <1>4, <1>5, <1>6, <1>7, <1>8
<1> QED BY <1>9 DEF g

LEMMA FewOf ==
  ASSUME NEW f, NEW S, Few(f, S), NEW T, T \subseteq S
  PROVE  Few(f, T) /\ HowMany(f, T) \in Nat
<1>1. Those(f, T) \subseteq Those(f, S)
  BY DEF Those
<1>2. IsFiniteSet(Those(f, T))
  BY <1>1, FS_Subset DEF Few
<1> QED BY <1>2, FS_CardinalityType DEF Few, HowMany

LEMMA NoneOf ==
  ASSUME NEW f, NEW S, \A x \in DOMAIN f : f[x] \notin S
  PROVE  Few(f, S) /\ HowMany(f, S) = 0
<1>1. Those(f, S) = {}
  BY DEF Those
<1> QED BY <1>1, FS_EmptySet DEF Few, HowMany

Due         == {t \in Late : t.deleted}
RecOf(k)    == {e \in Rec : e.key = k}
AdjOf(k, d) == {a \in Adj : a.key = k /\ a.delta = d}
DueOf(k)    == {t \in Due : t.key = k}

\* What a key is still to get and to lose, the records of it, and those of
\* them that are as good as gone.
Ups(k)     == HowMany(adj, AdjOf(k, 1))
Downs(k)   == HowMany(adj, AdjOf(k, -1))
Kept(k)    == HowMany(rec, RecOf(k))
Dues(k)    == HowMany(sched, DueOf(k))
Cleaned(k) == One(clean.cur # <<>> /\ clean.cur[2] = k)

Account(k) == wt[k] + Ups(k) + Kept(k) = base[k] + Downs(k) + Dues(k) + Cleaned(k)

Accounted == \A k \in Keys \ drifted : adm.cur # k => Account(k)

FewUnderWay == Few(rec, Rec) /\ Few(adj, Adj) /\ Few(sched, Due)

\* Only a request that is done has left a deletion behind.
LateWhenDone == \A r \in Requests : sched[r] # NoLate => loc[r].pc = "done"

Books == FewUnderWay /\ LateWhenDone /\ Accounted

LEMMA CountsAre ==
  ASSUME NEW k
  PROVE  /\ Ups(k)' = HowMany(adj', AdjOf(k, 1)) /\ Downs(k)' = HowMany(adj', AdjOf(k, -1))
         /\ Kept(k)' = HowMany(rec', RecOf(k)) /\ Dues(k)' = HowMany(sched', DueOf(k))
         /\ Cleaned(k)' = One(clean'.cur # <<>> /\ clean'.cur[2] = k)
         /\ Account(k)' <=>
              wt'[k] + Ups(k)' + Kept(k)' = base'[k] + Downs(k)' + Dues(k)' + Cleaned(k)'
<1>1. /\ Ups(k)' = HowMany(adj', AdjOf(k, 1)) /\ Downs(k)' = HowMany(adj', AdjOf(k, -1))
      /\ Kept(k)' = HowMany(rec', RecOf(k)) /\ Dues(k)' = HowMany(sched', DueOf(k))
      /\ Cleaned(k)' = One(clean'.cur # <<>> /\ clean'.cur[2] = k)
  BY DEF Ups, Downs, Kept, Dues, AdjOf, RecOf, DueOf, Cleaned
<1> QED BY <1>1 DEF Account

LEMMA CountsNat ==
  ASSUME FewUnderWay, NEW k
  PROVE  /\ Ups(k) \in Nat /\ Downs(k) \in Nat /\ Kept(k) \in Nat /\ Dues(k) \in Nat
         /\ Cleaned(k) \in Nat
<1>1. RecOf(k) \subseteq Rec /\ DueOf(k) \subseteq Due
      /\ AdjOf(k, 1) \subseteq Adj /\ AdjOf(k, -1) \subseteq Adj
  BY DEF RecOf, DueOf, AdjOf
<1> QED BY <1>1, FewOf DEF FewUnderWay, Cleaned, One, Ups, Downs, Kept, Dues

LEMMA AdjMoves ==
  ASSUME Recorded, FewUnderWay, NEW g \in Adjusters, NEW v \in Adj \cup {NoAdj},
         adj' = [adj EXCEPT ![g] = v]
  PROVE  /\ Few(adj', Adj)
         /\ \A j \in Keys :
              /\ Ups(j)' = Ups(j) + One(v.key = j /\ v.delta = 1)
                                  - One(adj[g].key = j /\ adj[g].delta = 1)
              /\ Downs(j)' = Downs(j) + One(v.key = j /\ v.delta = -1)
                                      - One(adj[g].key = j /\ adj[g].delta = -1)
<1>1. adj \in [Adjusters -> Adj \cup {NoAdj}] /\ Few(adj, Adj)
  BY DEF Recorded, FewUnderWay
<1>2. adj[g] \in Adj \cup {NoAdj}
  BY <1>1
<1>3. ASSUME NEW T, T \subseteq Adj
      PROVE  /\ Few(adj', T)
             /\ HowMany(adj', T) = HowMany(adj, T) + One(v \in T) - One(adj[g] \in T)
  <2>1. Few(adj, T) /\ g \in DOMAIN adj
    BY <1>1, <1>3, FewOf
  <2>2. LET h == [adj EXCEPT ![g] = v]
        IN  Few(h, T) /\ HowMany(h, T) = HowMany(adj, T) + One(v \in T) - One(adj[g] \in T)
    BY <2>1, CountChanges
  <2> QED BY <2>2
<1>4. ASSUME NEW j \in Keys, NEW d
      PROVE  HowMany(adj', AdjOf(j, d)) =
               HowMany(adj, AdjOf(j, d)) + One(v.key = j /\ v.delta = d)
                                         - One(adj[g].key = j /\ adj[g].delta = d)
  <2>1. AdjOf(j, d) \subseteq Adj
        /\ \A a \in Adj \cup {NoAdj} : a \in AdjOf(j, d) <=> a.key = j /\ a.delta = d
    BY Constants DEF AdjOf, Adj, NoAdj
  <2>2. One(v \in AdjOf(j, d)) = One(v.key = j /\ v.delta = d)
        /\ One(adj[g] \in AdjOf(j, d)) = One(adj[g].key = j /\ adj[g].delta = d)
    BY <1>2, <2>1 DEF One
  <2> QED BY <1>3, <2>1, <2>2
<1>5. Few(adj', Adj)
  BY <1>3
<1> QED BY <1>4, <1>5, CountsAre DEF Ups, Downs

LEMMA AsyncMoves ==
  ASSUME Recorded, FewUnderWay, NEW k \in Keys, NEW d \in {-1, 1}, AdjustKeyWeightAsync(k, d)
  PROVE  /\ Few(adj', Adj)
         /\ \A j \in Keys : /\ Ups(j)' = Ups(j) + One(j = k /\ d = 1)
                            /\ Downs(j)' = Downs(j) + One(j = k /\ d = -1)
<1> DEFINE a == [NoAdj EXCEPT !.key = k, !.delta = d]
<1>1. a \in Adj /\ a.key = k /\ a.delta = d
  BY DEF NoAdj, Adj
<1>2. PICK g \in Adjusters : adj[g] = NoAdj /\ adj' = [adj EXCEPT ![g] = a]
  BY DEF AdjustKeyWeightAsync
<1>3. adj[g].key = None
  BY <1>2 DEF NoAdj
<1> HIDE DEF a
<1>4. /\ Few(adj', Adj)
      /\ \A j \in Keys :
              /\ Ups(j)' = Ups(j) + One(a.key = j /\ a.delta = 1)
                                  - One(adj[g].key = j /\ adj[g].delta = 1)
              /\ Downs(j)' = Downs(j) + One(a.key = j /\ a.delta = -1)
                                      - One(adj[g].key = j /\ adj[g].delta = -1)
  BY <1>1, <1>2, AdjMoves
<1>5. ASSUME NEW j \in Keys
      PROVE  /\ Ups(j)' = Ups(j) + One(j = k /\ d = 1)
             /\ Downs(j)' = Downs(j) + One(j = k /\ d = -1)
  <2>1. /\ One(a.key = j /\ a.delta = 1) = One(j = k /\ d = 1)
        /\ One(a.key = j /\ a.delta = -1) = One(j = k /\ d = -1)
        /\ One(j = k /\ d = 1) \in Nat /\ One(j = k /\ d = -1) \in Nat
    BY <1>1 DEF One
  <2>2. /\ One(adj[g].key = j /\ adj[g].delta = 1) = 0
        /\ One(adj[g].key = j /\ adj[g].delta = -1) = 0
    BY <1>3, Constants DEF One
  <2> QED BY <1>4, <2>1, <2>2, CountsNat
<1> QED BY <1>4, <1>5

LEMMA RecMoves ==
  ASSUME Recorded, FewUnderWay, NEW c \in Names, NEW v \in Rec \cup {NoRec},
         rec' = [rec EXCEPT ![c] = v]
  PROVE  /\ Few(rec', Rec)
         /\ \A j \in Keys : Kept(j)' = Kept(j) + One(v.key = j) - One(rec[c].key = j)
<1>1. rec \in [Names -> Rec \cup {NoRec}] /\ Few(rec, Rec)
  BY DEF Recorded, FewUnderWay
<1>2. rec[c] \in Rec \cup {NoRec}
  BY <1>1
<1>3. ASSUME NEW T, T \subseteq Rec
      PROVE  /\ Few(rec', T)
             /\ HowMany(rec', T) = HowMany(rec, T) + One(v \in T) - One(rec[c] \in T)
  <2>1. Few(rec, T) /\ c \in DOMAIN rec
    BY <1>1, <1>3, FewOf
  <2>2. LET h == [rec EXCEPT ![c] = v]
        IN  Few(h, T) /\ HowMany(h, T) = HowMany(rec, T) + One(v \in T) - One(rec[c] \in T)
    BY <2>1, CountChanges
  <2> QED BY <2>2
<1>4. ASSUME NEW j \in Keys
      PROVE  Kept(j)' = Kept(j) + One(v.key = j) - One(rec[c].key = j)
  <2>1. RecOf(j) \subseteq Rec /\ \A e \in Rec \cup {NoRec} : e \in RecOf(j) <=> e.key = j
    BY Constants DEF RecOf, Rec, NoRec
  <2>2. One(v \in RecOf(j)) = One(v.key = j) /\ One(rec[c] \in RecOf(j)) = One(rec[c].key = j)
    BY <1>2, <2>1 DEF One
  <2> QED BY <1>3, <2>1, <2>2, CountsAre DEF Kept
<1>5. Few(rec', Rec)
  BY <1>3
<1> QED BY <1>4, <1>5

LEMMA RecordMoves ==
  ASSUME Recorded, FewUnderWay, NEW c \in Names, NEW k \in Keys, Record(c, k)
  PROVE  /\ Few(rec', Rec) /\ Few(adj', Adj) /\ drifted \subseteq drifted'
         /\ \A j \in Keys \ drifted' : /\ Ups(j)' = Ups(j)
                                       /\ Kept(j)' = Kept(j) + One(j = k)
                                       /\ Downs(j)' = Downs(j) + One(j = k)
<1> DEFINE v == [key |-> k, old |-> FALSE]
<1>1. v \in Rec \cup {NoRec} /\ v.key = k
  BY DEF Rec
<1>2. rec' = [rec EXCEPT ![c] = v] /\ AdjustKeyWeightAsync(k, -1)
      /\ drifted' = drifted \cup ({rec[c].key} \ {None})
  BY DEF Record
<1> HIDE DEF v
<1>3. Few(rec', Rec)
      /\ \A j \in Keys : Kept(j)' = Kept(j) + One(v.key = j) - One(rec[c].key = j)
  BY <1>1, <1>2, RecMoves
<1>4. Few(adj', Adj)
      /\ \A j \in Keys : /\ Ups(j)' = Ups(j) + One(j = k /\ -1 = 1)
                         /\ Downs(j)' = Downs(j) + One(j = k /\ -1 = -1)
  BY <1>2, AsyncMoves
<1>5. ASSUME NEW j \in Keys \ drifted'
      PROVE  Ups(j)' = Ups(j) /\ Kept(j)' = Kept(j) + One(j = k) /\ Downs(j)' = Downs(j) + One(j = k)
  <2>1. rec[c].key # j
    BY <1>2, Constants
  <2>2. One(v.key = j) = One(j = k) /\ One(rec[c].key = j) = 0 /\ One(j = k) \in Nat
        /\ One(j = k /\ -1 = 1) = 0 /\ One(j = k /\ -1 = -1) = One(j = k)
    BY <1>1, <2>1 DEF One
  <2>3. Ups(j) \in Nat /\ Kept(j) \in Nat
    BY CountsNat
  <2> QED BY <1>3, <1>4, <2>2, <2>3
<1> QED BY <1>2, <1>3, <1>4, <1>5

LEMMA UnrecordMoves ==
  ASSUME Recorded, FewUnderWay, NEW c \in Names, NEW k \in Keys, Unrecord(c, k)
  PROVE  /\ Few(rec', Rec) /\ drifted \subseteq drifted'
         /\ \A j \in Keys \ drifted' : Kept(j)' = Kept(j) - One(j = k)
<1>1. rec' = [rec EXCEPT ![c] = NoRec]
      /\ drifted' = IF rec[c].key = k THEN drifted ELSE drifted \cup ({k, rec[c].key} \ {None})
  BY DEF Unrecord
<1>2. NoRec \in Rec \cup {NoRec} /\ NoRec.key = None
  BY DEF NoRec
<1>3. Few(rec', Rec)
      /\ \A j \in Keys : Kept(j)' = Kept(j) + One(NoRec.key = j) - One(rec[c].key = j)
  BY <1>1, <1>2, RecMoves
<1>4. ASSUME NEW j \in Keys \ drifted' PROVE Kept(j)' = Kept(j) - One(j = k)
  <2>1. rec[c].key = j <=> j = k
    BY <1>1, Constants
  <2>2. One(NoRec.key = j) = 0 /\ One(rec[c].key = j) = One(j = k)
    BY <1>2, <2>1, Constants DEF One
  <2>3. Kept(j) \in Nat /\ One(j = k) \in Nat
    BY CountsNat DEF One
  <2> QED BY <1>3, <2>2, <2>3
<1> QED BY <1>1, <1>3, <1>4

LEMMA LateMoves ==
  ASSUME Recorded, FewUnderWay, NEW r \in Requests, NEW v \in Late \cup {NoLate},
         sched' = [sched EXCEPT ![r] = v]
  PROVE  /\ Few(sched', Due)
         /\ \A j \in Keys : Dues(j)' = Dues(j) + One(v.deleted /\ v.key = j)
                                               - One(sched[r].deleted /\ sched[r].key = j)
<1>1. sched \in [Requests -> Late \cup {NoLate}] /\ Few(sched, Due)
  BY DEF Recorded, FewUnderWay
<1>2. sched[r] \in Late \cup {NoLate}
  BY <1>1
<1>3. ASSUME NEW T, T \subseteq Due
      PROVE  /\ Few(sched', T)
             /\ HowMany(sched', T) = HowMany(sched, T) + One(v \in T) - One(sched[r] \in T)
  <2>1. Few(sched, T) /\ r \in DOMAIN sched
    BY <1>1, <1>3, FewOf
  <2>2. LET h == [sched EXCEPT ![r] = v]
        IN  Few(h, T) /\ HowMany(h, T) = HowMany(sched, T) + One(v \in T) - One(sched[r] \in T)
    BY <2>1, CountChanges
  <2> QED BY <2>2
<1>4. ASSUME NEW j \in Keys
      PROVE  Dues(j)' = Dues(j) + One(v.deleted /\ v.key = j) - One(sched[r].deleted /\ sched[r].key = j)
  <2>1. DueOf(j) \subseteq Due
        /\ \A t \in Late \cup {NoLate} : t \in DueOf(j) <=> t.deleted /\ t.key = j
    BY Constants DEF DueOf, Due, Late, NoLate
  <2>2. One(v \in DueOf(j)) = One(v.deleted /\ v.key = j)
        /\ One(sched[r] \in DueOf(j)) = One(sched[r].deleted /\ sched[r].key = j)
    BY <1>2, <2>1 DEF One
  <2> QED BY <1>3, <2>1, <2>2, CountsAre DEF Dues
<1>5. Few(sched', Due)
  BY <1>3
<1> QED BY <1>4, <1>5

\* The books before a step.
Open == Inv /\ FewUnderWay /\ Accounted

\* The accounts after it.
Closed == FewUnderWay' /\ Accounted'

LEMMA OpenIs ==
  ASSUME Open
  PROVE  /\ Recorded /\ FewUnderWay /\ Now /\ Weighed
         /\ \A k \in Keys : wt[k] \in Positive /\ base[k] \in Positive
         /\ \A k \in Keys \ drifted : adm.cur # k =>
              wt[k] + Ups(k) + Kept(k) = base[k] + Downs(k) + Dues(k) + Cleaned(k)
BY DEF Open, Inv, Now, Weighed, Accounted, Account

LEMMA ClosedIf ==
  ASSUME Few(rec', Rec), Few(adj', Adj), Few(sched', Due),
         \A k \in Keys \ drifted' : adm'.cur # k =>
           wt'[k] + Ups(k)' + Kept(k)' = base'[k] + Downs(k)' + Dues(k)' + Cleaned(k)'
  PROVE  Closed
<1>1. FewUnderWay'
  BY DEF FewUnderWay, Rec, Adj, Due, Late
<1>2. \A k \in Keys \ drifted' : adm'.cur # k => Account(k)'
  BY CountsAre
<1> QED BY <1>1, <1>2 DEF Closed, Accounted

\* The parts of an account that a step leaves alone.
LEMMA Untouched ==
  ASSUME NEW k
  PROVE  /\ adj' = adj => Ups(k)' = Ups(k) /\ Downs(k)' = Downs(k)
         /\ rec' = rec => Kept(k)' = Kept(k)
         /\ sched' = sched => Dues(k)' = Dues(k)
         /\ clean'.cur = clean.cur => Cleaned(k)' = Cleaned(k)
BY CountsAre DEF Ups, Downs, Kept, Dues, Cleaned

LEMMA StillAccounts ==
  ASSUME Open, UNCHANGED <<wt, base, adj, sched>>, clean'.cur = clean.cur,
         drifted \subseteq drifted', adm.cur # None => adm'.cur = adm.cur,
         Few(rec', Rec), \A k \in Keys : Kept(k)' = Kept(k)
  PROVE  Closed
<1>1. Few(adj', Adj) /\ Few(sched', Due)
  BY DEF Open, FewUnderWay
<1>2. ASSUME NEW k \in Keys \ drifted', adm'.cur # k
      PROVE  wt'[k] + Ups(k)' + Kept(k)' = base'[k] + Downs(k)' + Dues(k)' + Cleaned(k)'
  <2>1. adm.cur # k /\ k \notin drifted
    BY <1>2, Constants
  <2>2. wt[k] + Ups(k) + Kept(k) = base[k] + Downs(k) + Dues(k) + Cleaned(k)
    BY <2>1, OpenIs
  <2> QED BY <2>2, Untouched
<1> QED BY <1>1, <1>2, ClosedIf

LEMMA SameRecords ==
  ASSUME Open, rec' = rec \/ \E c \in Names, b \in BOOLEAN : rec' = [rec EXCEPT ![c].old = b]
  PROVE  Few(rec', Rec) /\ \A k \in Keys : Kept(k)' = Kept(k)
<1>1. Recorded /\ FewUnderWay
  BY OpenIs
<1>2. CASE rec' = rec
  BY <1>1, <1>2, Untouched DEF FewUnderWay
<1>3. ASSUME NEW c \in Names, NEW b \in BOOLEAN, rec' = [rec EXCEPT ![c].old = b],
             rec[c] # NoRec
      PROVE  Few(rec', Rec) /\ \A k \in Keys : Kept(k)' = Kept(k)
  <2> DEFINE v == [rec[c] EXCEPT !.old = b]
  <2>1. rec[c] \in Rec /\ rec' = [rec EXCEPT ![c] = v]
    BY <1>1, <1>3 DEF Recorded
  <2>2. v \in Rec \cup {NoRec} /\ v.key = rec[c].key
    BY <2>1 DEF Rec
  <2> HIDE DEF v
  <2>3. Few(rec', Rec)
        /\ \A j \in Keys : Kept(j)' = Kept(j) + One(v.key = j) - One(rec[c].key = j)
    BY <1>1, <2>1, <2>2, RecMoves
  <2>4. ASSUME NEW k \in Keys PROVE Kept(k)' = Kept(k)
    <3>1. One(v.key = k) = One(rec[c].key = k) /\ One(v.key = k) \in Nat
      BY <2>2 DEF One
    <3>2. Kept(k) \in Nat
      BY <1>1, CountsNat
    <3> QED BY <2>3, <3>1, <3>2
  <2> QED BY <2>3, <2>4
<1>4. ASSUME NEW c \in Names, NEW b \in BOOLEAN, rec' = [rec EXCEPT ![c].old = b],
             rec[c] = NoRec
      PROVE  Few(rec', Rec) /\ \A k \in Keys : Kept(k)' = Kept(k)
  <2> DEFINE f == rec  g == rec'
  <2>1. DOMAIN g = DOMAIN f /\ (\A y \in DOMAIN f : y # c => g[y] = f[y])
        /\ g[c].key = None /\ f[c].key = None
    BY <1>1, <1>4 DEF Recorded, NoRec
  <2>2. \A e \in Rec : e.key # None
    BY Constants DEF Rec
  <2>3. Those(g, Rec) = Those(f, Rec) /\ \A k : Those(g, RecOf(k)) = Those(f, RecOf(k))
    <3> HIDE DEF f, g
    <3> QED BY <2>1, <2>2 DEF Those, RecOf
  <2>4. Few(rec', Rec)
    BY <1>1, <2>3 DEF Few, FewUnderWay
  <2>5. \A k : HowMany(rec', RecOf(k)) = HowMany(rec, RecOf(k))
    BY <2>3 DEF HowMany
  <2> QED BY <2>4, <2>5, CountsAre DEF Kept
<1> QED BY <1>2, <1>3, <1>4

LEMMA GiveBackAccounts ==
  ASSUME Open, NEW r \in Requests, GiveBack(r)
  PROVE  Closed
<1> DEFINE c == Name(r)  k == loc[r].key
<1>1. /\ Unrecord(c, k) /\ AdjustKeyWeightAsync(k, 1)
      /\ UNCHANGED <<wt, base, sched, clean, adm>>
      /\ loc[r].pc = "unrecord"
  BY DEF GiveBack, store, workers
<1>2. c \in Names /\ k \in Keys
  BY <1>1, OpenIs, AtItsName
<1> HIDE DEF c, k
<1>3. Few(rec', Rec) /\ drifted \subseteq drifted'
      /\ \A j \in Keys \ drifted' : Kept(j)' = Kept(j) - One(j = k)
  BY <1>1, <1>2, OpenIs, UnrecordMoves
<1>4. Few(adj', Adj)
      /\ \A j \in Keys : Ups(j)' = Ups(j) + One(j = k /\ 1 = 1) /\ Downs(j)' = Downs(j) + One(j = k /\ 1 = -1)
  BY <1>1, <1>2, OpenIs, AsyncMoves
<1>5. ASSUME NEW j \in Keys \ drifted', adm'.cur # j
      PROVE  wt'[j] + Ups(j)' + Kept(j)' = base'[j] + Downs(j)' + Dues(j)' + Cleaned(j)'
  <2>1. wt[j] + Ups(j) + Kept(j) = base[j] + Downs(j) + Dues(j) + Cleaned(j)
        /\ wt[j] \in Nat /\ base[j] \in Nat
    BY <1>1, <1>3, <1>5, OpenIs DEF Positive
  <2>2. Ups(j)' = Ups(j) + One(j = k /\ 1 = 1) /\ Downs(j)' = Downs(j) + One(j = k /\ 1 = -1)
        /\ Kept(j)' = Kept(j) - One(j = k)
    BY <1>3, <1>4
  <2>3. One(j = k /\ 1 = 1) = One(j = k) /\ One(j = k /\ 1 = -1) = 0 /\ One(j = k) \in Nat
    BY DEF One
  <2>4. Dues(j)' = Dues(j) /\ Cleaned(j)' = Cleaned(j) /\ wt' = wt /\ base' = base
    BY <1>1, Untouched
  <2>5. Ups(j) \in Nat /\ Downs(j) \in Nat /\ Kept(j) \in Nat /\ Dues(j) \in Nat /\ Cleaned(j) \in Nat
    BY OpenIs, CountsNat
  <2> QED BY <2>1, <2>2, <2>3, <2>4, <2>5
<1>6. Few(sched', Due)
  BY <1>1 DEF Open, FewUnderWay
<1> QED BY <1>3, <1>4, <1>5, <1>6, ClosedIf

LEMMA RecordSessionAccounts ==
  ASSUME Open, NEW r \in Requests, RecordSession(r)
  PROVE  Closed
<1> DEFINE c == Name(r)  k == loc[r].key
<1>1. Record(c, k) /\ UNCHANGED <<wt, base, sched, clean, adm>> /\ loc[r].pc = "record"
  BY DEF RecordSession, store, workers
<1>2. c \in Names /\ k \in Keys
  BY <1>1, OpenIs, AtItsName
<1> HIDE DEF c, k
<1>3. /\ Few(rec', Rec) /\ Few(adj', Adj) /\ drifted \subseteq drifted'
      /\ \A j \in Keys \ drifted' : /\ Ups(j)' = Ups(j)
                                    /\ Kept(j)' = Kept(j) + One(j = k)
                                    /\ Downs(j)' = Downs(j) + One(j = k)
  BY <1>1, <1>2, OpenIs, RecordMoves
<1>5. ASSUME NEW j \in Keys \ drifted', adm'.cur # j
      PROVE  wt'[j] + Ups(j)' + Kept(j)' = base'[j] + Downs(j)' + Dues(j)' + Cleaned(j)'
  <2>1. wt[j] + Ups(j) + Kept(j) = base[j] + Downs(j) + Dues(j) + Cleaned(j)
        /\ wt[j] \in Nat /\ base[j] \in Nat
    BY <1>1, <1>3, <1>5, OpenIs DEF Positive
  <2>2. Ups(j)' = Ups(j) /\ Kept(j)' = Kept(j) + One(j = k) /\ Downs(j)' = Downs(j) + One(j = k)
    BY <1>3
  <2>3. One(j = k) \in Nat
    BY DEF One
  <2>4. Dues(j)' = Dues(j) /\ Cleaned(j)' = Cleaned(j) /\ wt' = wt /\ base' = base
    BY <1>1, Untouched
  <2>5. Ups(j) \in Nat /\ Downs(j) \in Nat /\ Kept(j) \in Nat /\ Dues(j) \in Nat /\ Cleaned(j) \in Nat
    BY OpenIs, CountsNat
  <2> QED BY <2>1, <2>2, <2>3, <2>4, <2>5
<1>6. Few(sched', Due)
  BY <1>1 DEF Open, FewUnderWay
<1> QED BY <1>3, <1>5, <1>6, ClosedIf

LEMMA HashRecordAccounts ==
  ASSUME Open, LateWhenDone, NEW r \in Requests, HashRecord(r)
  PROVE  Closed
<1> DEFINE c == NewHash(r)  k == loc[r].key  n == Name(r)
           late == [name |-> n, key |-> k, deleted |-> FALSE]
<1>1. /\ Record(c, k) /\ UNCHANGED <<wt, base, clean, adm>> /\ loc[r].pc = "hashrecord"
      /\ sched' = IF loc[r].d > 2 /\ loc[r].saw # None THEN [sched EXCEPT ![r] = late] ELSE sched
  BY DEF HashRecord, store, workers
<1>2. c \in Names /\ k \in Keys /\ (loc[r].d > 2 /\ loc[r].saw # None => n \in Hashes)
  BY <1>1, OpenIs, AtItsName
<1>3. /\ Few(rec', Rec) /\ Few(adj', Adj) /\ drifted \subseteq drifted'
      /\ \A j \in Keys \ drifted' : /\ Ups(j)' = Ups(j)
                                    /\ Kept(j)' = Kept(j) + One(j = k)
                                    /\ Downs(j)' = Downs(j) + One(j = k)
  <2> HIDE DEF c, k, late
  <2> QED BY <1>1, <1>2, OpenIs, RecordMoves
<1>4. Few(sched', Due) /\ \A j \in Keys : Dues(j)' = Dues(j)
  <2>1. CASE loc[r].d > 2 /\ loc[r].saw # None
    <3>1. late \in Late \cup {NoLate} /\ late.deleted = FALSE
      BY <1>2, <2>1 DEF Late
    <3>2. sched' = [sched EXCEPT ![r] = late]
      BY <1>1, <2>1
    <3>3. sched[r] = NoLate /\ sched[r].deleted = FALSE
      <4>1. loc[r].pc # "done"
        BY <1>1
      <4>2. sched[r] = NoLate
        BY <4>1, Zenon DEF LateWhenDone
      <4> QED BY <4>2 DEF NoLate
    <3> HIDE DEF late
    <3>4. Few(sched', Due)
          /\ \A j \in Keys : Dues(j)' = Dues(j) + One(late.deleted /\ late.key = j)
                                               - One(sched[r].deleted /\ sched[r].key = j)
      BY <3>1, <3>2, OpenIs, LateMoves
    <3>5. ASSUME NEW j \in Keys PROVE Dues(j)' = Dues(j)
      <4>1. Dues(j)' = Dues(j) + One(late.deleted /\ late.key = j)
                               - One(sched[r].deleted /\ sched[r].key = j)
        BY <3>4
      <4>2. One(late.deleted /\ late.key = j) = 0 /\ One(sched[r].deleted /\ sched[r].key = j) = 0
        BY <3>1, <3>3 DEF One
      <4> QED BY <4>1, <4>2, OpenIs, CountsNat
    <3> QED BY <3>4, <3>5
  <2>2. CASE ~ (loc[r].d > 2 /\ loc[r].saw # None)
    BY <1>1, <2>2, Untouched DEF Open, FewUnderWay
  <2> QED BY <2>1, <2>2
<1> HIDE DEF c, k, late
<1>5. ASSUME NEW j \in Keys \ drifted', adm'.cur # j
      PROVE  wt'[j] + Ups(j)' + Kept(j)' = base'[j] + Downs(j)' + Dues(j)' + Cleaned(j)'
  <2>1. wt[j] + Ups(j) + Kept(j) = base[j] + Downs(j) + Dues(j) + Cleaned(j)
        /\ wt[j] \in Nat /\ base[j] \in Nat
    BY <1>1, <1>3, <1>5, OpenIs DEF Positive
  <2>2. Ups(j)' = Ups(j) /\ Kept(j)' = Kept(j) + One(j = k) /\ Downs(j)' = Downs(j) + One(j = k)
        /\ Dues(j)' = Dues(j)
    BY <1>3, <1>4
  <2>3. One(j = k) \in Nat
    BY DEF One
  <2>4. Cleaned(j)' = Cleaned(j) /\ wt' = wt /\ base' = base
    BY <1>1, Untouched
  <2>5. Ups(j) \in Nat /\ Downs(j) \in Nat /\ Kept(j) \in Nat /\ Dues(j) \in Nat /\ Cleaned(j) \in Nat
    BY OpenIs, CountsNat
  <2> QED BY <2>1, <2>2, <2>3, <2>4, <2>5
<1> QED BY <1>3, <1>4, <1>5, ClosedIf

LEMMA LateDeleteAccounts ==
  ASSUME Open, NEW r \in Requests, LateDelete(r)
  PROVE  Closed
<1> DEFINE t == sched[r]  k == sched[r].key  v == [sched[r] EXCEPT !.deleted = TRUE]
<1>1. /\ AdjustKeyWeightAsync(k, 1) /\ UNCHANGED <<wt, base, rec, clean, adm, drifted>>
      /\ t # NoLate /\ ~t.deleted /\ sched' = [sched EXCEPT ![r] = v]
  BY DEF LateDelete, workers
<1>2. t \in Late
  BY <1>1, OpenIs DEF Recorded
<1>3. k \in Keys /\ v \in Late \cup {NoLate} /\ v.deleted = TRUE /\ v.key = k
  BY <1>2 DEF Late
<1>4. sched[r].deleted = FALSE
  BY <1>1, <1>2 DEF Late
<1> HIDE DEF t, k, v
<1>5. Few(adj', Adj)
      /\ \A j \in Keys : Ups(j)' = Ups(j) + One(j = k /\ 1 = 1) /\ Downs(j)' = Downs(j) + One(j = k /\ 1 = -1)
  BY <1>1, <1>3, OpenIs, AsyncMoves
<1>6. Few(sched', Due)
      /\ \A j \in Keys : Dues(j)' = Dues(j) + One(v.deleted /\ v.key = j)
                                            - One(sched[r].deleted /\ sched[r].key = j)
  BY <1>1, <1>3, OpenIs, LateMoves
<1>7. ASSUME NEW j \in Keys \ drifted', adm'.cur # j
      PROVE  wt'[j] + Ups(j)' + Kept(j)' = base'[j] + Downs(j)' + Dues(j)' + Cleaned(j)'
  <2>1. wt[j] + Ups(j) + Kept(j) = base[j] + Downs(j) + Dues(j) + Cleaned(j)
        /\ wt[j] \in Nat /\ base[j] \in Nat
    BY <1>1, <1>7, OpenIs DEF Positive
  <2>2. Ups(j)' = Ups(j) + One(j = k /\ 1 = 1) /\ Downs(j)' = Downs(j) + One(j = k /\ 1 = -1)
        /\ Dues(j)' = Dues(j) + One(v.deleted /\ v.key = j) - One(sched[r].deleted /\ sched[r].key = j)
    BY <1>5, <1>6
  <2>3. One(j = k /\ 1 = 1) = One(j = k) /\ One(j = k /\ 1 = -1) = 0 /\ One(j = k) \in Nat
        /\ One(v.deleted /\ v.key = j) = One(j = k) /\ One(sched[r].deleted /\ sched[r].key = j) = 0
    BY <1>3, <1>4 DEF One
  <2>4. Kept(j)' = Kept(j) /\ Cleaned(j)' = Cleaned(j) /\ wt' = wt /\ base' = base
    BY <1>1, Untouched
  <2>5. Ups(j) \in Nat /\ Downs(j) \in Nat /\ Kept(j) \in Nat /\ Dues(j) \in Nat /\ Cleaned(j) \in Nat
    BY OpenIs, CountsNat
  <2> QED BY <2>1, <2>2, <2>3, <2>4, <2>5
<1>8. Few(rec', Rec)
  BY <1>1 DEF Open, FewUnderWay
<1> QED BY <1>5, <1>6, <1>7, <1>8, ClosedIf

LEMMA LateDeleteFailsAccounts ==
  ASSUME Open, NEW r \in Requests, LateDeleteFails(r)
  PROVE  Closed
<1> DEFINE t == sched[r]  k == sched[r].key  v == [sched[r] EXCEPT !.deleted = TRUE]
<1>1. /\ UNCHANGED <<wt, base, rec, adj, clean, adm>> /\ drifted' = drifted \cup {k}
      /\ t # NoLate /\ sched' = [sched EXCEPT ![r] = v]
  BY DEF LateDeleteFails, workers
<1>2. t \in Late
  BY <1>1, OpenIs DEF Recorded
<1>3. v \in Late \cup {NoLate} /\ v.key = k
  BY <1>2 DEF Late
<1> HIDE DEF t, k, v
<1>4. sched[r].key = k
  BY DEF k
<1>5. Few(sched', Due)
      /\ \A j \in Keys : Dues(j)' = Dues(j) + One(v.deleted /\ v.key = j)
                                            - One(sched[r].deleted /\ sched[r].key = j)
  BY <1>1, <1>3, OpenIs, LateMoves
<1>6. ASSUME NEW j \in Keys \ drifted', adm'.cur # j
      PROVE  wt'[j] + Ups(j)' + Kept(j)' = base'[j] + Downs(j)' + Dues(j)' + Cleaned(j)'
  <2>0. j \notin drifted /\ j # k
    BY <1>1, <1>6
  <2>1. wt[j] + Ups(j) + Kept(j) = base[j] + Downs(j) + Dues(j) + Cleaned(j)
    BY <1>1, <1>6, <2>0, OpenIs
  <2>2. Dues(j)' = Dues(j)
    <3>1. One(v.deleted /\ v.key = j) = 0 /\ One(sched[r].deleted /\ sched[r].key = j) = 0
      BY <1>3, <1>4, <2>0 DEF One
    <3>2. Dues(j) \in Nat
      BY OpenIs, CountsNat
    <3> QED BY <1>5, <3>1, <3>2
  <2>3. Ups(j)' = Ups(j) /\ Downs(j)' = Downs(j) /\ Kept(j)' = Kept(j) /\ Cleaned(j)' = Cleaned(j)
        /\ wt' = wt /\ base' = base
    BY <1>1, Untouched
  <2> QED BY <2>1, <2>2, <2>3
<1>7. Few(rec', Rec) /\ Few(adj', Adj)
  BY <1>1 DEF Open, FewUnderWay
<1> QED BY <1>5, <1>6, <1>7, ClosedIf

LEMMA LateRemoveAccounts ==
  ASSUME Open, NEW r \in Requests, LateRemove(r)
  PROVE  Closed
<1> DEFINE c == sched[r].name  k == sched[r].key
<1>1. /\ Unrecord(c, k) /\ UNCHANGED <<wt, base, adj, clean, adm>>
      /\ sched[r].deleted /\ sched' = [sched EXCEPT ![r] = NoLate]
  BY DEF LateRemove, store, workers
<1>2. sched[r] \in Late
  BY <1>1, OpenIs DEF Recorded, NoLate
<1>3. c \in Names /\ k \in Keys
  BY <1>2 DEF Late, Names
<1> HIDE DEF c
<1>4. Few(rec', Rec) /\ drifted \subseteq drifted'
      /\ \A j \in Keys \ drifted' : Kept(j)' = Kept(j) - One(j = k)
  BY <1>1, <1>3, OpenIs, UnrecordMoves
<1>5. Few(sched', Due)
      /\ \A j \in Keys : Dues(j)' = Dues(j) + One(NoLate.deleted /\ NoLate.key = j)
                                            - One(sched[r].deleted /\ sched[r].key = j)
  <2> DEFINE v == NoLate
  <2>1. v \in Late \cup {NoLate} /\ sched' = [sched EXCEPT ![r] = v]
    BY <1>1
  <2> HIDE DEF v
  <2>2. Few(sched', Due)
        /\ \A j \in Keys : Dues(j)' = Dues(j) + One(v.deleted /\ v.key = j)
                                              - One(sched[r].deleted /\ sched[r].key = j)
    BY <2>1, OpenIs, LateMoves
  <2> QED BY <2>2 DEF v
<1>6. NoLate.deleted = FALSE
  BY DEF NoLate
<1>7. ASSUME NEW j \in Keys \ drifted', adm'.cur # j
      PROVE  wt'[j] + Ups(j)' + Kept(j)' = base'[j] + Downs(j)' + Dues(j)' + Cleaned(j)'
  <2>1. wt[j] + Ups(j) + Kept(j) = base[j] + Downs(j) + Dues(j) + Cleaned(j)
        /\ wt[j] \in Nat /\ base[j] \in Nat
    BY <1>1, <1>4, <1>7, OpenIs DEF Positive
  <2>2. Kept(j)' = Kept(j) - One(j = k)
        /\ Dues(j)' = Dues(j) + One(NoLate.deleted /\ NoLate.key = j)
                              - One(sched[r].deleted /\ sched[r].key = j)
    BY <1>4, <1>5
  <2>3. One(NoLate.deleted /\ NoLate.key = j) = 0 /\ One(j = k) \in Nat
        /\ One(sched[r].deleted /\ sched[r].key = j) = One(j = k)
    BY <1>1, <1>6 DEF One
  <2>4. Ups(j)' = Ups(j) /\ Downs(j)' = Downs(j) /\ Cleaned(j)' = Cleaned(j)
        /\ wt' = wt /\ base' = base
    BY <1>1, Untouched
  <2>5. Ups(j) \in Nat /\ Downs(j) \in Nat /\ Kept(j) \in Nat /\ Dues(j) \in Nat /\ Cleaned(j) \in Nat
    BY OpenIs, CountsNat
  <2> QED BY <2>1, <2>2, <2>3, <2>4, <2>5
<1>8. Few(adj', Adj)
  BY <1>1 DEF Open, FewUnderWay
<1> QED BY <1>4, <1>5, <1>7, <1>8, ClosedIf

LEMMA CleanDeleteAccounts ==
  ASSUME Open, CleanDelete
  PROVE  Closed
<1>1. PICK t \in clean.todo :
        /\ AdjustKeyWeightAsync(t[2], 1)
        /\ clean' = [todo |-> clean.todo \ {t}, cur |-> t]
  BY DEF CleanDelete
<1>2. UNCHANGED <<wt, base, rec, sched, adm, drifted>> /\ clean.cur = <<>>
  BY DEF CleanDelete
<1>3. t \in Names \X Keys /\ clean'.cur = t
  BY <1>1, OpenIs DEF Recorded
<1> DEFINE k == t[2]
<1>4. k \in Keys /\ t # <<>>
  <2>1. PICK a \in Names, b \in Keys : t = <<a, b>>
    BY <1>3
  <2>2. Len(t) = 2 /\ t[2] = b
    BY <2>1
  <2> QED BY <2>1, <2>2
<1> HIDE DEF k
<1>5. Few(adj', Adj)
      /\ \A j \in Keys : Ups(j)' = Ups(j) + One(j = k /\ 1 = 1) /\ Downs(j)' = Downs(j) + One(j = k /\ 1 = -1)
  BY <1>1, <1>4, OpenIs, AsyncMoves DEF k
<1>7. ASSUME NEW j \in Keys \ drifted', adm'.cur # j
      PROVE  wt'[j] + Ups(j)' + Kept(j)' = base'[j] + Downs(j)' + Dues(j)' + Cleaned(j)'
  <2>1. wt[j] + Ups(j) + Kept(j) = base[j] + Downs(j) + Dues(j) + Cleaned(j)
        /\ wt[j] \in Nat /\ base[j] \in Nat
    BY <1>2, <1>7, OpenIs DEF Positive
  <2>2. Ups(j)' = Ups(j) + One(j = k /\ 1 = 1) /\ Downs(j)' = Downs(j) + One(j = k /\ 1 = -1)
    BY <1>5
  <2>3. One(j = k /\ 1 = 1) = One(j = k) /\ One(j = k /\ 1 = -1) = 0 /\ One(j = k) \in Nat
    BY DEF One
  <2>4. Kept(j)' = Kept(j) /\ Dues(j)' = Dues(j) /\ wt' = wt /\ base' = base
    BY <1>2, Untouched
  <2>5. Ups(j) \in Nat /\ Downs(j) \in Nat /\ Kept(j) \in Nat /\ Dues(j) \in Nat
    BY OpenIs, CountsNat
  <2>6. Cleaned(j) = 0
    BY <1>2 DEF Cleaned, One
  <2>7. Cleaned(j)' = One(j = k)
    <3>1. Cleaned(j)' = One(clean'.cur # <<>> /\ clean'.cur[2] = j)
      BY CountsAre
    <3> QED BY <1>3, <1>4, <3>1 DEF One, k
  <2> QED BY <2>1, <2>2, <2>3, <2>4, <2>5, <2>6, <2>7
<1>8. Few(rec', Rec) /\ Few(sched', Due)
  BY <1>2 DEF Open, FewUnderWay
<1> QED BY <1>5, <1>7, <1>8, ClosedIf

LEMMA CleanRemoveAccounts ==
  ASSUME Open, CleanRemove
  PROVE  Closed
<1> DEFINE c == clean.cur[1]  k == clean.cur[2]
<1>1. /\ Unrecord(c, k) /\ UNCHANGED <<wt, base, adj, sched, adm>>
      /\ clean.cur # <<>> /\ clean' = [clean EXCEPT !.cur = <<>>]
  BY DEF CleanRemove, store
<1>2. clean.cur \in Names \X Keys /\ clean'.cur = <<>>
  BY <1>1, OpenIs DEF Recorded
<1>3. c \in Names /\ k \in Keys
  BY <1>2
<1> HIDE DEF c
<1>4. Few(rec', Rec) /\ drifted \subseteq drifted'
      /\ \A j \in Keys \ drifted' : Kept(j)' = Kept(j) - One(j = k)
  BY <1>1, <1>3, OpenIs, UnrecordMoves
<1>7. ASSUME NEW j \in Keys \ drifted', adm'.cur # j
      PROVE  wt'[j] + Ups(j)' + Kept(j)' = base'[j] + Downs(j)' + Dues(j)' + Cleaned(j)'
  <2>1. wt[j] + Ups(j) + Kept(j) = base[j] + Downs(j) + Dues(j) + Cleaned(j)
        /\ wt[j] \in Nat /\ base[j] \in Nat
    BY <1>1, <1>4, <1>7, OpenIs DEF Positive
  <2>2. Kept(j)' = Kept(j) - One(j = k)
    BY <1>4
  <2>3. Cleaned(j) = One(j = k) /\ One(j = k) \in Nat
    BY <1>1 DEF One, Cleaned
  <2>4. Ups(j)' = Ups(j) /\ Downs(j)' = Downs(j) /\ Dues(j)' = Dues(j)
        /\ wt' = wt /\ base' = base
    BY <1>1, Untouched
  <2>5. Ups(j) \in Nat /\ Downs(j) \in Nat /\ Kept(j) \in Nat /\ Dues(j) \in Nat
    BY OpenIs, CountsNat
  <2>6. Cleaned(j)' = 0
    <3>1. Cleaned(j)' = One(clean'.cur # <<>> /\ clean'.cur[2] = j)
      BY CountsAre
    <3> QED BY <1>2, <3>1 DEF One
  <2> QED BY <2>1, <2>2, <2>3, <2>4, <2>5, <2>6
<1>8. Few(adj', Adj) /\ Few(sched', Due)
  BY <1>1 DEF Open, FewUnderWay
<1> QED BY <1>4, <1>7, <1>8, ClosedIf

LEMMA ReadAdj ==
  ASSUME NEW a \in Adj, NEW x \in Positive, NEW y \in Positive
  PROVE  LET v == [a EXCEPT !.w = x, !.b = y]
         IN  v \in Adj /\ v.key = a.key /\ v.delta = a.delta
<1> DEFINE v == [a EXCEPT !.w = x, !.b = y]
<1>1. a \in [key : Keys, delta : {-1, 1}, w : Nat, b : Nat] /\ x \in Nat /\ y \in Nat /\ y > 0
  BY DEF Adj, Positive
<1>2. v \in [key : Keys, delta : {-1, 1}, w : Nat, b : Nat]
      /\ v.key = a.key /\ v.delta = a.delta /\ v.b = y
  BY <1>1
<1>3. v \in Adj
  <2> HIDE DEF v
  <2> QED BY <1>1, <1>2 DEF Adj
<1> QED BY <1>2, <1>3

LEMMA AdjustReadAccounts ==
  ASSUME Open, NEW g \in Adjusters, AdjustRead(g)
  PROVE  Closed
<1> DEFINE a == adj[g]  v == [a EXCEPT !.w = wt[a.key], !.b = base[a.key]]
<1>1. /\ a # NoAdj /\ UNCHANGED <<wt, base, rec, sched, clean, adm, drifted>>
      /\ adj' = [adj EXCEPT ![g].w = wt[a.key], ![g].b = base[a.key]]
  BY DEF AdjustRead, store, workers
<1>2. a \in Adj
  BY <1>1, OpenIs DEF Recorded
<1>3. wt[a.key] \in Positive /\ base[a.key] \in Positive
  BY <1>2, OpenIs DEF Adj
<1>4. v \in Adj \cup {NoAdj} /\ v.key = a.key /\ v.delta = a.delta
  <2>1. PICK e \in Adj, x \in Positive, y \in Positive : e = a /\ x = wt[a.key] /\ y = base[a.key]
    BY <1>2, <1>3
  <2>2. v = [e EXCEPT !.w = x, !.b = y]
    BY <2>1
  <2>3. v \in Adj /\ v.key = e.key /\ v.delta = e.delta
    <3> HIDE DEF a, v
    <3> QED BY <2>2, ReadAdj
  <2> QED BY <2>1, <2>3
<1>5. adj' = [adj EXCEPT ![g] = v]
  <2>1. adj \in [Adjusters -> Adj \cup {NoAdj}]
    BY OpenIs DEF Recorded
  <2> QED BY <1>1, <1>2, <2>1
<1> HIDE DEF v
<1>6. Few(adj', Adj)
      /\ \A j \in Keys :
              /\ Ups(j)' = Ups(j) + One(v.key = j /\ v.delta = 1)
                                  - One(adj[g].key = j /\ adj[g].delta = 1)
              /\ Downs(j)' = Downs(j) + One(v.key = j /\ v.delta = -1)
                                      - One(adj[g].key = j /\ adj[g].delta = -1)
  BY <1>4, <1>5, OpenIs, AdjMoves
<1>7. ASSUME NEW j \in Keys \ drifted', adm'.cur # j
      PROVE  wt'[j] + Ups(j)' + Kept(j)' = base'[j] + Downs(j)' + Dues(j)' + Cleaned(j)'
  <2>1. wt[j] + Ups(j) + Kept(j) = base[j] + Downs(j) + Dues(j) + Cleaned(j)
    BY <1>1, <1>7, OpenIs
  <2>2. Ups(j)' = Ups(j) /\ Downs(j)' = Downs(j)
    <3>1. One(v.key = j /\ v.delta = 1) = One(adj[g].key = j /\ adj[g].delta = 1)
          /\ One(v.key = j /\ v.delta = -1) = One(adj[g].key = j /\ adj[g].delta = -1)
          /\ One(v.key = j /\ v.delta = 1) \in Int /\ One(v.key = j /\ v.delta = -1) \in Int
      BY <1>4 DEF One
    <3>2. Ups(j) \in Nat /\ Downs(j) \in Nat
      BY OpenIs, CountsNat
    <3>3. /\ Ups(j)' = Ups(j) + One(v.key = j /\ v.delta = 1)
                                  - One(adj[g].key = j /\ adj[g].delta = 1)
          /\ Downs(j)' = Downs(j) + One(v.key = j /\ v.delta = -1)
                                      - One(adj[g].key = j /\ adj[g].delta = -1)
      BY <1>6
    <3> QED BY <3>1, <3>2, <3>3
  <2>3. Kept(j)' = Kept(j) /\ Dues(j)' = Dues(j) /\ Cleaned(j)' = Cleaned(j)
        /\ wt' = wt /\ base' = base
    BY <1>1, Untouched
  <2> QED BY <2>1, <2>2, <2>3
<1>8. Few(rec', Rec) /\ Few(sched', Due)
  BY <1>1 DEF Open, FewUnderWay
<1> QED BY <1>6, <1>7, <1>8, ClosedIf

LEMMA AdjustWriteAccounts ==
  ASSUME Open, NEW g \in Adjusters, AdjustWrite(g)
  PROVE  Closed
<1> DEFINE a == adj[g]  k == adj[g].key  w == Clamp(a.w + a.delta, a.b)  v == NoAdj
<1>1. /\ a.w > 0 /\ UNCHANGED <<base, rec, sched, clean, adm>>
      /\ wt' = [wt EXCEPT ![k] = w] /\ adj' = [adj EXCEPT ![g] = v]
      /\ drifted' = IF <<a.w, a.b, w>> = <<wt[k], base[k], a.w + a.delta>>
                      THEN drifted ELSE drifted \cup {k}
  BY DEF AdjustWrite, workers
<1>2. a \in Adj
  BY <1>1, OpenIs DEF Recorded, NoAdj
<1>3. k \in Keys /\ a.delta \in {-1, 1} /\ a.w \in Nat
  BY <1>2 DEF Adj
<1>4. v \in Adj \cup {NoAdj} /\ v.key = None /\ adj[g].key = k
  BY DEF NoAdj
<1>5. wt \in [Keys -> Positive]
  BY OpenIs DEF Weighed
<1> HIDE DEF v, w, k
<1>6. Few(adj', Adj)
      /\ \A j \in Keys :
              /\ Ups(j)' = Ups(j) + One(v.key = j /\ v.delta = 1)
                                  - One(adj[g].key = j /\ adj[g].delta = 1)
              /\ Downs(j)' = Downs(j) + One(v.key = j /\ v.delta = -1)
                                      - One(adj[g].key = j /\ adj[g].delta = -1)
  BY <1>1, <1>4, OpenIs, AdjMoves
<1>7. ASSUME NEW j \in Keys \ drifted', adm'.cur # j
      PROVE  wt'[j] + Ups(j)' + Kept(j)' = base'[j] + Downs(j)' + Dues(j)' + Cleaned(j)'
  <2>0. j \notin drifted
    BY <1>1, <1>7
  <2>1. wt[j] + Ups(j) + Kept(j) = base[j] + Downs(j) + Dues(j) + Cleaned(j)
        /\ wt[j] \in Nat /\ base[j] \in Nat
    BY <1>1, <1>7, <2>0, OpenIs DEF Positive
  <2>2. /\ Ups(j)' = Ups(j) - One(k = j /\ a.delta = 1)
        /\ Downs(j)' = Downs(j) - One(k = j /\ a.delta = -1)
    <3>1. One(v.key = j /\ v.delta = 1) = 0 /\ One(v.key = j /\ v.delta = -1) = 0
      BY <1>4, Constants DEF One
    <3>2. Ups(j) \in Nat /\ Downs(j) \in Nat
      BY OpenIs, CountsNat
    <3>3. /\ Ups(j)' = Ups(j) + One(v.key = j /\ v.delta = 1)
                                  - One(k = j /\ a.delta = 1)
          /\ Downs(j)' = Downs(j) + One(v.key = j /\ v.delta = -1)
                                      - One(k = j /\ a.delta = -1)
      BY <1>4, <1>6
    <3>4. One(k = j /\ a.delta = 1) \in {0, 1} /\ One(k = j /\ a.delta = -1) \in {0, 1}
      BY DEF One
    <3> HIDE DEF a
    <3> QED BY <3>1, <3>2, <3>3, <3>4
  <2>3. Kept(j)' = Kept(j) /\ Dues(j)' = Dues(j) /\ Cleaned(j)' = Cleaned(j) /\ base' = base
    BY <1>1, Untouched
  <2>4. Ups(j) \in Nat /\ Downs(j) \in Nat /\ Kept(j) \in Nat /\ Dues(j) \in Nat /\ Cleaned(j) \in Nat
    BY OpenIs, CountsNat
  <2>5. CASE j = k
    <3>1. w = wt[k] + a.delta
      <4>1. <<a.w, a.b, w>> = <<wt[k], base[k], a.w + a.delta>>
        BY <1>1, <1>7, <2>5
      <4> HIDE DEF a
      <4> QED BY <4>1
    <3>2. wt'[j] = wt[j] + a.delta
      BY <1>1, <1>3, <1>5, <2>5, <3>1
    <3>3. One(k = j /\ a.delta = 1) - One(k = j /\ a.delta = -1) = a.delta
          /\ One(k = j /\ a.delta = 1) \in Nat /\ One(k = j /\ a.delta = -1) \in Nat
      BY <1>3, <2>5 DEF One
    <3> HIDE DEF a
    <3> QED BY <1>3, <2>1, <2>2, <2>3, <2>4, <3>2, <3>3
  <2>6. CASE j # k
    <3>1. wt'[j] = wt[j]
      BY <1>1, <1>5, <2>6
    <3>2. One(k = j /\ a.delta = 1) = 0 /\ One(k = j /\ a.delta = -1) = 0
      BY <2>6 DEF One
    <3> QED BY <2>1, <2>2, <2>3, <2>4, <3>1, <3>2
  <2> QED BY <2>5, <2>6
<1>8. Few(rec', Rec) /\ Few(sched', Due)
  BY <1>1 DEF Open, FewUnderWay
<1> QED BY <1>6, <1>7, <1>8, ClosedIf

LEMMA AdjustFailsAccounts ==
  ASSUME Open, NEW g \in Adjusters, AdjustFails(g)
  PROVE  Closed
<1> DEFINE k == adj[g].key  v == NoAdj
<1>1. /\ UNCHANGED <<wt, base, rec, sched, clean, adm>>
      /\ adj' = [adj EXCEPT ![g] = v] /\ drifted' = drifted \cup {k}
  BY DEF AdjustFails, store, workers
<1>2. v \in Adj \cup {NoAdj} /\ v.key = None /\ adj[g].key = k
  BY DEF NoAdj
<1> HIDE DEF v, k
<1>3. Few(adj', Adj)
      /\ \A j \in Keys :
              /\ Ups(j)' = Ups(j) + One(v.key = j /\ v.delta = 1)
                                  - One(adj[g].key = j /\ adj[g].delta = 1)
              /\ Downs(j)' = Downs(j) + One(v.key = j /\ v.delta = -1)
                                      - One(adj[g].key = j /\ adj[g].delta = -1)
  BY <1>1, <1>2, OpenIs, AdjMoves
<1>4. ASSUME NEW j \in Keys \ drifted', adm'.cur # j
      PROVE  wt'[j] + Ups(j)' + Kept(j)' = base'[j] + Downs(j)' + Dues(j)' + Cleaned(j)'
  <2>0. j \notin drifted /\ j # k
    BY <1>1, <1>4
  <2>1. wt[j] + Ups(j) + Kept(j) = base[j] + Downs(j) + Dues(j) + Cleaned(j)
    BY <1>1, <1>4, <2>0, OpenIs
  <2>2. Ups(j)' = Ups(j) /\ Downs(j)' = Downs(j)
    <3>1. /\ One(v.key = j /\ v.delta = 1) = 0 /\ One(v.key = j /\ v.delta = -1) = 0
          /\ One(adj[g].key = j /\ adj[g].delta = 1) = 0
          /\ One(adj[g].key = j /\ adj[g].delta = -1) = 0
      BY <1>2, <2>0, Constants DEF One
    <3>2. Ups(j) \in Nat /\ Downs(j) \in Nat
      BY OpenIs, CountsNat
    <3>3. /\ Ups(j)' = Ups(j) + One(v.key = j /\ v.delta = 1)
                                - One(adj[g].key = j /\ adj[g].delta = 1)
          /\ Downs(j)' = Downs(j) + One(v.key = j /\ v.delta = -1)
                                    - One(adj[g].key = j /\ adj[g].delta = -1)
      BY <1>3
    <3> QED BY <3>1, <3>2, <3>3
  <2>3. Kept(j)' = Kept(j) /\ Dues(j)' = Dues(j) /\ Cleaned(j)' = Cleaned(j)
        /\ wt' = wt /\ base' = base
    BY <1>1, Untouched
  <2> QED BY <2>1, <2>2, <2>3
<1>5. Few(rec', Rec) /\ Few(sched', Due)
  BY <1>1 DEF Open, FewUnderWay
<1> QED BY <1>3, <1>4, <1>5, ClosedIf

LEMMA WeighHSetAccounts ==
  ASSUME Open, WeighHSet
  PROVE  Closed
<1>1. PICK k \in adm.todo :
        /\ wt' = [wt EXCEPT ![k] = adm.w]
        /\ base' = IF adm.based THEN [base EXCEPT ![k] = adm.w] ELSE base
        /\ adm' = [adm EXCEPT !.pc = "clear", !.cur = k]
  BY DEF WeighHSet
<1>2. UNCHANGED <<rec, adj, sched, clean, drifted>> /\ adm.pc = "hset"
  BY DEF WeighHSet
<1>3. adm'.cur = k /\ adm.cur = None
  BY <1>1, <1>2, OpenIs DEF Weighed
<1>4. wt \in [Keys -> Positive] /\ base \in [Keys -> Positive]
  BY OpenIs DEF Weighed
<1>7. ASSUME NEW j \in Keys \ drifted', adm'.cur # j
      PROVE  wt'[j] + Ups(j)' + Kept(j)' = base'[j] + Downs(j)' + Dues(j)' + Cleaned(j)'
  <2>1. wt[j] + Ups(j) + Kept(j) = base[j] + Downs(j) + Dues(j) + Cleaned(j)
    BY <1>2, <1>3, <1>7, OpenIs, Constants
  <2>2. wt'[j] = wt[j] /\ base'[j] = base[j]
    BY <1>1, <1>3, <1>4, <1>7
  <2>3. Ups(j)' = Ups(j) /\ Downs(j)' = Downs(j) /\ Kept(j)' = Kept(j) /\ Dues(j)' = Dues(j)
        /\ Cleaned(j)' = Cleaned(j)
    BY <1>2, Untouched
  <2> QED BY <2>1, <2>2, <2>3
<1>8. Few(rec', Rec) /\ Few(adj', Adj) /\ Few(sched', Due)
  BY <1>2 DEF Open, FewUnderWay
<1> QED BY <1>7, <1>8, ClosedIf

LEMMA WeighAnywayAccounts ==
  ASSUME Open, WeighAnyway
  PROVE  Closed
<1>1. PICK k \in Keys : /\ wt' = [wt EXCEPT ![k] = adm.w]
                        /\ base' = IF adm.based THEN [base EXCEPT ![k] = adm.w] ELSE base
                        /\ drifted' = drifted \cup {k}
  BY DEF WeighAnyway
<1>2. UNCHANGED <<rec, adj, sched, clean>> /\ adm.pc = "hset"
  BY DEF WeighAnyway
<1>3. adm.cur = None
  BY <1>2, OpenIs DEF Weighed
<1>4. wt \in [Keys -> Positive] /\ base \in [Keys -> Positive]
  BY OpenIs DEF Weighed
<1>5. ASSUME NEW j \in Keys \ drifted', adm'.cur # j
      PROVE  wt'[j] + Ups(j)' + Kept(j)' = base'[j] + Downs(j)' + Dues(j)' + Cleaned(j)'
  <2>0. j \notin drifted /\ j # k
    BY <1>1, <1>5
  <2>1. wt[j] + Ups(j) + Kept(j) = base[j] + Downs(j) + Dues(j) + Cleaned(j)
    BY <1>3, <2>0, OpenIs, Constants
  <2>2. wt'[j] = wt[j] /\ base'[j] = base[j]
    BY <1>1, <1>4, <2>0
  <2>3. Ups(j)' = Ups(j) /\ Downs(j)' = Downs(j) /\ Kept(j)' = Kept(j) /\ Dues(j)' = Dues(j)
        /\ Cleaned(j)' = Cleaned(j)
    BY <1>2, Untouched
  <2> QED BY <2>1, <2>2, <2>3
<1>6. Few(rec', Rec) /\ Few(adj', Adj) /\ Few(sched', Due)
  BY <1>2 DEF Open, FewUnderWay
<1> QED BY <1>5, <1>6, ClosedIf

LEMMA RestoredAccounts ==
  ASSUME Open, NEW k \in Keys, Restored(k)
  PROVE  Closed
<1>1. /\ wt' = [wt EXCEPT ![k] = row[k].w] /\ base' = [base EXCEPT ![k] = row[k].b]
      /\ drifted' = (IF wt' = wt /\ base' = base THEN drifted ELSE drifted \cup {k})
      /\ UNCHANGED <<rec, adj, sched, clean, adm>>
  BY DEF Restored, workers
<1>4. wt \in [Keys -> Positive] /\ base \in [Keys -> Positive]
  BY OpenIs DEF Weighed
<1>7. ASSUME NEW j \in Keys \ drifted', adm'.cur # j
      PROVE  wt'[j] + Ups(j)' + Kept(j)' = base'[j] + Downs(j)' + Dues(j)' + Cleaned(j)'
  <2>1. wt[j] + Ups(j) + Kept(j) = base[j] + Downs(j) + Dues(j) + Cleaned(j)
    <3>1. j \notin drifted /\ adm.cur # j
      BY <1>1, <1>7
    <3> QED BY <3>1, OpenIs
  <2>2. wt'[j] = wt[j] /\ base'[j] = base[j]
    <3>1. CASE wt' = wt /\ base' = base
      BY <3>1
    <3>2. CASE ~ (wt' = wt /\ base' = base)
      <4>1. j # k
        BY <1>1, <1>7, <3>2
      <4> QED BY <1>1, <1>4, <4>1
    <3> QED BY <3>1, <3>2
  <2>3. Ups(j)' = Ups(j) /\ Downs(j)' = Downs(j) /\ Kept(j)' = Kept(j) /\ Dues(j)' = Dues(j)
        /\ Cleaned(j)' = Cleaned(j)
    BY <1>1, Untouched
  <2> QED BY <2>1, <2>2, <2>3
<1>8. Few(rec', Rec) /\ Few(adj', Adj) /\ Few(sched', Due)
  BY <1>1 DEF Open, FewUnderWay
<1> QED BY <1>7, <1>8, ClosedIf

LEMMA QuietCounts ==
  ASSUME Recorded, NEW k \in Keys, Quiet(k)
  PROVE  Ups(k) = 0 /\ Downs(k) = 0 /\ Dues(k) = 0 /\ Cleaned(k) = 0
<1>1. /\ \A g \in Adjusters : adj[g].key # k
      /\ \A r \in Requests : sched[r].deleted => sched[r].key # k
      /\ clean.cur # <<>> => clean.cur[2] # k
      /\ DOMAIN adj = Adjusters /\ DOMAIN sched = Requests
  BY DEF Quiet, Recorded
<1>2. \A d : \A g \in DOMAIN adj : adj[g] \notin AdjOf(k, d)
  BY <1>1 DEF AdjOf
<1>3. \A r \in DOMAIN sched : sched[r] \notin DueOf(k)
  BY <1>1 DEF DueOf, Due
<1>4. HowMany(adj, AdjOf(k, 1)) = 0 /\ HowMany(adj, AdjOf(k, -1)) = 0
  BY <1>2, NoneOf
<1>5. HowMany(sched, DueOf(k)) = 0
  BY <1>3, NoneOf
<1>6. Cleaned(k) = 0
  BY <1>1 DEF Cleaned, One
<1> QED BY <1>4, <1>5, <1>6 DEF Ups, Downs, Dues

LEMMA ClearRecordsAccounts ==
  ASSUME Open, ClearRecords
  PROVE  Closed
<1>0. adm.cur \in Keys
  BY OpenIs DEF ClearRecords, Weighed
<1>9. PICK k \in Keys : k = adm.cur
  BY <1>0
<1> DEFINE C == {c \in Names : rec[c].key = k}
<1>1. /\ rec' = [c \in Names |-> IF c \in C THEN NoRec ELSE rec[c]]
      /\ drifted' = (IF Quiet(k) /\ wt[k] = base[k] THEN drifted \ {k} ELSE drifted \cup {k})
      /\ UNCHANGED <<wt, base, adj, sched, clean>>
  BY <1>9 DEF ClearRecords
<1>2. wt[k] \in Positive
  BY OpenIs DEF Weighed
<1>3. rec \in [Names -> Rec \cup {NoRec}] /\ NoRec \notin Rec
  BY OpenIs, Constants DEF Recorded, Rec, NoRec
<1>4. Few(rec', Rec)
  <2>1. Those(rec', Rec) \subseteq Those(rec, Rec)
    BY <1>1, <1>3 DEF Those
  <2>2. IsFiniteSet(Those(rec, Rec))
    BY DEF Open, FewUnderWay, Few
  <2> QED BY <2>1, <2>2, FS_Subset DEF Few
<1>5. Kept(k)' = 0
  <2>1. \A c \in DOMAIN rec' : rec'[c] \notin RecOf(k)
    BY <1>1, <1>3 DEF RecOf
  <2>2. HowMany(rec', RecOf(k)) = 0
    BY <2>1, NoneOf
  <2> QED BY <2>2, CountsAre
<1>6. ASSUME NEW j \in Keys, j # k PROVE Kept(j)' = Kept(j)
  <2>1. \A c \in Names : rec'[c] \in RecOf(j) <=> rec[c] \in RecOf(j)
    BY <1>1, <1>3, <1>6 DEF RecOf
  <2>2. DOMAIN rec' = Names /\ DOMAIN rec = Names
    BY <1>1, <1>3
  <2>3. Those(rec', RecOf(j)) = Those(rec, RecOf(j))
    BY <2>1, <2>2 DEF Those
  <2> QED BY <2>3, CountsAre DEF Kept, HowMany
<1> HIDE DEF C
<1>7. ASSUME NEW j \in Keys \ drifted', adm'.cur # j
      PROVE  wt'[j] + Ups(j)' + Kept(j)' = base'[j] + Downs(j)' + Dues(j)' + Cleaned(j)'
  <2>1. Ups(j)' = Ups(j) /\ Downs(j)' = Downs(j) /\ Dues(j)' = Dues(j)
        /\ Cleaned(j)' = Cleaned(j) /\ wt' = wt /\ base' = base
    BY <1>1, Untouched
  <2>2. CASE j = k
    <3>1. Quiet(k) /\ wt[k] = base[k]
      BY <1>1, <1>7, <2>2
    <3>2. Ups(k) = 0 /\ Downs(k) = 0 /\ Dues(k) = 0 /\ Cleaned(k) = 0
      BY <1>2, <3>1, OpenIs, QuietCounts
    <3> QED BY <1>2, <1>5, <2>1, <2>2, <3>1, <3>2 DEF Positive
  <2>3. CASE j # k
    <3>1. j \notin drifted /\ adm.cur # j
      BY <1>1, <1>7, <2>3, <1>9
    <3>2. wt[j] + Ups(j) + Kept(j) = base[j] + Downs(j) + Dues(j) + Cleaned(j)
      BY <3>1, OpenIs
    <3> QED BY <1>6, <2>1, <2>3, <3>2
  <2> QED BY <2>2, <2>3
<1>8. Few(adj', Adj) /\ Few(sched', Due)
  BY <1>1 DEF Open, FewUnderWay
<1> QED BY <1>4, <1>7, <1>8, ClosedIf

\* Nothing is on record and nothing is under way.
LEMMA NothingCounts ==
  /\ \A f : f = [c \in Names |-> NoRec] =>
       Few(f, Rec) /\ \A k \in Keys : HowMany(f, RecOf(k)) = 0
  /\ \A f : f = [g \in Adjusters |-> NoAdj] =>
       Few(f, Adj) /\ \A k \in Keys : \A d : HowMany(f, AdjOf(k, d)) = 0
  /\ \A f : f = [r \in Requests |-> NoLate] =>
       Few(f, Due) /\ \A k \in Keys : HowMany(f, DueOf(k)) = 0
<1>1. NoRec \notin Rec /\ \A k \in Keys : NoRec \notin RecOf(k)
  BY Constants DEF NoRec, Rec, RecOf
<1>2. NoAdj \notin Adj /\ \A k, d : NoAdj \notin AdjOf(k, d)
  BY Constants DEF NoAdj, Adj, AdjOf
<1>3. NoLate \notin Due /\ \A k : NoLate \notin DueOf(k)
  BY DEF NoLate, Due, DueOf
<1>4. ASSUME NEW f, NEW S, NEW T, NEW e, f = [x \in T |-> e], e \notin S
      PROVE  Few(f, S) /\ HowMany(f, S) = 0
  <2>1. \A x \in DOMAIN f : f[x] \notin S
    BY <1>4
  <2> QED BY <2>1, NoneOf
<1>5. ASSUME NEW f, f = [c \in Names |-> NoRec]
      PROVE  Few(f, Rec) /\ \A k \in Keys : HowMany(f, RecOf(k)) = 0
  BY <1>1, <1>4, <1>5
<1>6. ASSUME NEW f, f = [g \in Adjusters |-> NoAdj]
      PROVE  Few(f, Adj) /\ \A k \in Keys : \A d : HowMany(f, AdjOf(k, d)) = 0
  BY <1>2, <1>4, <1>6
<1>7. ASSUME NEW f, f = [r \in Requests |-> NoLate]
      PROVE  Few(f, Due) /\ \A k \in Keys : HowMany(f, DueOf(k)) = 0
  BY <1>3, <1>4, <1>7
<1> QED BY <1>5, <1>6, <1>7

LEMMA RestartAccounts ==
  ASSUME Weighed, Restart
  PROVE  Closed
<1>1. /\ wt' = [k \in Keys |-> row[k].w] /\ base' = [k \in Keys |-> row[k].b]
      /\ rec' = [c \in Names |-> NoRec] /\ adj' = [g \in Adjusters |-> NoAdj]
      /\ sched' = [r \in Requests |-> NoLate] /\ clean' = NoClean
      /\ drifted' = {k \in Keys : row[k].w # row[k].b}
      /\ row \in [Keys -> [w : Positive, b : Positive]]
  BY DEF Restart, Weighed
<1>2. Few(rec', Rec) /\ Few(adj', Adj) /\ Few(sched', Due)
  BY <1>1, NothingCounts
<1>3. ASSUME NEW j \in Keys \ drifted', adm'.cur # j
      PROVE  wt'[j] + Ups(j)' + Kept(j)' = base'[j] + Downs(j)' + Dues(j)' + Cleaned(j)'
  <2>1. wt'[j] = base'[j] /\ wt'[j] \in Nat
    BY <1>1, <1>3 DEF Positive
  <2>2. Kept(j)' = 0 /\ Dues(j)' = 0
    <3>1. HowMany(rec', RecOf(j)) = 0 /\ HowMany(sched', DueOf(j)) = 0
      BY <1>1, NothingCounts
    <3> QED BY <3>1, CountsAre
  <2>3. Ups(j)' = 0 /\ Downs(j)' = 0
    <3>1. HowMany(adj', AdjOf(j, 1)) = 0 /\ HowMany(adj', AdjOf(j, -1)) = 0
      BY <1>1, NothingCounts
    <3> QED BY <3>1, CountsAre
  <2>4. Cleaned(j)' = 0
    <3>1. Cleaned(j)' = One(clean'.cur # <<>> /\ clean'.cur[2] = j)
      BY CountsAre
    <3> QED BY <1>1, <3>1 DEF One, NoClean
  <2> QED BY <2>1, <2>2, <2>3, <2>4
<1> QED BY <1>2, <1>3, ClosedIf

LEMMA InitBooks == CacheInit => Books
<1> SUFFICES ASSUME CacheInit PROVE Books
  OBVIOUS
<1>1. /\ wt = [k \in Keys |-> Base] /\ base = wt
      /\ rec = [c \in Names |-> NoRec] /\ adj = [g \in Adjusters |-> NoAdj]
      /\ sched = [r \in Requests |-> NoLate] /\ clean = NoClean
  BY DEF CacheInit
<1>2. FewUnderWay
  BY <1>1, NothingCounts DEF FewUnderWay
<1>3. LateWhenDone
  BY <1>1 DEF LateWhenDone
<1>4. ASSUME NEW k \in Keys PROVE Account(k)
  <2>1. Kept(k) = 0 /\ Ups(k) = 0 /\ Downs(k) = 0 /\ Dues(k) = 0
    BY <1>1, NothingCounts DEF Kept, Ups, Downs, Dues
  <2>2. Cleaned(k) = 0
    BY <1>1 DEF Cleaned, NoClean, One
  <2>3. wt[k] = base[k] /\ wt[k] \in Nat
    BY <1>1, Constants DEF Positive
  <2> QED BY <2>1, <2>2, <2>3 DEF Account
<1> QED BY <1>2, <1>3, <1>4 DEF Books, Accounted

Cleans(r) == LateDelete(r) \/ LateDeleteFails(r) \/ LateRemove(r)

LEMMA OthersStay ==
  ASSUME Under, NEW r \in Requests, (\E q \in Kinds : Arrive(r, q)) \/ RequestStep(r)
  PROVE  /\ \A q \in Requests \ {r} : loc'[q] = loc[q]
         /\ Cleans(r) \/ loc[r].pc # "done"
         /\ Cleans(r) => loc' = loc
<1>1. ASSUME NEW l, loc' = [loc EXCEPT ![r] = l] PROVE \A q \in Requests \ {r} : loc'[q] = loc[q]
  BY <1>1 DEF Under
<1> QED BY <1>1 DEF RequestStep, Arrive, Get, Details, Refresh, Touch, Unbind, GiveBack,
  SelectKey, SetNX, Claim, SetNXFails, RecordSession, Other, Theirs, HashBind, HashRecord,
  CallFails, Cleans, LateDelete, LateDeleteFails, LateRemove, HashOrDone, Set, Goto, Done

LEMMA LateStays ==
  ASSUME Now, LateWhenDone, NEW r \in Requests, (\E q \in Kinds : Arrive(r, q)) \/ RequestStep(r)
  PROVE  LateWhenDone'
<1>1. /\ \A q \in Requests \ {r} : loc'[q] = loc[q]
      /\ Cleans(r) \/ loc[r].pc # "done"
      /\ Cleans(r) => loc' = loc
  BY OthersStay DEF Now
<1>2. sched \in [Requests -> Late \cup {NoLate}] /\ loc \in [Requests -> Way]
  BY DEF Now, Recorded, Under
<1>3. \A q \in Requests \ {r} : sched'[q] = sched[q]
  BY <1>2 DEF RequestStep, Arrive, Get, Details, Refresh, Touch, Unbind, GiveBack,
     SelectKey, SetNX, SetNXFails, RecordSession, Other, Theirs, HashBind, HashRecord,
     CallFails, LateDelete, LateDeleteFails, LateRemove
<1>4. sched'[r] # NoLate => loc'[r].pc = "done"
  <2>1. CASE Cleans(r)
    <3>1. sched[r] # NoLate
      BY <2>1 DEF Cleans, LateDelete, LateDeleteFails, LateRemove, NoLate
    <3>2. loc[r].pc = "done"
      BY <3>1, Zenon DEF LateWhenDone
    <3> QED BY <1>1, <2>1, <3>2
  <2>2. CASE HashRecord(r)
    <3>1. loc' = [loc EXCEPT ![r] = [Free EXCEPT !.pc = "done", !.q = loc[r].q, !.key = loc[r].key]]
      BY <2>2 DEF HashRecord, Done, Set
    <3> QED BY <1>2, <3>1 DEF Free
  <2>3. CASE ~ (Cleans(r) \/ HashRecord(r))
    <3>1. loc[r].pc # "done"
      BY <1>1, <2>3
    <3>2. sched[r] = NoLate
      BY <3>1, Zenon DEF LateWhenDone
    <3>3. sched' = sched
      BY <2>3 DEF RequestStep, Cleans, Arrive, Get, Details, Refresh, Touch, Unbind, GiveBack,
         SelectKey, SetNX, SetNXFails, RecordSession, Other, Theirs, HashBind, CallFails
    <3> QED BY <3>2, <3>3
  <2> QED BY <2>1, <2>2, <2>3
<1>5. \A q \in Requests : sched'[q] # NoLate => loc'[q].pc = "done"
  BY <1>1, <1>3, <1>4 DEF LateWhenDone
<1> QED BY <1>5 DEF LateWhenDone, NoLate

LEMMA RequestAccounts ==
  ASSUME Open, LateWhenDone, NEW r \in Requests, (\E q \in Kinds : Arrive(r, q)) \/ RequestStep(r)
  PROVE  Closed
<1>1. CASE GiveBack(r) \/ RecordSession(r) \/ HashRecord(r) \/ Cleans(r)
  BY <1>1, GiveBackAccounts, RecordSessionAccounts, HashRecordAccounts, LateDeleteAccounts,
     LateDeleteFailsAccounts, LateRemoveAccounts DEF Cleans
<1>2. ASSUME UNCHANGED <<wt, base, adj, sched, clean, adm, drifted>>,
             rec' = rec \/ \E c \in Names, b \in BOOLEAN : rec' = [rec EXCEPT ![c].old = b]
      PROVE  Closed
  <2>1. Few(rec', Rec) /\ \A k \in Keys : Kept(k)' = Kept(k)
    BY <1>2, SameRecords
  <2> QED BY <1>2, <2>1, StillAccounts
<1>3. CASE Touch(r)
  <2>1. Name(r) \in Names
    BY <1>3, OpenIs, AtItsName DEF Touch
  <2>2. rec' = [rec EXCEPT ![Name(r)].old = FALSE]
    BY <1>3 DEF Touch
  <2>3. UNCHANGED <<wt, base, adj, sched, clean, adm, drifted>>
    BY <1>3 DEF Touch, store, workers
  <2> QED BY <1>2, <2>1, <2>2, <2>3
<1>4. CASE (\E q \in Kinds : Arrive(r, q)) \/ Get(r) \/ Details(r) \/ Refresh(r) \/ Unbind(r)
           \/ SelectKey(r) \/ SetNX(r) \/ SetNXFails(r) \/ Other(r) \/ Theirs(r) \/ HashBind(r)
           \/ CallFails(r)
  <2>1. UNCHANGED <<wt, base, adj, sched, clean, adm, drifted, rec>>
    BY <1>4 DEF Arrive, Get, Details, Refresh, Unbind, SelectKey, SetNX, SetNXFails, Other,
       Theirs, HashBind, CallFails, store, workers
  <2> QED BY <1>2, <2>1
<1> QED BY <1>1, <1>3, <1>4 DEF RequestStep, Cleans

LEMMA StandingAccounts ==
  ASSUME Open, UNCHANGED <<wt, base, rec, adj, sched, drifted>>, clean'.cur = clean.cur,
         adm.cur # None => adm'.cur = adm.cur
  PROVE  Closed
<1>1. Few(rec', Rec) /\ \A k \in Keys : Kept(k)' = Kept(k)
  BY SameRecords
<1> QED BY <1>1, StillAccounts

LEMMA AdminAccounts ==
  ASSUME Open,
         \/ Admin
         \/ \E K \in (SUBSET Keys) \ {{}}, w \in Weights : Weigh(K, w)
         \/ \E k \in Keys : ResetSingleKeyWeight(k)
  PROVE  Closed
<1>1. CASE WeighHSet
  BY <1>1, WeighHSetAccounts
<1>2. CASE ClearRecords
  BY <1>2, ClearRecordsAccounts
<1>3. CASE WeighCommit
  <2>1. adm.cur = None
    BY <1>3, OpenIs DEF WeighCommit, Weighed
  <2> QED BY <1>3, <2>1, StandingAccounts DEF WeighCommit, store
<1>4. ASSUME NEW K, NEW w, Weigh(K, w) PROVE Closed
  <2>1. adm.cur = None
    BY <1>4 DEF Weigh, NoAdm
  <2> QED BY <1>4, <2>1, StandingAccounts DEF Weigh, store
<1>5. ASSUME NEW k, ResetSingleKeyWeight(k) PROVE Closed
  <2>1. adm.cur = None
    BY <1>5 DEF ResetSingleKeyWeight, NoAdm
  <2> QED BY <1>5, <2>1, StandingAccounts DEF ResetSingleKeyWeight, store
<1>6. CASE WeighFails
  <2>1. adm.cur = None
    BY <1>6, OpenIs DEF WeighFails, Weighed
  <2> QED BY <1>6, <2>1, StandingAccounts DEF WeighFails, store
<1>7. CASE WeighAnyway
  BY <1>7, WeighAnywayAccounts
<1> QED BY <1>1, <1>2, <1>3, <1>4, <1>5, <1>6, <1>7 DEF Admin

LEMMA CleanerAccounts ==
  ASSUME Open, Cleaner
  PROVE  Closed
<1>1. CASE Collect
  <2>1. clean'.cur = clean.cur
    <3>1. clean' = [clean EXCEPT !.todo = {<<c, rec[c].key>> : c \in Expired}]
      BY <1>1 DEF Collect
    <3>2. clean \in [todo : SUBSET (Names \X Keys), cur : (Names \X Keys) \cup {<<>>}]
      BY OpenIs DEF Recorded
    <3> QED BY <3>1, <3>2
  <2> QED BY <1>1, <2>1, StandingAccounts DEF Collect, store
<1> QED BY <1>1, CleanDeleteAccounts, CleanRemoveAccounts DEF Cleaner

LEMMA BooksKept ==
  ASSUME Inv, Books, [CacheNext]_cacheVars
  PROVE  Books'
<1>0. Open /\ LateWhenDone /\ Weighed /\ Now
  BY OpenIs DEF Open, Books
<1>1. ASSUME UNCHANGED <<sched, loc>> PROVE LateWhenDone'
  BY <1>0, <1>1 DEF LateWhenDone
<1>2. Closed /\ LateWhenDone'
  <2>1. ASSUME NEW r \in Requests, (\E q \in Kinds : Arrive(r, q)) \/ RequestStep(r)
        PROVE  Closed /\ LateWhenDone'
    BY <1>0, <2>1, RequestAccounts, LateStays
  <2>2. CASE Adjusts
    <3>1. PICK g \in Adjusters : AdjustRead(g) \/ AdjustWrite(g) \/ AdjustFails(g)
      BY <2>2 DEF Adjusts
    <3>2. UNCHANGED <<sched, loc>>
      BY <3>1 DEF AdjustRead, AdjustWrite, AdjustFails
    <3> QED BY <1>0, <1>1, <3>1, <3>2, AdjustReadAccounts, AdjustWriteAccounts,
               AdjustFailsAccounts
  <2>3. CASE Cleaner
    <3>1. UNCHANGED <<sched, loc>>
      BY <2>3 DEF Cleaner, Collect, CleanDelete, CleanRemove
    <3> QED BY <1>0, <1>1, <2>3, <3>1, CleanerAccounts
  <2>4. CASE SyncFind \/ Syncer
    <3>1. UNCHANGED <<wt, base, rec, adj, sched, clean, adm, loc, drifted>>
      BY <2>4 DEF SyncFind, Syncer, SyncRead, SyncWrite, SyncFails, store
    <3> QED BY <1>0, <1>1, <3>1, StandingAccounts
  <2>5. CASE \/ Admin
             \/ \E K \in (SUBSET Keys) \ {{}}, w \in Weights : Weigh(K, w)
             \/ \E k \in Keys : ResetSingleKeyWeight(k)
    <3>1. UNCHANGED <<sched, loc>>
      BY <2>5 DEF Admin, WeighHSet, WeighFails, WeighAnyway, ClearRecords, WeighCommit, Weigh,
         ResetSingleKeyWeight
    <3> QED BY <1>0, <1>1, <2>5, <3>1, AdminAccounts
  <2>6. ASSUME NEW k \in Keys, Dies(k) \/ Restored(k) PROVE Closed /\ LateWhenDone'
    <3>1. UNCHANGED <<sched, loc>>
      BY <2>6 DEF Dies, Restored
    <3>2. CASE Dies(k)
      BY <1>0, <1>1, <3>1, <3>2, StandingAccounts DEF Dies, workers
    <3>3. CASE Restored(k)
      BY <1>0, <1>1, <3>1, <3>3, RestoredAccounts
    <3> QED BY <2>6, <3>2, <3>3
  <2>7. ASSUME NEW c \in Names, EntryExpires(c) PROVE Closed /\ LateWhenDone'
    <3>1. UNCHANGED <<wt, base, rec, adj, sched, clean, adm, loc, drifted>>
      BY <2>7 DEF EntryExpires, workers
    <3> QED BY <1>0, <1>1, <3>1, StandingAccounts
  <2>8. ASSUME NEW c \in Names, RecordExpires(c) PROVE Closed /\ LateWhenDone'
    <3>1. UNCHANGED <<wt, base, adj, sched, clean, adm, loc, drifted>>
          /\ rec' = [rec EXCEPT ![c].old = TRUE]
      BY <2>8 DEF RecordExpires, store, workers
    <3>2. Few(rec', Rec) /\ \A k \in Keys : Kept(k)' = Kept(k)
      BY <1>0, <3>1, SameRecords
    <3> QED BY <1>0, <1>1, <3>1, <3>2, StillAccounts
  <2>9. CASE Restart
    <3>1. LateWhenDone'
      BY <2>9 DEF Restart, LateWhenDone, NoLate
    <3> QED BY <1>0, <2>9, <3>1, RestartAccounts
  <2>10. CASE UNCHANGED cacheVars
    BY <1>0, <1>1, <2>10, StandingAccounts DEF cacheVars
  <2> QED BY <2>1, <2>2, <2>3, <2>4, <2>5, <2>6, <2>7, <2>8, <2>9, <2>10 DEF CacheNext
<1> QED BY <1>2 DEF Books, Closed

(***************************************************************************)
(* A key of which no change is under way has the weight its records say:   *)
(* its base, less one for each binding on record (AdjustKeyWeightAsync,    *)
(* and those that call it).  Not so the keys in drifted, whose account one *)
(* of the steps listed at WeightIsAccounted has falsified: an update that  *)
(* was lost, cut off or failed, a record removed or written over, a hash   *)
(* rewritten.                                                              *)
(***************************************************************************)
THEOREM WeightsAreAccounted == CacheSpec => []WeightIsAccounted
<1>1. Inv /\ Books => WeightIsAccounted
  <2> SUFFICES ASSUME Inv, Books, NEW k \in Keys \ drifted, Quiet(k), adm.cur # k
               PROVE  wt[k] = base[k] - Held(k)
    BY DEF WeightIsAccounted
  <2>1. Open
    BY DEF Open, Books
  <2>2. wt[k] + Ups(k) + Kept(k) = base[k] + Downs(k) + Dues(k) + Cleaned(k)
        /\ wt[k] \in Nat /\ base[k] \in Nat /\ Kept(k) \in Nat
    BY <2>1, OpenIs, CountsNat DEF Positive
  <2>3. Ups(k) = 0 /\ Downs(k) = 0 /\ Dues(k) = 0 /\ Cleaned(k) = 0
    BY <2>1, OpenIs, QuietCounts
  <2>4. Kept(k) = Held(k)
    <3>1. rec \in [Names -> Rec \cup {NoRec}]
      BY <2>1, OpenIs DEF Recorded
    <3>2. \A c \in Names : rec[c] \in RecOf(k) <=> rec[c].key = k
      BY <3>1, Constants DEF RecOf, Rec, NoRec
    <3>3. Those(rec, RecOf(k)) = {c \in Names : rec[c].key = k}
      BY <3>1, <3>2 DEF Those
    <3> QED BY <3>3 DEF Kept, HowMany, Held
  <2> QED BY <2>2, <2>3, <2>4
<1>2. CacheInit => Inv /\ Books
  BY InitTypes, InitBooks
<1>3. Inv /\ Books /\ [CacheNext]_cacheVars => (Inv /\ Books)'
  BY TypesKept, BooksKept
<1> QED BY <1>1, <1>2, <1>3, PTL DEF CacheSpec
=============================================================================
