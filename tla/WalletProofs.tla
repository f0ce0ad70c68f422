---------------------------- MODULE WalletProofs ----------------------------
(***************************************************************************)
(* For any amounts, credits and cash-outs: the limits of a coupon and the  *)
(* types, whatever number of requests overlap; the money, where two do and *)
(* nothing is opened meanwhile.                                            *)
(***************************************************************************)
EXTENDS Wallet, FiniteSetTheorems, NaturalsInduction, TLAPS

-----------------------------------------------------------------------------
(***************************************************************************)
(* Sums over finite sets.                                                  *)
(***************************************************************************)

\* The function the fold iterates: the member it takes, and its equation.
Taken(s) == CHOOSE x \in s : TRUE
Adds(h, f, S) ==
    h = [s \in SUBSET S |-> IF s = {} THEN 0 ELSE f[Taken(s)] + h[s \ {Taken(s)}]]

\* The fold is that function at the whole set.
LEMMA SumUnfolds ==
  ASSUME NEW f, NEW S
  PROVE  SumFunctionOnSet(f, S) = (CHOOSE h : Adds(h, f, S))[S]
BY DEF SumFunctionOnSet, FoldFunctionOnSet, MapThenFoldSet, Adds, Taken

\* The least member of a set of naturals.
LEMMA LeastOf ==
    ASSUME NEW T \in SUBSET Nat, T # {}
    PROVE  \E x \in T : \A y \in T : x <= y
<1>1. PICK less : less = {p \in Nat \X Nat : p[1] < p[2]}
  OBVIOUS
<1>2. IsWellFoundedOn(less, Nat)
  BY <1>1, NatLessThanWellFounded DEF OpToRel
<1>3. PICK x \in T : \A y \in T : <<y, x>> \notin less
  BY <1>2, WFMin
<1>4. \A y \in T : x \in Nat /\ y \in Nat /\ ~(y < x)
  BY <1>1, <1>3
<1> QED BY <1>4

\* A nonempty finite set loses one member when the taken one is removed.
LEMMA TakenOut ==
    ASSUME NEW s, IsFiniteSet(s), s # {}
    PROVE  /\ Taken(s) \in s /\ IsFiniteSet(s \ {Taken(s)})
           /\ Cardinality(s \ {Taken(s)}) = Cardinality(s) - 1
<1>1. Taken(s) \in s
  BY DEF Taken
<1> QED BY <1>1, FS_RemoveElement

\* Counterexamples to a statement about the finite subsets of a set would have a
\* smallest one among them.
LEMMA Smallest ==
    ASSUME NEW B, \A s \in B : IsFiniteSet(s), B # {}
    PROVE  \E s \in B : \A u \in B : Cardinality(s) <= Cardinality(u)
<1> DEFINE T == {Cardinality(s) : s \in B}
<1>1. T \in SUBSET Nat /\ T # {}
  BY FS_CardinalityType
<1>2. PICK n \in T : \A m \in T : n <= m
  <2> HIDE DEF T
  <2> QED BY <1>1, LeastOf
<1> QED BY <1>2

\* Such a function exists for a finite set.
LEMMA SumExists ==
    ASSUME NEW f, NEW S, IsFiniteSet(S)
    PROVE  \E h : Adds(h, f, S)
<1> DEFINE
      Up(n) == {s \in SUBSET S : Cardinality(s) <= n}
      Part(h, n) == h = [s \in Up(n) |-> IF s = {} THEN 0
                                         ELSE f[Taken(s)] + h[s \ {Taken(s)}]]
      B == {n \in Nat : ~\E h : Part(h, n)}
<1>0. \A s \in SUBSET S : /\ IsFiniteSet(s) /\ Cardinality(s) \in Nat
                          /\ Cardinality(s) <= Cardinality(S)
                          /\ (Cardinality(s) = 0 <=> s = {})
  BY FS_Subset, FS_CardinalityType, FS_EmptySet
<1>1. B = {}
  <2>1. SUFFICES ASSUME B # {} PROVE FALSE
    OBVIOUS
  <2>2. PICK n \in B : \A m \in B : n <= m
    <3>1. B \in SUBSET Nat
      OBVIOUS
    <3> HIDE DEF B
    <3> QED BY <2>1, <3>1, LeastOf
  <2>3. CASE n = 0
    <3>1. \A s \in Up(0) : s = {}
      BY <1>0
    <3>2. Part([s \in Up(0) |-> 0], 0)
      <4>1. [s \in Up(0) |-> 0]
              = [s \in Up(0) |-> IF s = {} THEN 0
                   ELSE f[Taken(s)] + [u \in Up(0) |-> 0][s \ {Taken(s)}]]
        <5> HIDE DEF Up
        <5> QED BY <3>1
      <4> QED BY <4>1
    <3> QED BY <2>2, <2>3, <3>2
  <2>4. CASE n # 0
    <3>1. n - 1 \in Nat /\ n - 1 \notin B /\ n \in Nat
      <4>1. n \in Nat
        OBVIOUS
      <4>2. n - 1 \in Nat /\ ~(n <= n - 1)
        BY <2>4, <4>1
      <4> HIDE DEF B
      <4> QED BY <2>2, <4>1, <4>2
    <3>2. PICK h : Part(h, n - 1)
      BY <3>1
    <3> DEFINE g == [s \in Up(n) |-> IF s = {} THEN 0
                                     ELSE f[Taken(s)] + h[s \ {Taken(s)}]]
    <3>3. \A s \in Up(n - 1) : s \in Up(n) /\ g[s] = h[s]
      <4>1. \A s \in Up(n - 1) : s \in Up(n)
        BY <1>0, <3>1
      <4>2. \A s \in Up(n - 1) : h[s] = IF s = {} THEN 0
                                        ELSE f[Taken(s)] + h[s \ {Taken(s)}]
        <5> HIDE DEF Up
        <5> QED BY <3>2
      <4>3. \A s \in Up(n) : g[s] = IF s = {} THEN 0
                                    ELSE f[Taken(s)] + h[s \ {Taken(s)}]
        <5> HIDE DEF Up
        <5> QED OBVIOUS
      <4> HIDE DEF g, Up, Part
      <4> QED BY <4>1, <4>2, <4>3
    <3>4. \A s \in Up(n) : s # {} => s \ {Taken(s)} \in Up(n - 1)
      <4>1. ASSUME NEW s \in Up(n), s # {} PROVE s \ {Taken(s)} \in Up(n - 1)
        <5>1. IsFiniteSet(s) /\ Cardinality(s) \in Nat /\ Cardinality(s) <= n
          BY <1>0
        <5>2. Cardinality(s \ {Taken(s)}) = Cardinality(s) - 1
          BY <4>1, <5>1, TakenOut
        <5> QED BY <3>1, <5>1, <5>2
      <4> QED BY <4>1
    <3>5. Part(g, n)
      <4> DEFINE w == [s \in Up(n) |-> IF s = {} THEN 0
                                       ELSE f[Taken(s)] + g[s \ {Taken(s)}]]
      <4>1. \A s \in Up(n) : g[s] = w[s]
        <5>1. \A s \in Up(n) : g[s] = IF s = {} THEN 0
                                      ELSE f[Taken(s)] + h[s \ {Taken(s)}]
          <6> HIDE DEF Up
          <6> QED OBVIOUS
        <5>2. \A s \in Up(n) : w[s] = IF s = {} THEN 0
                                      ELSE f[Taken(s)] + g[s \ {Taken(s)}]
          <6> HIDE DEF Up, g
          <6> QED OBVIOUS
        <5> HIDE DEF g, w, Up, Part
        <5> QED BY <3>3, <3>4, <5>1, <5>2
      <4>2. g = [s \in Up(n) |-> g[s]] /\ w = [s \in Up(n) |-> w[s]]
        <5> HIDE DEF Up
        <5> QED OBVIOUS
      <4>3. g = w
        <5> HIDE DEF g, w, Up, Part
        <5> QED BY <4>1, <4>2
      <4> HIDE DEF g, Up
      <4> QED BY <4>3
    <3>6. \E k : Part(k, n)
      <4> HIDE DEF Part, g
      <4> QED BY <3>5
    <3>7. ~\E k : Part(k, n)
      <4> HIDE DEF Part
      <4> QED BY <2>2
    <3> QED BY <3>6, <3>7
  <2> QED BY <2>3, <2>4
<1>2. PICK h : Part(h, Cardinality(S))
  <2>1. Cardinality(S) \in Nat
    BY <1>0
  <2> HIDE DEF Part
  <2> QED BY <1>1, <2>1
<1>3. Up(Cardinality(S)) = SUBSET S
  BY <1>0
<1> QED BY <1>2, <1>3 DEF Adds

\* The fold's function satisfies its equation.
SumsUp(h, f, S) ==
    /\ SumFunctionOnSet(f, S) = h[S]
    /\ \A s \in SUBSET S :
         h[s] = IF s = {} THEN 0 ELSE f[Taken(s)] + h[s \ {Taken(s)}]

\* There is one such function on the subsets of a finite set: the fold is well defined.
LEMMA SumFunctionIs ==
    ASSUME NEW f, NEW S, IsFiniteSet(S)
    PROVE  \E h : SumsUp(h, f, S)
<1>1. PICK h : h = CHOOSE k : Adds(k, f, S)
  OBVIOUS
<1>2. Adds(h, f, S)
  BY <1>1, SumExists
<1>3. SumFunctionOnSet(f, S) = h[S]
  BY <1>1, SumUnfolds
<1>4. \A s \in SUBSET S :
        h[s] = IF s = {} THEN 0 ELSE f[Taken(s)] + h[s \ {Taken(s)}]
  BY <1>2 DEF Adds
<1> QED BY <1>3, <1>4 DEF SumsUp

\* What the fold computes: nothing over no members, else the taken member's value
\* and the sum over the others.
LEMMA SumTaken ==
    ASSUME NEW f, NEW S, IsFiniteSet(S)
    PROVE  SumFunctionOnSet(f, S) = IF S = {} THEN 0 ELSE f[Taken(S)] + SumFunctionOnSet(f, S \ {Taken(S)})
<1>0. PICK h : SumsUp(h, f, S)
  BY SumFunctionIs
<1>1. /\ SumFunctionOnSet(f, S) = h[S]
      /\ \A s \in SUBSET S :
           h[s] = IF s = {} THEN 0 ELSE f[Taken(s)] + h[s \ {Taken(s)}]
  BY <1>0 DEF SumsUp
<1>2. CASE S = {}
  BY <1>1, <1>2
<1>3. CASE S # {}
  <2> DEFINE R == S \ {Taken(S)}
  <2>1. IsFiniteSet(R) /\ R \in SUBSET S
    BY <1>3, TakenOut
  <2> HIDE DEF R
  <2>0. PICK k : SumsUp(k, f, R)
    BY <2>1, SumFunctionIs
  <2>2. /\ SumFunctionOnSet(f, R) = k[R]
        /\ \A s \in SUBSET R :
             k[s] = IF s = {} THEN 0 ELSE f[Taken(s)] + k[s \ {Taken(s)}]
    BY <2>0 DEF SumsUp
  <2> DEFINE B == {s \in SUBSET R : h[s] # k[s]}
  <2>3. B = {}
    <3>1. SUFFICES ASSUME B # {} PROVE FALSE
      OBVIOUS
    <3>2. \A s \in B : IsFiniteSet(s) /\ s \in SUBSET R
      BY <2>1, FS_Subset
    <3>3. PICK s \in B : \A u \in B : Cardinality(s) <= Cardinality(u)
      <4> HIDE DEF B
      <4> QED BY <3>1, <3>2, Smallest
    <3>4. h[s] # k[s] /\ s \in SUBSET R /\ s \in SUBSET S /\ IsFiniteSet(s)
      BY <2>1, <3>2, <3>3
    <3>5. s # {}
      BY <1>1, <2>2, <3>4
    <3>6. /\ Cardinality(s \ {Taken(s)}) = Cardinality(s) - 1
          /\ Cardinality(s) \in Nat
      BY <3>4, <3>5, TakenOut, FS_CardinalityType
    <3>7. s \ {Taken(s)} \notin B
      <4> HIDE DEF B
      <4> QED BY <3>3, <3>6
    <3>8. h[s \ {Taken(s)}] = k[s \ {Taken(s)}]
      BY <3>4, <3>7
    <3> QED BY <1>1, <2>2, <3>4, <3>5, <3>8
  <2>4. h[R] = k[R]
    BY <2>3
  <2>5. h[S] = f[Taken(S)] + h[R]
    BY <1>1, <1>3 DEF R
  <2> QED BY <1>1, <1>3, <2>2, <2>4, <2>5 DEF R
<1> QED BY <1>2, <1>3

\* A sum does not depend on which member is taken first.
LEMMA SumPick ==
    ASSUME NEW f, NEW S, IsFiniteSet(S), \A y \in S : f[y] \in Int
    PROVE  /\ SumFunctionOnSet(f, S) \in Int
           /\ \A x \in S : SumFunctionOnSet(f, S)
                             = f[x] + SumFunctionOnSet(f, S \ {x})
<1> DEFINE
      Good(s) == /\ SumFunctionOnSet(f, s) \in Int
                 /\ \A x \in s : SumFunctionOnSet(f, s)
                                   = f[x] + SumFunctionOnSet(f, s \ {x})
      B == {s \in SUBSET S : ~Good(s)}
<1>1. SUFFICES ASSUME B # {} PROVE FALSE
  BY FS_Subset
<1>2. \A s \in SUBSET S : IsFiniteSet(s) /\ Cardinality(s) \in Nat
  BY FS_Subset, FS_CardinalityType
<1>3. PICK s \in B : \A u \in B : Cardinality(s) <= Cardinality(u)
  <2>1. \A u \in B : IsFiniteSet(u)
    BY <1>2
  <2> HIDE DEF B
  <2> QED BY <1>1, <2>1, Smallest
<1>4. s \in SUBSET S /\ ~Good(s) /\ IsFiniteSet(s)
  BY <1>2, <1>3
<1>5. \A x \in s : Good(s \ {x})
  <2>1. ASSUME NEW x \in s PROVE s \ {x} \notin B
    <3>1. /\ Cardinality(s \ {x}) = Cardinality(s) - 1
          /\ Cardinality(s) \in Nat
      BY <1>2, <1>4, FS_RemoveElement
    <3> HIDE DEF B
    <3> QED BY <1>3, <3>1
  <2> HIDE DEF Good
  <2> QED BY <1>4, <2>1
<1>6. s # {}
  <2>1. ASSUME s = {} PROVE Good(s)
    <3>1. SumFunctionOnSet(f, s) = 0
      BY <1>4, <2>1, SumTaken
    <3> QED BY <2>1, <3>1
  <2> HIDE DEF Good
  <2> QED BY <1>4, <2>1
<1> DEFINE c == Taken(s)
<1>7. c \in s /\ SumFunctionOnSet(f, s) = f[c] + SumFunctionOnSet(f, s \ {c})
  BY <1>4, <1>6, SumTaken, TakenOut
<1> HIDE DEF c
<1>8. SumFunctionOnSet(f, s) \in Int
  <2>1. SumFunctionOnSet(f, s \ {c}) \in Int
    BY <1>5, <1>7
  <2>2. f[c] \in Int
    BY <1>4, <1>7
  <2> QED BY <1>7, <2>1, <2>2
<1>9. ASSUME NEW x \in s
      PROVE  SumFunctionOnSet(f, s) = f[x] + SumFunctionOnSet(f, s \ {x})
  <2>1. CASE x = c
    BY <1>7, <2>1
  <2>2. CASE x # c
    <3>1. (s \ {c}) \ {x} = (s \ {x}) \ {c}
      OBVIOUS
    <3>2. PICK R : R = (s \ {c}) \ {x}
      OBVIOUS
    <3>3. SumFunctionOnSet(f, s \ {c}) = f[x] + SumFunctionOnSet(f, R)
      BY <1>5, <1>7, <2>2, <3>2
    <3>4. SumFunctionOnSet(f, s \ {x}) = f[c] + SumFunctionOnSet(f, R)
      BY <1>5, <1>7, <2>2, <3>1, <3>2
    <3>5. SumFunctionOnSet(f, R) \in Int
      <4>1. x \in s \ {c} /\ s \ {c} \in SUBSET S
        BY <1>4, <2>2
      <4>2. R \notin B
        <5>1. /\ Cardinality(R) = Cardinality(s \ {c}) - 1
              /\ Cardinality(s \ {c}) = Cardinality(s) - 1
              /\ Cardinality(s) \in Nat
          BY <1>2, <1>4, <1>7, <3>2, <4>1, FS_RemoveElement
        <5> HIDE DEF B
        <5> QED BY <1>3, <5>1
      <4> QED BY <1>4, <3>2, <4>2
    <3>6. f[x] \in Int /\ f[c] \in Int
      BY <1>4, <1>7
    <3>7. SumFunctionOnSet(f, s) = f[c] + (f[x] + SumFunctionOnSet(f, R))
      BY <1>7, <3>3
    <3> QED BY <3>4, <3>5, <3>6, <3>7
  <2> QED BY <2>1, <2>2
<1> QED BY <1>4, <1>8, <1>9

\* The empty sum, and the sum of one.
LEMMA SumSmall ==
    /\ \A f : SumFunctionOnSet(f, {}) = 0
    /\ \A f, x : f[x] \in Int => SumFunctionOnSet(f, {x}) = f[x]
<1>1. ASSUME NEW f PROVE SumFunctionOnSet(f, {}) = 0
  BY SumTaken, FS_EmptySet
<1>2. ASSUME NEW f, NEW x, f[x] \in Int PROVE SumFunctionOnSet(f, {x}) = f[x]
  <2>1. IsFiniteSet({x}) /\ \A y \in {x} : f[y] \in Int
    BY <1>2, FS_Singleton
  <2>2. SumFunctionOnSet(f, {x}) = f[x] + SumFunctionOnSet(f, {x} \ {x})
    BY <2>1, SumPick
  <2>3. {x} \ {x} = {}
    OBVIOUS
  <2>4. SumFunctionOnSet(f, {x} \ {x}) = 0
    BY <1>1, <2>3
  <2> QED BY <1>2, <2>2, <2>4
<1> QED BY <1>1, <1>2

\* The sum over two sets that share no member.
LEMMA SumUnion ==
    ASSUME NEW f, NEW S, NEW T, IsFiniteSet(S), IsFiniteSet(T), S \cap T = {},
           \A y \in S \cup T : f[y] \in Int
    PROVE  /\ SumFunctionOnSet(f, S \cup T)
                = SumFunctionOnSet(f, S) + SumFunctionOnSet(f, T)
           /\ SumFunctionOnSet(f, S) \in Int /\ SumFunctionOnSet(f, T) \in Int
<1> DEFINE
      Good(u) == SumFunctionOnSet(f, S \cup u)
                   = SumFunctionOnSet(f, S) + SumFunctionOnSet(f, u)
      B == {u \in SUBSET T : ~Good(u)}
<1>0. /\ SumFunctionOnSet(f, S) \in Int /\ SumFunctionOnSet(f, T) \in Int
      /\ \A u \in SUBSET T : /\ IsFiniteSet(u) /\ Cardinality(u) \in Nat
                             /\ IsFiniteSet(S \cup u)
                             /\ \A y \in S \cup u : f[y] \in Int
  BY SumPick, FS_Subset, FS_CardinalityType, FS_Union
<1>1. SUFFICES ASSUME B # {} PROVE FALSE
  BY <1>0
<1>2. PICK u \in B : \A v \in B : Cardinality(u) <= Cardinality(v)
  <2>1. \A v \in B : IsFiniteSet(v)
    BY <1>0
  <2> HIDE DEF B
  <2> QED BY <1>1, <2>1, Smallest
<1>3. u \in SUBSET T /\ ~Good(u)
  BY <1>2
<1>4. PICK x \in u : TRUE
  <2>1. ASSUME u = {} PROVE Good(u)
    <3>1. S \cup u = S /\ SumFunctionOnSet(f, u) = 0
      BY <2>1, SumSmall
    <3> QED BY <1>0, <3>1
  <2> HIDE DEF Good
  <2> QED BY <1>3, <2>1
<1>5. Good(u \ {x})
  <2>1. u \ {x} \notin B
    <3>1. /\ Cardinality(u \ {x}) = Cardinality(u) - 1
          /\ Cardinality(u) \in Nat
      BY <1>0, <1>3, FS_RemoveElement
    <3> HIDE DEF B
    <3> QED BY <1>2, <3>1
  <2> HIDE DEF Good
  <2> QED BY <1>3, <2>1
<1>6. (S \cup u) \ {x} = S \cup (u \ {x})
  BY <1>3
<1>7. SumFunctionOnSet(f, S \cup u) = f[x] + SumFunctionOnSet(f, S \cup (u \ {x}))
  <2>1. SumFunctionOnSet(f, S \cup u) = f[x] + SumFunctionOnSet(f, (S \cup u) \ {x})
    <3>1. IsFiniteSet(S \cup u) /\ \A y \in S \cup u : f[y] \in Int
      BY <1>0, <1>3
    <3>2. PICK w : w = S \cup u
      OBVIOUS
    <3>3. x \in w
      BY <3>2
    <3> QED BY <3>1, <3>2, <3>3, SumPick
  <2> QED BY <1>6, <2>1
<1>8. /\ SumFunctionOnSet(f, u) = f[x] + SumFunctionOnSet(f, u \ {x})
      /\ SumFunctionOnSet(f, u \ {x}) \in Int /\ f[x] \in Int
  <2>1. \A y \in u : f[y] \in Int
    BY <1>0, <1>3
  <2>2. IsFiniteSet(u \ {x}) /\ \A y \in u \ {x} : f[y] \in Int
    BY <1>0, <1>3
  <2> QED BY <1>0, <1>3, <2>1, <2>2, SumPick
<1>9. Good(u)
  <2>1. SumFunctionOnSet(f, S \cup (u \ {x}))
          = SumFunctionOnSet(f, S) + SumFunctionOnSet(f, u \ {x})
    BY <1>5
  <2> QED BY <1>0, <1>7, <1>8, <2>1
<1> QED BY <1>3, <1>9

\* Equal values have equal sums.
LEMMA SumSame ==
    ASSUME NEW f, NEW g, NEW S, IsFiniteSet(S), \A y \in S : f[y] \in Int,
           \A y \in S : f[y] = g[y]
    PROVE  SumFunctionOnSet(f, S) = SumFunctionOnSet(g, S)
<1> DEFINE B == {u \in SUBSET S : SumFunctionOnSet(f, u) # SumFunctionOnSet(g, u)}
<1>0. \A u \in SUBSET S : IsFiniteSet(u) /\ Cardinality(u) \in Nat
  BY FS_Subset, FS_CardinalityType
<1>1. SUFFICES ASSUME B # {} PROVE FALSE
  OBVIOUS
<1>2. PICK u \in B : \A v \in B : Cardinality(u) <= Cardinality(v)
  <2>1. \A v \in B : IsFiniteSet(v)
    BY <1>0
  <2> HIDE DEF B
  <2> QED BY <1>1, <2>1, Smallest
<1>3. u \in SUBSET S /\ SumFunctionOnSet(f, u) # SumFunctionOnSet(g, u)
      /\ IsFiniteSet(u) /\ Cardinality(u) \in Nat
  BY <1>0, <1>2
<1>4. PICK x \in u : TRUE
  BY <1>3, SumSmall
<1>5. SumFunctionOnSet(f, u \ {x}) = SumFunctionOnSet(g, u \ {x})
  <2>1. u \ {x} \notin B
    <3>1. Cardinality(u \ {x}) = Cardinality(u) - 1
      BY <1>3, FS_RemoveElement
    <3> HIDE DEF B
    <3> QED BY <1>2, <1>3, <3>1
  <2> QED BY <1>3, <2>1
<1>6. \A y \in u : f[y] \in Int /\ g[y] \in Int /\ f[y] = g[y]
  BY <1>3
<1>7. /\ SumFunctionOnSet(f, u) = f[x] + SumFunctionOnSet(f, u \ {x})
      /\ SumFunctionOnSet(g, u) = g[x] + SumFunctionOnSet(g, u \ {x})
  BY <1>3, <1>6, SumPick
<1> QED BY <1>3, <1>5, <1>6, <1>7

\* A sum of naturals is a natural.
LEMMA SumNat ==
    ASSUME NEW f, NEW S, IsFiniteSet(S), \A y \in S : f[y] \in Nat
    PROVE  SumFunctionOnSet(f, S) \in Nat
<1> DEFINE B == {u \in SUBSET S : SumFunctionOnSet(f, u) \notin Nat}
<1>0. \A u \in SUBSET S : IsFiniteSet(u) /\ Cardinality(u) \in Nat
  BY FS_Subset, FS_CardinalityType
<1>1. SUFFICES ASSUME B # {} PROVE FALSE
  OBVIOUS
<1>2. PICK u \in B : \A v \in B : Cardinality(u) <= Cardinality(v)
  <2>1. \A v \in B : IsFiniteSet(v)
    BY <1>0
  <2> HIDE DEF B
  <2> QED BY <1>1, <2>1, Smallest
<1>3. u \in SUBSET S /\ SumFunctionOnSet(f, u) \notin Nat
      /\ IsFiniteSet(u) /\ Cardinality(u) \in Nat
  BY <1>0, <1>2
<1>4. PICK x \in u : TRUE
  BY <1>3, SumSmall
<1>5. SumFunctionOnSet(f, u \ {x}) \in Nat
  <2>1. u \ {x} \notin B
    <3>1. Cardinality(u \ {x}) = Cardinality(u) - 1
      BY <1>3, FS_RemoveElement
    <3> HIDE DEF B
    <3> QED BY <1>2, <1>3, <3>1
  <2> QED BY <1>3, <2>1
<1>6. f[x] \in Nat /\ \A y \in u : f[y] \in Int
  BY <1>3
<1>7. SumFunctionOnSet(f, u) = f[x] + SumFunctionOnSet(f, u \ {x})
  BY <1>3, <1>6, SumPick
<1> QED BY <1>3, <1>5, <1>6, <1>7

\* A sum of naturals is at least the sum over a part.
LEMMA SumMore ==
    ASSUME NEW f, NEW S, NEW T, T \subseteq S, IsFiniteSet(S), \A y \in S : f[y] \in Nat
    PROVE  /\ SumFunctionOnSet(f, T) <= SumFunctionOnSet(f, S)
           /\ SumFunctionOnSet(f, T) \in Nat /\ SumFunctionOnSet(f, S) \in Nat
<1>1. PICK R : R = S \ T
  OBVIOUS
<1>2. /\ IsFiniteSet(T) /\ IsFiniteSet(R) /\ T \cap R = {} /\ T \cup R = S
      /\ \A y \in T \cup R : f[y] \in Int
      /\ (\A y \in T : f[y] \in Nat) /\ (\A y \in R : f[y] \in Nat)
  BY <1>1, FS_Subset
<1>3. SumFunctionOnSet(f, S) = SumFunctionOnSet(f, T) + SumFunctionOnSet(f, R)
  BY <1>2, SumUnion
<1>4. SumFunctionOnSet(f, T) \in Nat /\ SumFunctionOnSet(f, R) \in Nat
  BY <1>2, SumNat
<1> QED BY <1>3, <1>4

\* One member more.
LEMMA SumPlus ==
    ASSUME NEW f, NEW S, NEW x, NEW R, x \in S, R = S \ {x}, IsFiniteSet(S),
           \A y \in S : f[y] \in Int
    PROVE  SumFunctionOnSet(f, S) = f[x] + SumFunctionOnSet(f, R)
BY SumPick

\* Two sums that differ in one member.
LEMMA SumBut ==
    ASSUME NEW f, NEW g, NEW S, NEW k \in S, NEW R, R = S \ {k}, IsFiniteSet(S),
           \A y \in S : f[y] \in Nat, \A y \in R : f[y] = g[y] /\ g[y] \in Int
    PROVE  /\ SumFunctionOnSet(f, S) = f[k] + SumFunctionOnSet(g, R)
           /\ SumFunctionOnSet(f, S) \in Nat
<1>1. \A y \in S : f[y] \in Int
  OBVIOUS
<1>2. SumFunctionOnSet(f, S) = f[k] + SumFunctionOnSet(f, R)
  BY <1>1, SumPlus
<1>3. IsFiniteSet(R)
  BY FS_Subset
<1>4. SumFunctionOnSet(f, R) = SumFunctionOnSet(g, R)
  BY <1>3, SumSame
<1> QED BY <1>2, <1>4, SumNat

\* The lesser of two.
LEMMA MinTwo ==
    ASSUME NEW a \in Nat, NEW b \in Nat
    PROVE  Min({a, b}) = IF a <= b THEN a ELSE b
<1>1. PICK m \in {a, b} : m = IF a <= b THEN a ELSE b
  OBVIOUS
<1>2. m \in {a, b} /\ \A y \in {a, b} : m <= y
  BY <1>1
<1>3. \A x \in {a, b} : (\A y \in {a, b} : x <= y) => x = m
  BY <1>1
<1>4. Min({a, b}) = m
  BY <1>2, <1>3 DEF Min
<1> QED BY <1>1, <1>4

-----------------------------------------------------------------------------
(***************************************************************************)
(* The coupon.                                                             *)
(***************************************************************************)

\* All the proofs need of a request is that it has these two fields.
Shaped(r) == {"at", "coupon"} \subseteq DOMAIN r

CouponType ==
    /\ uses \in Uses
    /\ DOMAIN tx = Requests /\ tx = [t \in Requests |-> tx[t]]
    /\ \A t \in Requests : Shaped(tx[t])

\* Room for the redemption of a request that has passed the re-check.
Room ==
    /\ uses.mine < PerUserLimit
    /\ uses.mine + uses.others < MaxUses

OneHolder == \A t, u \in Requests : HoldsCoupon(t) /\ HoldsCoupon(u) => t = u

\* Whoever holds the coupon's row still has room to redeem it: nobody else
\* commits a use of it meanwhile.
CouponInv ==
    /\ CouponType
    /\ CouponWithinLimits
    /\ OneHolder
    /\ \A t \in Requests : HoldsCoupon(t) => Room

-----------------------------------------------------------------------------
\* A request that starts afresh, or ends, and one that goes on.
LEMMA Afresh ==
    ASSUME CouponType, NEW t \in Requests, NEW r, Shaped(r),
           tx' = [tx EXCEPT ![t] = r]
    PROVE  /\ tx' = [u \in Requests |-> tx'[u]] /\ DOMAIN tx' = Requests
           /\ tx'[t] = r
           /\ \A u \in Requests : u # t => tx'[u] = tx[u]
           /\ \A u \in Requests : Shaped(tx'[u])
BY DEF CouponType, Shaped

\* An idle request is well formed and has no coupon.
LEMMA FreshShape == Shaped(Idle) /\ ~Idle.coupon
BY DEF Shaped, Idle

\* A request that goes on keeps its coupon.
LEMMA StepShape ==
    ASSUME NEW r, Shaped(r), NEW at
    PROVE  /\ Shaped([r EXCEPT !.at = at])
           /\ [r EXCEPT !.at = at].coupon = r.coupon
           /\ [r EXCEPT !.at = at].at = at
BY DEF Shaped

\* What Finish leaves of a request.
LEMMA EndedShape ==
    Shaped([Idle EXCEPT !.at = "done"]) /\ ~[Idle EXCEPT !.at = "done"].coupon
BY FreshShape, StepShape

\* A step of one request that writes no booking: it may let the coupon's row go
\* but does not take it.
LEMMA Lets ==
    ASSUME CouponInv, NEW t \in Requests, NEW r, Shaped(r),
           tx' = [tx EXCEPT ![t] = r], UNCHANGED uses,
           r.coupon /\ r.at # "priced" => HoldsCoupon(t)
    PROVE  CouponInv'
<1>1. \A u \in Requests : HoldsCoupon(u)' => HoldsCoupon(u)
  BY Afresh DEF CouponInv, HoldsCoupon
<1>2. CouponType'
  BY Afresh DEF CouponInv, CouponType, Shaped
<1>3. CouponWithinLimits' /\ OneHolder'
  BY <1>1 DEF CouponInv, CouponWithinLimits, OneHolder
<1>4. \A u \in Requests : HoldsCoupon(u)' => Room'
  BY <1>1 DEF CouponInv, Room
<1> QED BY <1>2, <1>3, <1>4 DEF CouponInv

\* A commit ends the only request that held the coupon's row, and uses the room.
LEMMA Commits ==
    ASSUME CouponInv, NEW t \in Requests, tx[t].at # "priced",
           uses' = Redeemed(t), Finish(t)
    PROVE  CouponInv'
<1>1. Shaped([Idle EXCEPT !.at = "done"]) /\ ~[Idle EXCEPT !.at = "done"].coupon
  BY EndedShape
<1>2. /\ CouponType
      /\ tx' = [tx EXCEPT ![t] = [Idle EXCEPT !.at = "done"]]
  BY DEF CouponInv, Finish
<1>3. CASE ~tx[t].coupon
  <2>1. UNCHANGED uses
    BY <1>3 DEF Redeemed
  <2> QED BY <1>1, <1>2, <2>1, Lets
<1>4. CASE tx[t].coupon
  <2>1. HoldsCoupon(t) /\ Room
    BY <1>4 DEF CouponInv, HoldsCoupon
  <2>2. \A u \in Requests : ~HoldsCoupon(u)'
    <3>1. \A u \in Requests : u # t => ~HoldsCoupon(u)
      BY <2>1 DEF CouponInv, OneHolder
    <3> QED BY <1>1, <1>2, <3>1, Afresh DEF HoldsCoupon
  <2>3. uses \in Uses /\ uses' = [uses EXCEPT !.mine = @ + 1]
    BY <1>4 DEF CouponInv, CouponType, Redeemed
  <2>4. CouponType'
    <3>1. uses' \in Uses
      BY <2>3 DEF Uses
    <3> QED BY <1>1, <1>2, <3>1, Afresh DEF CouponType
  <2>5. CouponWithinLimits'
    BY <2>1, <2>3, WalletAssumption DEF Uses, Room, CouponWithinLimits
  <2> QED BY <2>2, <2>4, <2>5 DEF CouponInv, OneHolder
<1> QED BY <1>3, <1>4

\* The re-check takes the row where it finds room, and ends the request elsewhere.
LEMMA Rechecks ==
    ASSUME CouponInv, NEW t \in Requests, RecheckCoupon(t)
    PROVE  CouponInv'
<1>1. CASE Redeemable
  <2> DEFINE r == [tx[t] EXCEPT !.at = "redeemed"]
  <2>1. tx' = [tx EXCEPT ![t] = r] /\ UNCHANGED uses /\ CouponFree
    BY <1>1 DEF RecheckCoupon, Step
  <2>2. Shaped(r)
    BY DEF CouponInv, CouponType, Shaped
  <2>3. \A u \in Requests : HoldsCoupon(u)' => u = t
    BY <2>1, <2>2, Afresh DEF CouponInv, CouponFree, HoldsCoupon
  <2>4. Room'
    BY <1>1, <2>1, WalletAssumption
       DEF Redeemable, MineCounted, Room, CouponInv, CouponType, Uses
  <2>5. CouponType'
    BY <2>1, <2>2, Afresh DEF CouponInv, CouponType
  <2>6. CouponWithinLimits'
    BY <2>1 DEF CouponInv, CouponWithinLimits
  <2> QED BY <2>3, <2>4, <2>5, <2>6 DEF CouponInv, OneHolder
<1>2. CASE ~Redeemable
  <2>1. Finish(t) /\ UNCHANGED uses
    BY <1>2 DEF RecheckCoupon
  <2>2. Shaped([Idle EXCEPT !.at = "done"]) /\ ~[Idle EXCEPT !.at = "done"].coupon
    BY EndedShape
  <2> QED BY <2>1, <2>2, Lets DEF Finish
<1> QED BY <1>1, <1>2

\* What happens beside the requests: redemptions of others wait for the row, and
\* a cancelled booking only makes room.
LEMMA Beside ==
    ASSUME CouponInv, UNCHANGED tx,
           \/ \E a \in 0..MaxIssued : CancelRedeemed(a)
           \/ MarkNotArrived \/ OthersRedeem \/ OthersCancel
    PROVE  CouponInv'
<1>1. uses \in Uses /\ CouponWithinLimits
  BY DEF CouponInv, CouponType
<1>2. \A t \in Requests : HoldsCoupon(t)' <=> HoldsCoupon(t)
  BY DEF HoldsCoupon
<1>3. CASE OthersRedeem
  <2>1. \A t \in Requests : ~HoldsCoupon(t)'
    BY <1>2, <1>3 DEF OthersRedeem, CouponFree
  <2>2. uses' \in Uses /\ CouponWithinLimits'
    BY <1>1, <1>3, WalletAssumption
       DEF OthersRedeem, MineCounted, Uses, CouponWithinLimits
  <2> QED BY <2>1, <2>2 DEF CouponInv, CouponType, OneHolder
<1>4. CASE ~OthersRedeem
  <2>1. /\ uses' \in Uses
        /\ uses'.mine <= uses.mine /\ uses'.others <= uses.others
    <3>1. \/ uses.mine > 0 /\ uses' = [uses EXCEPT !.mine = @ - 1, !.gone = TRUE]
          \/ uses.back > 0 /\ uses' = [uses EXCEPT !.back = @ - 1, !.gone = TRUE]
          \/ uses' = [uses EXCEPT !.gone = FALSE, !.back = @ + 1]
          \/ uses.others > 0 /\ uses' = [uses EXCEPT !.others = @ - 1]
      BY <1>4 DEF CancelRedeemed, MarkNotArrived, OthersCancel
    <3>2. CASE uses.mine > 0 /\ uses' = [uses EXCEPT !.mine = @ - 1, !.gone = TRUE]
      <4>1. uses' = [mine |-> uses.mine - 1, others |-> uses.others,
                     gone |-> TRUE, back |-> uses.back]
        BY <1>1, <3>2 DEF Uses
      <4>2. /\ uses.mine \in Nat /\ uses.others \in Nat /\ uses.back \in Nat
        BY <1>1 DEF Uses
      <4>3. uses.mine - 1 \in Nat
        BY <3>2, <4>2
      <4>4. uses' \in Uses
        BY <4>1, <4>2, <4>3 DEF Uses
      <4>5. uses'.mine <= uses.mine /\ uses'.others <= uses.others
        BY <4>1, <4>2
      <4> QED BY <4>4, <4>5
    <3>3. CASE uses.back > 0 /\ uses' = [uses EXCEPT !.back = @ - 1, !.gone = TRUE]
      <4>1. uses' = [mine |-> uses.mine, others |-> uses.others,
                     gone |-> TRUE, back |-> uses.back - 1]
        BY <1>1, <3>3 DEF Uses
      <4>2. /\ uses.mine \in Nat /\ uses.others \in Nat /\ uses.back \in Nat
        BY <1>1 DEF Uses
      <4>3. uses.back - 1 \in Nat
        BY <3>3, <4>2
      <4>4. uses' \in Uses
        BY <4>1, <4>2, <4>3 DEF Uses
      <4>5. uses'.mine <= uses.mine /\ uses'.others <= uses.others
        BY <4>1, <4>2
      <4> QED BY <4>4, <4>5
    <3>4. CASE uses' = [uses EXCEPT !.gone = FALSE, !.back = @ + 1]
      <4>1. uses' = [mine |-> uses.mine, others |-> uses.others,
                     gone |-> FALSE, back |-> uses.back + 1]
        BY <1>1, <3>4 DEF Uses
      <4>2. /\ uses.mine \in Nat /\ uses.others \in Nat /\ uses.back \in Nat
        BY <1>1 DEF Uses
      <4>3. uses.back + 1 \in Nat
        BY <3>4, <4>2
      <4>4. uses' \in Uses
        BY <4>1, <4>2, <4>3 DEF Uses
      <4>5. uses'.mine <= uses.mine /\ uses'.others <= uses.others
        BY <4>1, <4>2
      <4> QED BY <4>4, <4>5
    <3>5. CASE uses.others > 0 /\ uses' = [uses EXCEPT !.others = @ - 1]
      BY <1>1, <3>5 DEF Uses
    <3> QED BY <3>1, <3>2, <3>3, <3>4, <3>5
  <2>2. CouponWithinLimits' /\ (Room => Room')
    BY <1>1, <2>1, WalletAssumption DEF Uses, Room, CouponWithinLimits
  <2> QED BY <1>2, <2>1, <2>2 DEF CouponInv, CouponType, OneHolder
<1> QED BY <1>3, <1>4

\* Nobody holds the coupon at first and no use is counted.
LEMMA CouponInit == Init => CouponInv
<1> SUFFICES ASSUME Init PROVE CouponInv
  OBVIOUS
<1>1. /\ uses = [mine |-> 0, others |-> 0, gone |-> FALSE, back |-> 0]
      /\ tx = [t \in Requests |-> Idle]
  BY DEF Init
<1>2. Shaped(Idle) /\ ~Idle.coupon
  BY FreshShape
<1>3. CouponType
  BY <1>1, <1>2 DEF CouponType, Uses
<1>4. CouponWithinLimits
  BY <1>1, WalletAssumption DEF CouponWithinLimits
<1>5. \A t \in Requests : ~HoldsCoupon(t)
  BY <1>1, <1>2 DEF HoldsCoupon
<1> QED BY <1>3, <1>4, <1>5 DEF CouponInv, OneHolder

\* Every step of a request, a rival, a cancel or a replay keeps the room for the holder of the coupon.
LEMMA CouponNext == CouponInv /\ [Next]_vars => CouponInv'
<1> SUFFICES ASSUME CouponInv, [Next]_vars PROVE CouponInv'
  OBVIOUS
<1>0. \A t \in Requests : Shaped(tx[t])
  BY DEF CouponInv, CouponType
<1>1. ASSUME NEW t \in Requests,
             PriceSelection(t) \/ CashoutCheck(t)
      PROVE  CouponInv'
  <2>1. PICK r : /\ tx' = [tx EXCEPT ![t] = r] /\ UNCHANGED uses
                 /\ \/ r = [Idle EXCEPT !.op = "checkout", !.coupon = TRUE,
                                       !.at = "priced"]
                    \/ r = [Idle EXCEPT !.op = "cashout", !.at = "checked"]
    BY <1>1 DEF PriceSelection, CashoutCheck
  <2>2. Shaped(r) /\ ~(r.coupon /\ r.at # "priced")
    BY <2>1 DEF Shaped, Idle
  <2> QED BY <2>1, <2>2, Lets
<1>2. ASSUME NEW t \in Requests, NEW cap, CheckoutStart(t, cap)
      PROVE  CouponInv'
  <2> DEFINE r == [Idle EXCEPT !.op = "checkout", !.cap = cap,
                               !.coupon = tx[t].coupon,
                               !.at = "waiting", !.rows = Open]
  <2>1. /\ tx' = [tx EXCEPT ![t] = r] /\ UNCHANGED uses
        /\ tx[t].at # "priced"
    BY <1>2 DEF CheckoutStart, MayPay
  <2>2. Shaped(r) /\ r.coupon = tx[t].coupon
    BY FreshShape DEF Shaped
  <2> HIDE DEF r
  <2> QED BY <2>1, <2>2, Lets DEF HoldsCoupon
<1>3. ASSUME NEW t \in Requests, NEW r, Shaped(r), r.coupon = tx[t].coupon,
             tx' = [tx EXCEPT ![t] = r], UNCHANGED uses, tx[t].at # "priced"
      PROVE  CouponInv'
  BY <1>3, Lets DEF HoldsCoupon
<1>4. ASSUME NEW t \in Requests, CashoutStart(t)
      PROVE  CouponInv'
  <2> DEFINE r == [tx[t] EXCEPT !.at = "waiting", !.rows = Open]
  <2>1. tx' = [tx EXCEPT ![t] = r] /\ UNCHANGED uses /\ tx[t].at # "priced"
    BY <1>4 DEF CashoutStart
  <2>2. Shaped(r) /\ r.coupon = tx[t].coupon
    BY <1>0 DEF Shaped
  <2> HIDE DEF r
  <2> QED BY <1>3, <2>1, <2>2
<1>5. ASSUME NEW t \in Requests, Lock(t)
      PROVE  CouponInv'
  <2> DEFINE r == [tx[t] EXCEPT !.at = "locked", !.locks = tx[t].rows \cap Open]
  <2>1. tx' = [tx EXCEPT ![t] = r] /\ UNCHANGED uses /\ tx[t].at # "priced"
    BY <1>5 DEF Lock
  <2>2. Shaped(r) /\ r.coupon = tx[t].coupon
    BY <1>0 DEF Shaped
  <2> HIDE DEF r
  <2> QED BY <1>3, <2>1, <2>2
<1>6. ASSUME NEW t \in Requests, ReadCredits(t)
      PROVE  CouponInv'
  <2> DEFINE r == [tx[t] EXCEPT !.at = "read",
                                !.seen = [i \in Open |-> credits[i].amount]]
  <2>1. tx' = [tx EXCEPT ![t] = r] /\ UNCHANGED uses /\ tx[t].at # "priced"
    BY <1>6 DEF ReadCredits
  <2>2. Shaped(r) /\ r.coupon = tx[t].coupon
    BY <1>0 DEF Shaped
  <2> HIDE DEF r
  <2> QED BY <1>3, <2>1, <2>2
<1>7. ASSUME NEW t \in Requests, CashoutMove(t)
      PROVE  CouponInv'
  <2> DEFINE r == [tx[t] EXCEPT !.at = "moving", !.rows = Open]
  <2>1. tx' = [tx EXCEPT ![t] = r] /\ UNCHANGED uses /\ tx[t].at # "priced"
    BY <1>7 DEF CashoutMove
  <2>2. Shaped(r) /\ r.coupon = tx[t].coupon
    BY <1>0 DEF Shaped
  <2> HIDE DEF r
  <2> QED BY <1>3, <2>1, <2>2
<1>8. ASSUME NEW t \in Requests,
             Abort(t) \/ \E q \in Cashouts : CashoutCommit(t, q)
      PROVE  CouponInv'
  <2>1. Finish(t) /\ UNCHANGED uses
    BY <1>8 DEF Abort, CashoutCommit
  <2> QED BY <2>1, EndedShape, Lets DEF Finish
<1>9. ASSUME NEW t \in Requests, RecheckCoupon(t)
      PROVE  CouponInv'
  BY <1>9, Rechecks
<1>10. ASSUME NEW t \in Requests, PlainCommit(t) \/ CheckoutCommit(t)
      PROVE  CouponInv'
  <2>1. tx[t].at # "priced" /\ uses' = Redeemed(t) /\ Finish(t)
    BY <1>10 DEF PlainCommit, CheckoutCommit
  <2> QED BY <2>1, Commits
<1>11. CASE NextVisit
  <2>1. tx' = [t \in Requests |-> Idle] /\ UNCHANGED uses
    BY <1>11 DEF NextVisit
  <2>2. CouponType' /\ \A t \in Requests : ~HoldsCoupon(t)'
    BY <2>1, FreshShape DEF CouponInv, CouponType, HoldsCoupon
  <2>3. CouponWithinLimits'
    BY <2>1 DEF CouponInv, CouponWithinLimits
  <2> QED BY <2>2, <2>3 DEF CouponInv, OneHolder
<1>12. CASE \/ \E a \in 0..MaxIssued : CancelRedeemed(a)
           \/ MarkNotArrived \/ OthersRedeem \/ OthersCancel
  <2>1. UNCHANGED tx
    BY <1>12 DEF CancelRedeemed, MarkNotArrived, OthersRedeem, OthersCancel
  <2> QED BY <1>12, <2>1, Beside
<1>13. ASSUME UNCHANGED <<uses, tx>>
      PROVE  CouponInv'
  BY <1>13 DEF CouponInv, CouponType, CouponWithinLimits, OneHolder, HoldsCoupon, Room
<1>14. CASE \/ \E a \in 1..MaxIssued : Issue(a)
            \/ \E q \in Cashouts : Approve(q) \/ Reject(q)
            \/ UNCHANGED vars
  BY <1>13, <1>14 DEF Issue, Approve, Reject, vars
<1> QED BY <1>1, <1>2, <1>4, <1>5, <1>6, <1>7, <1>8, <1>9, <1>10, <1>11, <1>12, <1>14
       DEF Next

\* However many checkouts priced a coupon while it could still be used, no more
\* of them redeem it than its owner allows, in all and by one customer.
THEOREM CouponsKeepTheirLimits == Spec => []CouponWithinLimits
<1>1. CouponInv => CouponWithinLimits
  BY DEF CouponInv
<1> QED BY <1>1, CouponInit, CouponNext, PTL DEF Spec

-----------------------------------------------------------------------------
(***************************************************************************)
(* The types, for any number of requests and whatever is opened meanwhile. *)
(***************************************************************************)

\* The types of the requests in full.
Seens == UNION {[D -> Nat \ {0}] : D \in SUBSET Nat}
ReqType == [op : {"none", "checkout", "cashout"}, at : Steps, cap : Nat,
            coupon : BOOLEAN, rows : SUBSET Nat, locks : SUBSET Nat, seen : Seens]

TypeInv == TypeOK /\ tx \in [Requests -> ReqType]

\* What a request may have seen: positive amounts of some credits.
LEMMA SeensAre ==
    ASSUME NEW s
    PROVE  s \in Seens <=> /\ s = [i \in DOMAIN s |-> s[i]]
                           /\ DOMAIN s \in SUBSET Nat
                           /\ \A i \in DOMAIN s : s[i] \in Nat \ {0}
<1>1. ASSUME s \in Seens PROVE /\ s = [i \in DOMAIN s |-> s[i]]
                               /\ DOMAIN s \in SUBSET Nat
                               /\ \A i \in DOMAIN s : s[i] \in Nat \ {0}
  BY <1>1 DEF Seens
<1>2. ASSUME s = [i \in DOMAIN s |-> s[i]], DOMAIN s \in SUBSET Nat,
             \A i \in DOMAIN s : s[i] \in Nat \ {0}
      PROVE  s \in Seens
  <2>1. PICK D : D = DOMAIN s
    OBVIOUS
  <2>2. s \in [D -> Nat \ {0}] /\ D \in SUBSET Nat
    BY <1>2, <2>1
  <2> QED BY <2>2 DEF Seens
<1> QED BY <1>1, <1>2

\* A request that goes on.
LEMMA StepType ==
    ASSUME NEW r \in ReqType, NEW at \in Steps
    PROVE  /\ [r EXCEPT !.at = at] \in ReqType
           /\ [r EXCEPT !.at = at].at = at
           /\ [r EXCEPT !.at = at].op = r.op
           /\ [r EXCEPT !.at = at].cap = r.cap
           /\ [r EXCEPT !.at = at].rows = r.rows
           /\ [r EXCEPT !.at = at].locks = r.locks
           /\ [r EXCEPT !.at = at].seen = r.seen
BY DEF ReqType

\* A request at the start and at the end.
LEMMA IdleType ==
    /\ Idle \in ReqType /\ [Idle EXCEPT !.at = "done"] \in ReqType
    /\ Idle.rows = {} /\ Idle.locks = {} /\ DOMAIN Idle.seen = {} /\ Idle.at = "idle"
    /\ Idle.op = "none"
    /\ [Idle EXCEPT !.at = "done"].rows = {} /\ [Idle EXCEPT !.at = "done"].locks = {}
    /\ DOMAIN [Idle EXCEPT !.at = "done"].seen = {}
    /\ [Idle EXCEPT !.at = "done"].at = "done"
<1>1. <<>> \in Seens
  <2>1. DOMAIN <<>> = {} /\ <<>> = [i \in {} |-> <<>>[i]]
    OBVIOUS
  <2> QED BY <2>1, SeensAre
<1>2. Idle \in ReqType
  BY <1>1 DEF Idle, ReqType, Steps
<1>3. /\ Idle.rows = {} /\ Idle.locks = {} /\ Idle.seen = <<>> /\ Idle.at = "idle"
      /\ Idle.op = "none"
  BY DEF Idle
<1>4. DOMAIN <<>> = {} /\ "done" \in Steps
  BY DEF Steps
<1> QED BY <1>2, <1>3, <1>4, StepType

\* What a request may point at.
InRange(r) == r.rows \subseteq Ids /\ r.locks \subseteq Ids /\ DOMAIN r.seen \subseteq Ids

\* A step of one request, and what it leaves of the others.
LEMMA OneRequest ==
    ASSUME TypeInv, NEW t \in Requests, NEW r \in ReqType, tx' = [tx EXCEPT ![t] = r]
    PROVE  /\ tx' \in [Requests -> ReqType] /\ tx'[t] = r
           /\ \A u \in Requests : u # t => tx'[u] = tx[u]
BY DEF TypeInv

\* The fields of a request in TypeInv.
LEMMA RequestFields ==
    ASSUME TypeInv, NEW t \in Requests
    PROVE  tx[t] \in ReqType /\ InRange(tx[t])
BY DEF TypeInv, TypeOK, InRange

\* The credits one by one.
LEMMA CreditsOf ==
    ASSUME NEW c \in Seq(Credit)
    PROVE  /\ Len(c) \in Nat /\ 1..Len(c) \in SUBSET Nat /\ IsFiniteSet(1..Len(c))
           /\ \A i \in 1..Len(c) : /\ c[i] \in Credit /\ c[i].amount \in Nat \ {0}
                                  /\ c[i].amount \in Nat /\ c[i].amount \in Int
<1>1. Len(c) \in Nat /\ \A i \in 1..Len(c) : c[i] \in Credit
  OBVIOUS
<1>2. \A e \in Credit : e.amount \in Nat \ {0} /\ e.amount \in Nat /\ e.amount \in Int
  BY DEF Credit
<1>3. IsFiniteSet(1..Len(c)) /\ 1..Len(c) \in SUBSET Nat
  BY <1>1, FS_Interval
<1> QED BY <1>1, <1>2, <1>3

\* The credits are finitely many, each of a positive amount.
LEMMA EachCredit ==
    ASSUME credits \in Seq(Credit)
    PROVE  /\ Len(credits) \in Nat /\ Ids \in SUBSET Nat /\ IsFiniteSet(Ids)
           /\ \A i \in Ids : /\ credits[i] \in Credit
                             /\ credits[i].amount \in Nat \ {0}
                             /\ credits[i].amount \in Nat /\ credits[i].amount \in Int
BY CreditsOf DEF Ids

\* Types kept by what writes credits of the right kind and no fewer of them.
LEMMA TypeKept ==
    ASSUME TypeInv, tx' \in [Requests -> ReqType], uses' \in Uses,
           \A t \in Requests : InRange(tx[t])',
           credits' \in Seq(Credit),
           cashout' \in [Cashouts -> {"none", "pending", "approved", "rejected"}],
           asked' \in [Cashouts -> Nat], {issued', applied', paidOut'} \subseteq Nat
    PROVE  TypeInv'
<1>1. \A t \in Requests :
         /\ tx'[t].op \in {"none", "checkout", "cashout"} /\ tx'[t].at \in Steps
         /\ tx'[t].cap \in Nat /\ tx'[t].coupon \in BOOLEAN
  BY DEF ReqType
<1>2. \A t \in Requests : /\ tx'[t].rows \subseteq Ids' /\ tx'[t].locks \subseteq Ids'
                          /\ DOMAIN tx'[t].seen \subseteq Ids'
  BY DEF InRange
<1> QED BY <1>1, <1>2 DEF TypeInv, TypeOK

\* What the updates write into a credit row.
LEMMA CreditWritten ==
    ASSUME NEW c \in Credit, NEW s \in {"open", "used", "pending_cashout"},
           NEW q \in Cashouts \cup {None}
    PROVE  /\ [c EXCEPT !.status = s] \in Credit
           /\ [c EXCEPT !.status = s].amount = c.amount
           /\ [c EXCEPT !.status = s].status = s
           /\ [c EXCEPT !.status = s].stamp = c.stamp
           /\ [c EXCEPT !.status = s, !.stamp = q] \in Credit
           /\ [c EXCEPT !.status = s, !.stamp = q].amount = c.amount
           /\ [c EXCEPT !.status = s, !.stamp = q].status = s
           /\ [c EXCEPT !.status = s, !.stamp = q].stamp = q
           /\ c.status \in {"open", "used", "pending_cashout"}
           /\ c.stamp \in Cashouts \cup {None}
BY DEF Credit

\* The same of a row that was written.
LEMMA Marked ==
    ASSUME NEW c \in Credit, NEW s \in {"open", "used", "pending_cashout"}, NEW d,
           d = [c EXCEPT !.status = s]
    PROVE  /\ d \in Credit /\ d.amount = c.amount /\ d.status = s
           /\ d.stamp = c.stamp
BY DEF Credit

\* A credit whose status and stamp change is a credit of the same amount.
LEMMA Stamped ==
    ASSUME NEW c \in Credit, NEW s \in {"open", "used", "pending_cashout"}, NEW d,
           NEW q \in Cashouts \cup {None}, d = [c EXCEPT !.status = s, !.stamp = q]
    PROVE  /\ d \in Credit /\ d.amount = c.amount /\ d.status = s
           /\ d.stamp = q
BY DEF Credit

\* An update of rows in place keeps them a sequence of as many credits.
LEMMA Rewritten ==
    ASSUME credits \in Seq(Credit), credits' = [i \in Ids |-> credits'[i]],
           \A i \in Ids : credits'[i] \in Credit
    PROVE  credits' \in Seq(Credit) /\ Len(credits') = Len(credits) /\ Ids' = Ids
<1>1. Len(credits) \in Nat
  BY EachCredit
<1>2. PICK n \in Nat : n = Len(credits)
  BY <1>1
<1>3. credits' \in [1..n -> Credit]
  BY <1>2 DEF Ids
<1>4. credits' \in Seq(Credit) /\ Len(credits') = n
  BY <1>3
<1> QED BY <1>2, <1>4 DEF Ids

\* What older credits are worth grows with each one.
LEMMA OlderAre ==
    ASSUME NEW s, IsFiniteSet(DOMAIN s), DOMAIN s \in SUBSET Nat,
           \A i \in DOMAIN s : s[i] \in Nat, NEW i \in DOMAIN s
    PROVE  /\ Older(s, i) \in Nat
           /\ \A j \in DOMAIN s : i < j => Older(s, i) + s[i] <= Older(s, j)
<1>1. PICK D \in SUBSET Nat : D = DOMAIN s /\ IsFiniteSet(D)
  OBVIOUS
<1>2. PICK B \in SUBSET D : B = {j \in D : j < i}
  OBVIOUS
<1>3. Older(s, i) = SumFunctionOnSet(s, B)
  BY <1>1, <1>2 DEF Older
<1>4. IsFiniteSet(B) /\ i \notin B /\ \A j \in B : s[j] \in Nat
  BY <1>1, <1>2, FS_Subset
<1>5. Older(s, i) \in Nat
  BY <1>3, <1>4, SumNat
<1>6. ASSUME NEW j \in D, i < j PROVE Older(s, i) + s[i] <= Older(s, j)
  <2>1. PICK A \in SUBSET D : A = {k \in D : k < j}
    OBVIOUS
  <2>2. Older(s, j) = SumFunctionOnSet(s, A)
    BY <1>1, <2>1 DEF Older
  <2>3. IsFiniteSet(A) /\ \A k \in A : s[k] \in Nat
    BY <1>1, <2>1, FS_Subset
  <2>4. PICK C \in SUBSET A : C = B \cup {i}
    <3>1. \A k \in B : k < j
      BY <1>1, <1>2, <1>6
    <3> QED BY <1>1, <1>2, <1>6, <2>1, <3>1
  <2>5. SumFunctionOnSet(s, C) = SumFunctionOnSet(s, B) + s[i]
    <3>0. s[i] \in Nat
      OBVIOUS
    <3>1. IsFiniteSet({i}) /\ B \cap {i} = {} /\ s[i] \in Int
      <4>1. IsFiniteSet({i})
        BY FS_Singleton
      <4>2. B \cap {i} = {}
        BY <1>4
      <4>3. s[i] \in Int
        BY <3>0
      <4> QED BY <4>1, <4>2, <4>3
    <3>2. \A y \in B \cup {i} : s[y] \in Int
      BY <1>4
    <3>3. SumFunctionOnSet(s, B \cup {i})
             = SumFunctionOnSet(s, B) + SumFunctionOnSet(s, {i})
      BY <1>4, <3>1, <3>2, SumUnion
    <3> QED BY <2>4, <3>1, <3>3, SumSmall
  <2>6. SumFunctionOnSet(s, C) <= SumFunctionOnSet(s, A)
    BY <2>3, SumMore
  <2> QED BY <1>3, <1>5, <2>2, <2>5, <2>6
<1> QED BY <1>1, <1>5, <1>6

\* A checkout takes nothing after the credit it splits.
LEMMA TakeIs ==
    ASSUME NEW t, NEW s, tx[t].seen = s, tx[t].cap \in Nat,
           IsFiniteSet(DOMAIN s), DOMAIN s \in SUBSET Nat,
           \A j \in DOMAIN s : s[j] \in Nat, NEW i \in DOMAIN s
    PROVE  /\ Take(t, i) \in Nat /\ Take(t, i) <= s[i]
           /\ Take(t, i) < s[i] => \A j \in DOMAIN s : i < j => Take(t, j) = 0
<1>1. PICK cap \in Nat : cap = tx[t].cap
  OBVIOUS
<1>2. \A j \in DOMAIN s :
        Take(t, j) = IF cap - Older(s, j) <= 0 THEN 0
                     ELSE Min({cap - Older(s, j), s[j]})
  BY <1>1 DEF Take
<1>3. \A j \in DOMAIN s : /\ Older(s, j) \in Nat
                          /\ \A k \in DOMAIN s : j < k => Older(s, j) + s[j] <= Older(s, k)
  BY OlderAre
<1>4. ASSUME NEW j \in DOMAIN s
      PROVE  Take(t, j) = IF cap <= Older(s, j) THEN 0
                          ELSE IF cap - Older(s, j) <= s[j] THEN cap - Older(s, j)
                          ELSE s[j]
  <2>1. PICK o \in Nat : o = Older(s, j)
    BY <1>3
  <2>2. CASE cap <= o
    <3>1. cap - o <= 0
      BY <2>2
    <3>2. Take(t, j) = 0
      BY <1>2, <2>1, <3>1
    <3> QED BY <2>1, <2>2, <3>2
  <2>3. CASE ~(cap <= o)
    <3>1. cap - o \in Nat /\ s[j] \in Nat /\ ~(cap - o <= 0)
      BY <2>3
    <3>2. Min({cap - o, s[j]}) = IF cap - o <= s[j] THEN cap - o ELSE s[j]
      BY <3>1, MinTwo
    <3>3. Take(t, j) = Min({cap - o, s[j]})
      BY <1>2, <2>1, <3>1
    <3> QED BY <2>1, <2>3, <3>2, <3>3
  <2> QED BY <2>2, <2>3
<1>5. Take(t, i) \in Nat /\ Take(t, i) <= s[i]
  <2>1. Older(s, i) \in Nat /\ s[i] \in Nat
    BY <1>3
  <2> QED BY <1>4, <2>1
<1>6. ASSUME Take(t, i) < s[i], NEW j \in DOMAIN s, i < j PROVE Take(t, j) = 0
  <2>1. /\ Older(s, i) \in Nat /\ s[i] \in Nat /\ Older(s, j) \in Nat
        /\ Older(s, i) + s[i] <= Older(s, j)
    BY <1>3, <1>6
  <2>2. cap <= Older(s, i) + s[i]
    BY <1>4, <1>6, <2>1
  <2>3. cap <= Older(s, j)
    BY <2>1, <2>2
  <2> QED BY <1>4, <2>3
<1> QED BY <1>5, <1>6

\* What a cash-out asks for is all it has read.
LEMMA OlderAll ==
    ASSUME NEW s \in Seens, NEW n \in Nat, DOMAIN s \subseteq 1..n
    PROVE  /\ Older(s, n + 1) = SumFunctionOnSet(s, DOMAIN s)
           /\ Older(s, n + 1) \in Nat /\ IsFiniteSet(DOMAIN s)
<1>1. PICK D : D = DOMAIN s
  OBVIOUS
<1>2. /\ D \in SUBSET Nat /\ \A i \in D : s[i] \in Nat
  BY <1>1, SeensAre
<1>3. {j \in D : j < n + 1} = D
  BY <1>1
<1>4. IsFiniteSet(D)
  <2>1. IsFiniteSet(1..n)
    BY FS_Interval
  <2> QED BY <1>1, <2>1, FS_Subset
<1>5. Older(s, n + 1) = SumFunctionOnSet(s, D)
  BY <1>1, <1>3 DEF Older
<1>6. SumFunctionOnSet(s, D) \in Nat
  BY <1>2, <1>4, SumNat
<1> QED BY <1>1, <1>4, <1>5, <1>6

\* A step of a request that writes no row.
LEMMA TypeStep ==
    ASSUME TypeInv, uses' \in Uses, UNCHANGED <<rows, sums>>, NEW t \in Requests,
           NEW r \in ReqType, InRange(r), tx' = [tx EXCEPT ![t] = r]
    PROVE  TypeInv'
<1>1. /\ tx' \in [Requests -> ReqType] /\ tx'[t] = r
      /\ \A u \in Requests : u # t => tx'[u] = tx[u]
  BY OneRequest
<1>2. UNCHANGED <<credits, cashout, asked, issued, applied, paidOut>>
  BY DEF rows, sums
<1>3. \A u \in Requests : InRange(tx[u])'
  <2>1. Ids' = Ids
    BY <1>2 DEF Ids
  <2> QED BY <1>1, <2>1, RequestFields DEF InRange
<1>4. /\ credits' \in Seq(Credit)
      /\ cashout' \in [Cashouts -> {"none", "pending", "approved", "rejected"}]
      /\ asked' \in [Cashouts -> Nat] /\ {issued', applied', paidOut'} \subseteq Nat
  BY <1>2 DEF TypeInv, TypeOK
<1> QED BY <1>1, <1>3, <1>4, TypeKept

\* Finish ends a request.
LEMMA TypeEnd ==
    ASSUME TypeInv, uses' \in Uses, UNCHANGED <<rows, sums>>, NEW t \in Requests,
           Finish(t)
    PROVE  TypeInv'
<1>1. PICK r : r = [Idle EXCEPT !.at = "done"]
  OBVIOUS
<1>2. r \in ReqType /\ InRange(r) /\ tx' = [tx EXCEPT ![t] = r]
  BY <1>1, IdleType DEF InRange, Finish
<1> QED BY <1>2, TypeStep

\* The statements that write no row.
LEMMA TypeReads ==
    ASSUME TypeInv, uses' \in Uses, NEW t \in Requests,
           \/ PriceSelection(t) \/ RecheckCoupon(t) \/ PlainCommit(t)
           \/ \E cap \in 1..MaxIssued : CheckoutStart(t, cap)
           \/ CashoutCheck(t) \/ CashoutStart(t) \/ Abort(t)
           \/ Lock(t) \/ ReadCredits(t) \/ CashoutMove(t)
    PROVE  TypeInv'
<1>0. /\ tx[t] \in ReqType /\ InRange(tx[t])
      /\ Open \subseteq Ids /\ Open \in SUBSET Nat
      /\ \A i \in Open : credits[i].amount \in Nat \ {0}
  <2>1. credits \in Seq(Credit)
    BY DEF TypeInv, TypeOK
  <2> QED BY <2>1, RequestFields, EachCredit DEF Open, WithStatus
<1>1. CASE PriceSelection(t) \/ CashoutCheck(t)
  <2>1. PICK r : /\ tx' = [tx EXCEPT ![t] = r] /\ UNCHANGED <<rows, sums>>
                 /\ \/ r = [Idle EXCEPT !.op = "checkout", !.coupon = TRUE,
                                       !.at = "priced"]
                    \/ r = [Idle EXCEPT !.op = "cashout", !.at = "checked"]
    BY <1>1 DEF PriceSelection, CashoutCheck
  <2>2. r \in ReqType /\ InRange(r)
    BY <2>1, IdleType DEF ReqType, InRange, Steps
  <2> QED BY <2>1, <2>2, TypeStep
<1>2. CASE RecheckCoupon(t)
  <2>1. CASE Redeemable
    <3>1. PICK r : r = [tx[t] EXCEPT !.at = "redeemed"]
      OBVIOUS
    <3>2. r \in ReqType /\ InRange(r)
      BY <1>0, <3>1, StepType DEF Steps, InRange
    <3>3. tx' = [tx EXCEPT ![t] = r] /\ UNCHANGED <<rows, sums>>
      BY <1>2, <2>1, <3>1 DEF RecheckCoupon, Step
    <3> QED BY <3>2, <3>3, TypeStep
  <2>2. CASE ~Redeemable
    BY <1>2, <2>2, TypeEnd DEF RecheckCoupon
  <2> QED BY <2>1, <2>2
<1>3. CASE PlainCommit(t) \/ Abort(t)
  BY <1>3, TypeEnd DEF PlainCommit, Abort
<1>4. ASSUME NEW cap \in 1..MaxIssued, CheckoutStart(t, cap)
      PROVE  TypeInv'
  <2> DEFINE r == [Idle EXCEPT !.op = "checkout", !.cap = cap,
                               !.coupon = tx[t].coupon,
                               !.at = "waiting", !.rows = Open]
  <2>1. cap \in Nat /\ tx[t].coupon \in BOOLEAN
    BY <1>0, <1>4, WalletAssumption DEF ReqType
  <2>2. /\ r \in ReqType /\ r.rows = Open
        /\ r.locks = Idle.locks /\ r.seen = Idle.seen
    BY <1>0, <2>1, IdleType DEF ReqType, Steps
  <2>3. tx' = [tx EXCEPT ![t] = r] /\ UNCHANGED <<rows, sums>>
    BY <1>4 DEF CheckoutStart
  <2> HIDE DEF r
  <2>4. InRange(r)
    BY <1>0, <2>2, IdleType DEF InRange
  <2> QED BY <2>2, <2>3, <2>4, TypeStep
<1>5. CASE CashoutStart(t) \/ CashoutMove(t)
  <2>1. PICK at \in Steps : /\ UNCHANGED <<rows, sums>>
          /\ tx' = [tx EXCEPT ![t] = [tx[t] EXCEPT !.at = at, !.rows = Open]]
    BY <1>5 DEF CashoutStart, CashoutMove, Steps
  <2>2. PICK r : r = [tx[t] EXCEPT !.at = at, !.rows = Open]
    OBVIOUS
  <2>3. /\ r \in ReqType /\ r.rows = Open
        /\ r.locks = tx[t].locks /\ r.seen = tx[t].seen
    BY <1>0, <2>2 DEF ReqType
  <2>4. InRange(r)
    BY <1>0, <2>3 DEF InRange
  <2> QED BY <2>1, <2>2, <2>3, <2>4, TypeStep
<1>6. CASE Lock(t)
  <2>1. PICK r : r = [tx[t] EXCEPT !.at = "locked", !.locks = tx[t].rows \cap Open]
    OBVIOUS
  <2>2. /\ r \in ReqType /\ r.rows = tx[t].rows
        /\ r.locks = tx[t].rows \cap Open /\ r.seen = tx[t].seen
    BY <1>0, <2>1 DEF ReqType, Steps
  <2>3. InRange(r)
    BY <1>0, <2>2 DEF InRange
  <2>4. tx' = [tx EXCEPT ![t] = r] /\ UNCHANGED <<rows, sums>>
    BY <1>6, <2>1 DEF Lock
  <2> QED BY <2>2, <2>3, <2>4, TypeStep
<1>7. CASE ReadCredits(t)
  <2>1. PICK seen : seen = [i \in Open |-> credits[i].amount]
    OBVIOUS
  <2>2. seen \in Seens /\ DOMAIN seen = Open
    BY <1>0, <2>1, SeensAre
  <2>3. PICK r : r = [tx[t] EXCEPT !.at = "read", !.seen = seen]
    OBVIOUS
  <2>4. /\ r \in ReqType /\ r.rows = tx[t].rows
        /\ r.locks = tx[t].locks /\ r.seen = seen
    BY <1>0, <2>2, <2>3 DEF ReqType, Steps
  <2>5. InRange(r)
    BY <1>0, <2>2, <2>4 DEF InRange
  <2>6. tx' = [tx EXCEPT ![t] = r] /\ UNCHANGED <<rows, sums>>
    BY <1>7, <2>1, <2>3 DEF ReadCredits
  <2> QED BY <2>4, <2>5, <2>6, TypeStep
<1> QED BY <1>1, <1>2, <1>3, <1>4, <1>5, <1>6, <1>7

\* What a checkout takes, whatever it has read.
LEMMA TakeTypes ==
    ASSUME TypeInv, NEW t \in Requests
    PROVE  /\ IsFiniteSet(Spent(t)) /\ Split(t) \subseteq Spent(t)
           /\ \A i \in Spent(t) : Take(t, i) \in Nat \ {0}
           /\ \A i \in Split(t) : tx[t].seen[i] - Take(t, i) \in Nat \ {0}
<1>1. PICK s \in Seens : s = tx[t].seen
  BY RequestFields DEF ReqType
<1>2. PICK n \in Nat : n = Len(credits) /\ Ids = 1..n
  <2>1. credits \in Seq(Credit)
    BY DEF TypeInv, TypeOK
  <2> QED BY <2>1, EachCredit DEF Ids
<1>3. DOMAIN s \subseteq 1..n
  BY <1>1, <1>2, RequestFields DEF InRange
<1>4. /\ IsFiniteSet(DOMAIN s) /\ DOMAIN s \in SUBSET Nat
      /\ \A i \in DOMAIN s : s[i] \in Nat
  BY <1>3, OlderAll, SeensAre
<1>5. tx[t].cap \in Nat
  BY DEF TypeInv, TypeOK
<1>6. \A i \in DOMAIN s : Take(t, i) \in Nat /\ Take(t, i) <= s[i]
  BY <1>1, <1>4, <1>5, TakeIs
<1>7. /\ Spent(t) = {i \in DOMAIN s : Take(t, i) > 0}
      /\ Split(t) = {i \in Spent(t) : Take(t, i) < s[i]}
  BY <1>1 DEF Spent, Split
<1>8. \A i \in Spent(t) : i \in DOMAIN s /\ Take(t, i) \in Nat \ {0}
  BY <1>6, <1>7
<1>9. \A i \in Split(t) : s[i] - Take(t, i) \in Nat \ {0}
  <2>1. \A i \in Split(t) : i \in DOMAIN s /\ Take(t, i) \in Nat /\ s[i] \in Nat
                            /\ Take(t, i) < s[i]
    BY <1>4, <1>6, <1>7
  <2> QED BY <2>1
<1>10. IsFiniteSet(Spent(t))
  BY <1>4, <1>7, FS_Subset
<1> QED BY <1>1, <1>7, <1>8, <1>9, <1>10

\* Credits with others appended.
LEMMA Joined ==
    ASSUME NEW u \in Seq(Credit), NEW v \in Seq(Credit)
    PROVE  /\ u \o v \in Seq(Credit) /\ Len(u) \in Nat /\ Len(v) \in Nat
           /\ Len(u \o v) = Len(u) + Len(v)
OBVIOUS

\* A checkout writes credits of positive amounts.
LEMMA TypeCheckout ==
    ASSUME TypeInv, uses' \in Uses, NEW t \in Requests, CheckoutCommit(t)
    PROVE  TypeInv'
<1>0. /\ credits \in Seq(Credit) /\ applied \in Nat
      /\ UNCHANGED <<cashout, asked, issued, paidOut>>
      /\ {issued, applied, paidOut} \subseteq Nat
      /\ cashout \in [Cashouts -> {"none", "pending", "approved", "rejected"}]
      /\ asked \in [Cashouts -> Nat]
  BY DEF TypeInv, TypeOK, CheckoutCommit
<1>1. PICK n \in Nat : n = Len(credits) /\ Ids = 1..n
  BY <1>0, EachCredit DEF Ids
<1>2. PICK U : U = Used(t)
  OBVIOUS
<1>3. U \in Seq(Credit) /\ Len(U) = n
  <2>1. /\ U = [i \in 1..n |-> U[i]]
        /\ \A i \in 1..n :
             U[i] = IF i \in Split(t)
                      THEN [credits[i] EXCEPT !.status = "used", !.amount = Take(t, i)]
                    ELSE IF i \in Spent(t) THEN [credits[i] EXCEPT !.status = "used"]
                    ELSE credits[i]
    BY <1>1, <1>2 DEF Used
  <2>2. ASSUME NEW i \in 1..n PROVE U[i] \in Credit
    <3>1. credits[i] \in Credit
      BY <1>0, <1>1, EachCredit
    <3>2. CASE i \in Split(t)
      <4>1. PICK a \in Nat \ {0} : a = Take(t, i)
        BY <3>2, TakeTypes
      <4>2. U[i] = [credits[i] EXCEPT !.status = "used", !.amount = a]
        BY <2>1, <3>2, <4>1
      <4> QED BY <3>1, <4>2 DEF Credit
    <3>3. CASE i \in Spent(t) \ Split(t)
      <4>1. U[i] = [credits[i] EXCEPT !.status = "used"]
        BY <2>1, <3>3
      <4> QED BY <3>1, <4>1, Marked
    <3>4. CASE i \notin Spent(t) /\ i \notin Split(t)
      BY <2>1, <3>1, <3>4
    <3> QED BY <3>2, <3>3, <3>4
  <2>3. U \in [1..n -> Credit]
    BY <2>1, <2>2
  <2> QED BY <2>3
<1>4. PICK R \in Seq(Credit) : R = Remainder(t)
  <2>1. CASE Split(t) = {}
    <3>1. Remainder(t) = <<>> /\ <<>> \in Seq(Credit)
      BY <2>1 DEF Remainder
    <3> QED BY <3>1
  <2>2. CASE Split(t) # {}
    <3>1. PICK k \in Split(t) : k = CHOOSE j \in Split(t) : TRUE
      BY <2>2
    <3>2. PICK a \in Nat \ {0} : a = tx[t].seen[k] - Take(t, k)
      BY TakeTypes
    <3>3. PICK c : c = [amount |-> a, status |-> "open", stamp |-> None]
      OBVIOUS
    <3>4. c \in Credit
      BY <3>3 DEF Credit
    <3>5. Remainder(t) = <<c>>
      BY <2>2, <3>1, <3>2, <3>3 DEF Remainder
    <3>6. <<c>> \in Seq(Credit)
      BY <3>4
    <3> QED BY <3>5, <3>6
  <2> QED BY <2>1, <2>2
<1>5. credits' \in Seq(Credit) /\ Len(credits') = n + Len(R) /\ Len(R) \in Nat
  <2>1. credits' = U \o R
    BY <1>2, <1>4 DEF CheckoutCommit
  <2>2. U \o R \in Seq(Credit) /\ Len(U \o R) = Len(U) + Len(R) /\ Len(R) \in Nat
    <3>1. U \in Seq(Credit) /\ R \in Seq(Credit)
      BY <1>3
    <3> QED BY <3>1, Joined, Zenon
  <2> QED BY <1>3, <2>1, <2>2
<1>6. Ids \subseteq Ids'
  BY <1>1, <1>5 DEF Ids
<1>7. applied' \in Nat
  <2>1. PICK S : S = Spent(t)
    OBVIOUS
  <2>2. PICK T : T = [i \in S |-> Take(t, i)]
    OBVIOUS
  <2>3. IsFiniteSet(S) /\ \A i \in S : T[i] \in Nat
    BY <2>1, <2>2, TakeTypes
  <2>4. SumFunctionOnSet(T, S) \in Nat
    BY <2>3, SumNat
  <2> QED BY <1>0, <2>1, <2>2, <2>4 DEF CheckoutCommit
<1>8. PICK r : r = [Idle EXCEPT !.at = "done"]
  OBVIOUS
<1>9. r \in ReqType /\ r.rows = {} /\ r.locks = {} /\ DOMAIN r.seen = {}
  BY <1>8, IdleType
<1>10. /\ tx' \in [Requests -> ReqType] /\ tx'[t] = r
       /\ \A u \in Requests : u # t => tx'[u] = tx[u]
  <2>1. tx' = [tx EXCEPT ![t] = r]
    BY <1>8 DEF CheckoutCommit, Finish
  <2> QED BY <1>9, <2>1, OneRequest
<1>11. \A u \in Requests : InRange(tx[u])'
  BY <1>6, <1>9, <1>10, RequestFields DEF InRange
<1> QED BY <1>0, <1>5, <1>7, <1>10, <1>11, TypeKept

\* Rows written in place, by statements that leave the requests as they are.
LEMMA TypeRows ==
    ASSUME TypeInv, uses' \in Uses, tx' \in [Requests -> ReqType],
           \A u \in Requests : \/ tx'[u] = tx[u]
                               \/ /\ tx'[u].rows = {} /\ tx'[u].locks = {}
                                  /\ DOMAIN tx'[u].seen = {},
           credits' = [i \in Ids |-> credits'[i]],
           \A i \in Ids : credits'[i] \in Credit,
           cashout' \in [Cashouts -> {"none", "pending", "approved", "rejected"}],
           asked' \in [Cashouts -> Nat], {issued', applied', paidOut'} \subseteq Nat
    PROVE  TypeInv'
<1>1. credits' \in Seq(Credit) /\ Ids' = Ids
  BY Rewritten DEF TypeInv, TypeOK
<1>2. \A u \in Requests : InRange(tx[u])'
  BY <1>1, RequestFields DEF InRange
<1> QED BY <1>1, <1>2, TypeKept

\* A cash-out asks for a sum, and stamps credits.
LEMMA TypeCashout ==
    ASSUME TypeInv, uses' \in Uses, NEW t \in Requests, NEW q \in Cashouts,
           CashoutCommit(t, q)
    PROVE  TypeInv'
<1>0. /\ credits \in Seq(Credit) /\ {issued, applied, paidOut} \subseteq Nat
      /\ cashout \in [Cashouts -> {"none", "pending", "approved", "rejected"}]
      /\ asked \in [Cashouts -> Nat]
  BY DEF TypeInv, TypeOK
<1>1. UNCHANGED <<issued, applied, paidOut>>
  BY DEF CashoutCommit, sums
<1>2. PICK m : m = tx[t].rows \cap Open
  OBVIOUS
<1>3. /\ cashout' = [cashout EXCEPT ![q] = "pending"]
      /\ asked' = [asked EXCEPT ![q] = Older(tx[t].seen, Len(credits) + 1)]
      /\ Finish(t)
      /\ credits' = [i \in Ids |-> IF i \in m
                                   THEN [credits[i] EXCEPT !.status = "pending_cashout",
                                                           !.stamp = q]
                                   ELSE credits[i]]
  BY <1>2 DEF CashoutCommit
<1>4. /\ credits' = [i \in Ids |-> credits'[i]]
      /\ \A i \in Ids : /\ i \in m => credits'[i] = [credits[i] EXCEPT
                                                       !.status = "pending_cashout",
                                                       !.stamp = q]
                        /\ i \notin m => credits'[i] = credits[i]
  BY <1>3
<1>5. ASSUME NEW i \in Ids PROVE credits'[i] \in Credit
  <2>1. credits[i] \in Credit
    BY <1>0, EachCredit
  <2>2. CASE i \in m
    <3>1. credits'[i] = [credits[i] EXCEPT !.status = "pending_cashout", !.stamp = q]
      BY <1>4, <2>2
    <3> QED BY <2>1, <3>1 DEF Credit
  <2>3. CASE i \notin m
    BY <1>4, <2>1, <2>3
  <2> QED BY <2>2, <2>3
<1>6. Older(tx[t].seen, Len(credits) + 1) \in Nat
  <2>1. PICK s \in Seens : s = tx[t].seen
    BY RequestFields DEF ReqType
  <2>2. PICK n \in Nat : n = Len(credits) /\ Ids = 1..n
    BY <1>0, EachCredit DEF Ids
  <2>3. DOMAIN s \subseteq 1..n
    BY <2>1, <2>2, RequestFields DEF InRange
  <2> QED BY <2>1, <2>2, <2>3, OlderAll
<1>7. /\ asked' \in [Cashouts -> Nat] /\ {issued', applied', paidOut'} \subseteq Nat
      /\ cashout' \in [Cashouts -> {"none", "pending", "approved", "rejected"}]
  BY <1>0, <1>1, <1>3, <1>6
<1>8. PICK r : r = [Idle EXCEPT !.at = "done"]
  OBVIOUS
<1>9. r \in ReqType /\ r.rows = {} /\ r.locks = {} /\ DOMAIN r.seen = {}
  BY <1>8, IdleType
<1>10. /\ tx' \in [Requests -> ReqType] /\ tx'[t] = r
       /\ \A u \in Requests : u # t => tx'[u] = tx[u]
  <2>1. tx' = [tx EXCEPT ![t] = r]
    BY <1>3, <1>8 DEF Finish
  <2> QED BY <1>9, <2>1, OneRequest
<1> QED BY <1>4, <1>5, <1>7, <1>9, <1>10, TypeRows

\* Finance's answer changes statuses.
LEMMA TypeAnswer ==
    ASSUME TypeInv, uses' \in Uses, NEW q \in Cashouts, Approve(q) \/ Reject(q)
    PROVE  TypeInv'
<1>0. /\ credits \in Seq(Credit) /\ {issued, applied, paidOut} \subseteq Nat
      /\ cashout \in [Cashouts -> {"none", "pending", "approved", "rejected"}]
      /\ asked \in [Cashouts -> Nat] /\ tx \in [Requests -> ReqType]
  BY DEF TypeInv, TypeOK
<1>1. UNCHANGED <<asked, issued, applied, tx>>
  BY DEF Approve, Reject, sums
<1>2. cashout' \in [Cashouts -> {"none", "pending", "approved", "rejected"}]
  BY <1>0 DEF Approve, Reject
<1>3. paidOut' \in Nat
  <2>1. paidOut' = paidOut + asked[q] \/ paidOut' = paidOut
    BY DEF Approve, Reject, sums
  <2>2. asked[q] \in Nat /\ paidOut \in Nat
    BY <1>0
  <2> QED BY <2>1, <2>2
<1>4. PICK L : L = LockedBy(q)
  OBVIOUS
<1>5. /\ credits' = [i \in Ids |-> credits'[i]]
      /\ \A i \in Ids : \/ credits'[i] = credits[i]
                        \/ credits'[i] = [credits[i] EXCEPT !.status = "used"]
                        \/ \E p : /\ p = IF credits[i].stamp = q THEN None
                                         ELSE credits[i].stamp
                                  /\ credits'[i] = [credits[i] EXCEPT !.status = "open",
                                                                      !.stamp = p]
  <2>0. \A i \in Ids : credits[i] \in Credit
    BY <1>0, EachCredit
  <2>1. CASE Approve(q)
    <3>1. credits' = [i \in Ids |-> IF i \in L
                                    THEN [credits[i] EXCEPT !.status = "used"]
                                    ELSE credits[i]]
      BY <1>4, <2>1 DEF Approve
    <3> QED BY <3>1
  <2>2. CASE Reject(q)
    <3>1. credits' = [i \in Ids |-> IF i \in L
                                    THEN [credits[i] EXCEPT
                                            !.status = "open",
                                            !.stamp = IF @ = q THEN None ELSE @]
                                    ELSE credits[i]]
      BY <1>4, <2>2 DEF Reject
    <3>2. \A i \in Ids : \/ credits'[i] = credits[i]
                         \/ credits'[i] = [credits[i] EXCEPT
                                             !.status = "open",
                                             !.stamp = IF @ = q THEN None ELSE @]
      BY <3>1
    <3>3. credits' = [i \in Ids |-> credits'[i]]
      BY <3>1
    <3>4. ASSUME NEW i \in Ids
          PROVE  \E p : /\ p = IF credits[i].stamp = q THEN None
                                         ELSE credits[i].stamp
                        /\ [credits[i] EXCEPT !.status = "open",
                                              !.stamp = IF @ = q THEN None ELSE @]
                             = [credits[i] EXCEPT !.status = "open", !.stamp = p]
      <4>1. PICK p : p = IF credits[i].stamp = q THEN None ELSE credits[i].stamp
        OBVIOUS
      <4>2. [credits[i] EXCEPT !.status = "open", !.stamp = IF @ = q THEN None ELSE @]
               = [credits[i] EXCEPT !.status = "open", !.stamp = p]
        BY <2>0, <4>1 DEF Credit
      <4> QED BY <4>1, <4>2
    <3> QED BY <3>2, <3>3, <3>4
  <2> QED BY <2>1, <2>2
<1>6. ASSUME NEW i \in Ids PROVE credits'[i] \in Credit
  <2>1. credits[i] \in Credit
    BY <1>0, EachCredit
  <2>2. CASE credits'[i] = credits[i]
    BY <2>1, <2>2
  <2>3. CASE credits'[i] = [credits[i] EXCEPT !.status = "used"]
    BY <2>1, <2>3, Marked
  <2>4. ASSUME NEW p, p = IF credits[i].stamp = q THEN None ELSE credits[i].stamp,
               credits'[i] = [credits[i] EXCEPT !.status = "open", !.stamp = p]
        PROVE  credits'[i] \in Credit
    <3>1. p \in Cashouts \cup {None}
      BY <2>1, <2>4, CreditWritten
    <3> QED BY <2>1, <2>4, <3>1 DEF Credit
  <2> QED BY <1>5, <2>2, <2>3, <2>4
<1>7. asked' \in [Cashouts -> Nat] /\ {issued', applied', paidOut'} \subseteq Nat
  BY <1>0, <1>1, <1>3
<1>8. tx' \in [Requests -> ReqType] /\ \A u \in Requests : tx'[u] = tx[u]
  BY <1>0, <1>1
<1> QED BY <1>2, <1>5, <1>6, <1>7, <1>8, TypeRows

\* A new credit.
LEMMA TypeGrant ==
    ASSUME TypeInv, uses' \in Uses, NEW a \in Nat \ {0}, Grant(a),
           UNCHANGED <<cashout, asked, applied, paidOut, tx>>
    PROVE  TypeInv'
<1>0. credits \in Seq(Credit) /\ issued \in Nat
  BY DEF TypeInv, TypeOK
<1>1. PICK c \in Credit : credits' = Append(credits, c) /\ issued' = issued + a
  BY DEF Grant, Credit
<1>2. credits' \in Seq(Credit) /\ Ids \subseteq Ids'
  BY <1>0, <1>1 DEF Ids
<1>3. \A u \in Requests : InRange(tx[u])'
  BY <1>2, RequestFields DEF InRange
<1>4. /\ cashout' \in [Cashouts -> {"none", "pending", "approved", "rejected"}]
      /\ tx' \in [Requests -> ReqType]
      /\ asked' \in [Cashouts -> Nat] /\ {issued', applied', paidOut'} \subseteq Nat
  BY <1>0, <1>1 DEF TypeInv, TypeOK
<1> QED BY <1>2, <1>3, <1>4, TypeKept

\* What leaves rows, sums and requests alone, or ends all requests.
LEMMA TypeBeside ==
    ASSUME TypeInv, uses' \in Uses, UNCHANGED <<rows, sums>>,
           UNCHANGED tx \/ tx' = [t \in Requests |-> Idle]
    PROVE  TypeInv'
<1>1. UNCHANGED <<credits, cashout, asked, issued, applied, paidOut>>
  BY DEF rows, sums
<1>2. tx' \in [Requests -> ReqType]
  BY IdleType DEF TypeInv
<1>3. \A u \in Requests : InRange(tx[u])'
  <2>1. Ids' = Ids
    BY <1>1 DEF Ids
  <2> QED BY <2>1, RequestFields, IdleType DEF InRange
<1>4. /\ credits' \in Seq(Credit)
      /\ cashout' \in [Cashouts -> {"none", "pending", "approved", "rejected"}]
      /\ asked' \in [Cashouts -> Nat] /\ {issued', applied', paidOut'} \subseteq Nat
  BY <1>1 DEF TypeInv, TypeOK
<1> QED BY <1>2, <1>3, <1>4, TypeKept

\* An empty wallet, or one credit under a legacy cash-out.
LEMMA TypeInit == Init => TypeInv
<1> SUFFICES ASSUME Init PROVE TypeInv
  OBVIOUS
<1>1. tx = [t \in Requests |-> Idle] /\ applied = 0 /\ paidOut = 0
  BY DEF Init
<1>2. /\ tx \in [Requests -> ReqType]
      /\ \A t \in Requests : /\ tx[t].rows = {} /\ tx[t].locks = {}
                             /\ DOMAIN tx[t].seen = {}
  BY <1>1, IdleType
<1>3. /\ uses \in Uses /\ credits \in Seq(Credit) /\ issued \in Nat
      /\ cashout \in [Cashouts -> {"none", "pending", "approved", "rejected"}]
      /\ asked \in [Cashouts -> Nat]
  <2>0. uses \in Uses
    BY DEF Init, Uses
  <2>1. CASE /\ credits = <<>> /\ issued = 0
             /\ cashout = [q \in Cashouts |-> "none"]
             /\ asked = [q \in Cashouts |-> 0]
    <3>1. <<>> \in Seq(Credit)
      OBVIOUS
    <3> QED BY <2>0, <2>1, <3>1
  <2>2. ASSUME NEW a \in 1..MaxIssued, NEW legacy \in Cashouts,
               credits = <<[amount |-> a, status |-> "pending_cashout", stamp |-> None]>>,
               issued = a,
               cashout = [q \in Cashouts |-> IF q = legacy THEN "pending" ELSE "none"],
               asked = [q \in Cashouts |-> IF q = legacy THEN a ELSE 0]
        PROVE  /\ credits \in Seq(Credit) /\ issued \in Nat
               /\ cashout \in [Cashouts -> {"none", "pending", "approved", "rejected"}]
               /\ asked \in [Cashouts -> Nat]
    <3>1. PICK c : c = [amount |-> a, status |-> "pending_cashout", stamp |-> None]
      OBVIOUS
    <3>2. c \in Credit /\ a \in Nat
      BY <3>1, WalletAssumption DEF Credit
    <3>3. credits \in Seq(Credit)
      BY <2>2, <3>1, <3>2
    <3> QED BY <2>2, <3>2, <3>3
  <2> QED BY <2>0, <2>1, <2>2 DEF Init
<1>4. {issued, applied, paidOut} \subseteq Nat
  BY <1>1, <1>3
<1>5. \A t \in Requests :
       /\ tx[t].op \in {"none", "checkout", "cashout"} /\ tx[t].at \in Steps
       /\ tx[t].cap \in Nat /\ tx[t].coupon \in BOOLEAN
  BY <1>2 DEF ReqType
<1>6. \A t \in Requests : /\ tx[t].rows \subseteq Ids /\ tx[t].locks \subseteq Ids
                          /\ DOMAIN tx[t].seen \subseteq Ids
  BY <1>2
<1> QED BY <1>2, <1>3, <1>4, <1>5, <1>6 DEF TypeInv, TypeOK

\* Every step keeps the types; the room of the coupon is what bounds its uses.
LEMMA TypeNext == CouponInv /\ TypeInv /\ [Next]_vars => TypeInv'
<1> SUFFICES ASSUME CouponInv, TypeInv, [Next]_vars PROVE TypeInv'
  OBVIOUS
<1>u. uses' \in Uses
  BY CouponNext DEF CouponInv, CouponType
<1>1. ASSUME NEW t \in Requests,
             \/ PriceSelection(t) \/ RecheckCoupon(t) \/ PlainCommit(t)
             \/ \E cap \in 1..MaxIssued : CheckoutStart(t, cap)
             \/ CashoutCheck(t) \/ CashoutStart(t) \/ Abort(t)
             \/ Lock(t) \/ ReadCredits(t) \/ CashoutMove(t)
      PROVE  TypeInv'
  BY <1>u, <1>1, TypeReads
<1>2. ASSUME NEW t \in Requests, CheckoutCommit(t) PROVE TypeInv'
  BY <1>u, <1>2, TypeCheckout
<1>3. ASSUME NEW t \in Requests, NEW q \in Cashouts, CashoutCommit(t, q)
      PROVE  TypeInv'
  BY <1>u, <1>3, TypeCashout
<1>4. CASE NextVisit
  <2>1. UNCHANGED <<rows, sums>> /\ tx' = [t \in Requests |-> Idle]
    BY <1>4 DEF NextVisit
  <2> QED BY <1>u, <2>1, TypeBeside
<1>5. ASSUME NEW a \in 1..MaxIssued, Issue(a) PROVE TypeInv'
  <2>1. /\ a \in Nat \ {0} /\ Grant(a)
        /\ UNCHANGED <<cashout, asked, applied, paidOut, tx>>
    BY <1>5, WalletAssumption DEF Issue
  <2> QED BY <1>u, <2>1, TypeGrant
<1>6. ASSUME NEW a \in 0..MaxIssued, CancelRedeemed(a) PROVE TypeInv'
  <2>1. UNCHANGED <<cashout, asked, applied, paidOut, tx>>
    BY <1>6 DEF CancelRedeemed
  <2>2. CASE a > 0
    <3>1. a \in Nat \ {0} /\ Grant(a)
      BY <1>6, <2>2, WalletAssumption DEF CancelRedeemed
    <3> QED BY <1>u, <2>1, <3>1, TypeGrant
  <2>3. CASE ~(a > 0)
    <3>1. UNCHANGED <<rows, sums, tx>>
      BY <1>6, <2>1, <2>3 DEF CancelRedeemed, rows, sums
    <3> QED BY <1>u, <3>1, TypeBeside
  <2> QED BY <2>2, <2>3
<1>7. CASE MarkNotArrived \/ OthersRedeem \/ OthersCancel \/ UNCHANGED vars
  <2>1. UNCHANGED <<rows, sums, tx>>
    BY <1>7 DEF MarkNotArrived, OthersRedeem, OthersCancel, vars
  <2> QED BY <1>u, <2>1, TypeBeside
<1>8. ASSUME NEW q \in Cashouts, Approve(q) \/ Reject(q) PROVE TypeInv'
  BY <1>u, <1>8, TypeAnswer
<1> QED BY <1>1, <1>2, <1>3, <1>4, <1>5, <1>6, <1>7, <1>8 DEF Next

\* Whatever overlaps, credits have positive amounts, sums stay natural numbers
\* and requests point at rows that exist.
THEOREM WalletTypes == Spec => []TypeOK
<1>1. Init => CouponInv /\ TypeInv
  BY CouponInit, TypeInit
<1>2. CouponInv /\ TypeInv /\ [Next]_vars => (CouponInv /\ TypeInv)'
  BY CouponNext, TypeNext
<1>3. TypeInv => TypeOK
  BY DEF TypeInv
<1> QED BY <1>1, <1>2, <1>3, PTL DEF Spec

-----------------------------------------------------------------------------
(***************************************************************************)
(* The money.                                                              *)
(***************************************************************************)

Inside(t) == tx[t].at \in {"locked", "read", "moving"}
Pending == {q \in Cashouts : cashout[q] = "pending"}

\* Nothing is opened while requests run, so until one of them is done the open
\* credits are those that each found, and only one can lock them.
NobodyDone == \A t \in Requests : tx[t].at # "done"
FoundOpen ==
    NobodyDone =>
        \A t \in Requests : /\ tx[t].at = "waiting" => tx[t].rows = Open
                            /\ Inside(t) => tx[t].locks = Open

LocksExclude == \A t, u \in Requests : t # u /\ Inside(t) /\ Inside(u) => Open = {}

\* What a request has read is still so when it writes.
SeenIsOpen ==
    \A t \in Requests :
        /\ tx[t].at \in {"read", "moving"} =>
             /\ DOMAIN tx[t].seen = Open
             /\ \A i \in Open : tx[t].seen[i] = credits[i].amount
        /\ tx[t].at = "moving" => /\ tx[t].op = "cashout"
                                  /\ tx[t].rows = Open /\ Open # {}

\* A cash-out in progress beside a pending one finds nothing to move.
PendingFirst ==
    \A t \in Requests :
        tx[t].op = "cashout" /\ tx[t].at \notin {"idle", "done"} /\ Pending # {}
            => Open = {}

\* The pending credits are those of the pending request.
OnePending ==
    /\ \A p, q \in Pending : p = q
    /\ Pending = {} => WithStatus("pending_cashout") = {}
    /\ \A q \in Pending : /\ LockedBy(q) = WithStatus("pending_cashout")
                          /\ asked[q] = Balance(WithStatus("pending_cashout"))

WalletInv ==
    /\ TypeInv /\ FoundOpen /\ LocksExclude /\ SeenIsOpen /\ PendingFirst
    /\ OnePending /\ WalletConserved

\* At most two requests overlap.
TwoAtMost == \A t, u, v \in Requests : t = u \/ t = v \/ u = v

\* What is said of the credits and cash-outs alone.
LEMMA RowsStay ==
    ASSUME WalletInv, UNCHANGED <<rows, sums>>
    PROVE  /\ Open' = Open /\ Pending' = Pending /\ Ids' = Ids
           /\ OnePending' /\ WalletConserved'
<1>1. UNCHANGED <<credits, cashout, asked, issued, applied, paidOut>>
  BY DEF rows, sums
<1>2. Open' = Open /\ Pending' = Pending /\ Ids' = Ids
  BY <1>1 DEF Open, WithStatus, Pending, Ids
<1>3. /\ WithStatus("pending_cashout")' = WithStatus("pending_cashout")
      /\ \A q \in Cashouts : LockedBy(q)' = LockedBy(q)
  BY <1>1 DEF WithStatus, LockedBy, Ids
<1>4. /\ Balance(Open)' = Balance(Open)
      /\ Balance(WithStatus("pending_cashout"))' = Balance(WithStatus("pending_cashout"))
  BY <1>1, <1>2, <1>3 DEF Balance
<1>5. OnePending'
  <2>1. Pending \subseteq Cashouts
    BY DEF Pending
  <2> QED BY <1>1, <1>2, <1>3, <1>4, <2>1 DEF WalletInv, OnePending
<1>6. WalletConserved'
  BY <1>1, <1>4 DEF WalletInv, WalletConserved
<1> QED BY <1>2, <1>5, <1>6

\* A step of a request that writes no row.
LEMMA QuietStep ==
    ASSUME WalletInv, UNCHANGED <<rows, sums>>, uses' \in Uses,
           NEW t \in Requests, NEW r \in ReqType, InRange(r),
           tx' = [tx EXCEPT ![t] = r], tx[t].at # "done",
           r.at = "waiting" => r.rows = Open,
           r.at \in {"locked", "read", "moving"} =>
               /\ NobodyDone => r.locks = Open
               /\ \A u \in Requests : u # t /\ Inside(u) => Open = {},
           r.at \in {"read", "moving"} =>
               /\ DOMAIN r.seen = Open
               /\ \A i \in Open : r.seen[i] = credits[i].amount,
           r.at = "moving" => r.op = "cashout" /\ r.rows = Open /\ Open # {},
           r.op = "cashout" /\ r.at \notin {"idle", "done"} /\ Pending # {}
               => Open = {}
    PROVE  WalletInv'
<1>1. /\ tx' \in [Requests -> ReqType] /\ tx'[t] = r
      /\ \A u \in Requests : u # t => tx'[u] = tx[u]
  BY OneRequest DEF WalletInv
<1>2. /\ Open' = Open /\ Pending' = Pending /\ Ids' = Ids /\ credits' = credits
      /\ OnePending' /\ WalletConserved'
  BY RowsStay DEF rows
<1>3. TypeInv'
  BY TypeStep DEF WalletInv
<1>4. FoundOpen'
  <2>1. NobodyDone' => NobodyDone
    BY <1>1 DEF NobodyDone
  <2> QED BY <1>1, <1>2, <2>1 DEF WalletInv, FoundOpen, Inside
<1>5. LocksExclude'
  BY <1>1, <1>2 DEF WalletInv, LocksExclude, Inside
<1>6. SeenIsOpen'
  BY <1>1, <1>2 DEF WalletInv, SeenIsOpen
<1>7. PendingFirst'
  BY <1>1, <1>2 DEF WalletInv, PendingFirst
<1> QED BY <1>2, <1>3, <1>4, <1>5, <1>6, <1>7 DEF WalletInv

\* The request is over, without a write.
LEMMA QuietEnd ==
    ASSUME WalletInv, UNCHANGED <<rows, sums>>, uses' \in Uses,
           NEW t \in Requests, tx[t].at # "done", Finish(t)
    PROVE  WalletInv'
<1> DEFINE r == [Idle EXCEPT !.at = "done"]
<1>1. /\ r \in ReqType /\ InRange(r) /\ r.at = "done" /\ tx' = [tx EXCEPT ![t] = r]
  BY IdleType DEF InRange, Finish
<1> HIDE DEF r
<1> QED BY <1>1, QuietStep

\* What happens beside the requests and the credits.
LEMMA QuietBeside ==
    ASSUME WalletInv, UNCHANGED <<rows, sums, tx>>, uses' \in Uses
    PROVE  WalletInv'
<1>2. /\ Open' = Open /\ Pending' = Pending /\ Ids' = Ids /\ credits' = credits
      /\ OnePending' /\ WalletConserved'
  BY RowsStay DEF rows
<1>3. TypeInv'
  BY TypeBeside DEF WalletInv
<1>4. FoundOpen' /\ LocksExclude' /\ SeenIsOpen' /\ PendingFirst'
  BY <1>2 DEF WalletInv, FoundOpen, NobodyDone, Inside, LocksExclude, SeenIsOpen,
     PendingFirst
<1> QED BY <1>2, <1>3, <1>4 DEF WalletInv

\* The next visit finds every request answered.
LEMMA QuietVisit ==
    ASSUME WalletInv, NextVisit
    PROVE  WalletInv'
<1>1. /\ \A t \in Requests : tx'[t] = Idle /\ tx'[t].at = "idle"
      /\ tx' \in [Requests -> ReqType]
      /\ UNCHANGED <<rows, sums, uses>>
  BY IdleType DEF NextVisit
<1>2. /\ Open' = Open /\ Pending' = Pending /\ Ids' = Ids /\ credits' = credits
      /\ OnePending' /\ WalletConserved'
  BY <1>1, RowsStay DEF rows
<1>3. TypeInv'
  BY <1>1, TypeBeside DEF WalletInv, TypeInv, TypeOK, NextVisit
<1>4. FoundOpen' /\ LocksExclude' /\ SeenIsOpen' /\ PendingFirst'
  BY <1>1 DEF FoundOpen, Inside, LocksExclude, SeenIsOpen, PendingFirst
<1> QED BY <1>2, <1>3, <1>4 DEF WalletInv

\* The statements of a request that only read or lock.
LEMMA QuietStarts ==
    ASSUME WalletInv, uses' \in Uses, NEW t \in Requests,
           \/ PriceSelection(t) \/ RecheckCoupon(t) \/ PlainCommit(t)
           \/ \E cap \in 1..MaxIssued : CheckoutStart(t, cap)
           \/ CashoutCheck(t) \/ CashoutStart(t) \/ Abort(t)
    PROVE  WalletInv'
<1>0. /\ tx[t] \in ReqType /\ InRange(tx[t]) /\ Open \subseteq Ids
      /\ Open \in SUBSET Nat
  BY RequestFields DEF WalletInv, Open, WithStatus, Ids
<1>1. CASE PriceSelection(t)
  <2> DEFINE r == [Idle EXCEPT !.op = "checkout", !.coupon = TRUE, !.at = "priced"]
  <2>1. /\ r \in ReqType /\ InRange(r) /\ r.at = "priced" /\ r.op = "checkout"
    BY IdleType DEF ReqType, InRange, Steps
  <2>2. tx' = [tx EXCEPT ![t] = r] /\ tx[t].at # "done" /\ UNCHANGED <<rows, sums>>
    BY <1>1 DEF PriceSelection
  <2> HIDE DEF r
  <2> QED BY <2>1, <2>2, QuietStep
<1>2. CASE RecheckCoupon(t)
  <2>1. CASE Redeemable
    <3> DEFINE r == [tx[t] EXCEPT !.at = "redeemed"]
    <3>1. r \in ReqType /\ r.at = "redeemed" /\ InRange(r) /\ r.op = tx[t].op
      BY <1>0, StepType DEF Steps, InRange
    <3>2. /\ tx' = [tx EXCEPT ![t] = r] /\ tx[t].at = "priced"
          /\ UNCHANGED <<rows, sums>>
      BY <1>2, <2>1 DEF RecheckCoupon, Step
    <3> HIDE DEF r
    <3>3. r.op = "cashout" /\ Pending # {} => Open = {}
      BY <3>1, <3>2 DEF WalletInv, PendingFirst
    <3> QED BY <3>1, <3>2, <3>3, QuietStep
  <2>2. CASE ~Redeemable
    BY <1>2, <2>2, QuietEnd DEF RecheckCoupon
  <2> QED BY <2>1, <2>2
<1>3. CASE PlainCommit(t) \/ Abort(t)
  BY <1>3, QuietEnd DEF PlainCommit, Abort
<1>4. ASSUME NEW cap \in 1..MaxIssued, CheckoutStart(t, cap)
      PROVE  WalletInv'
  <2> DEFINE r == [Idle EXCEPT !.op = "checkout", !.cap = cap,
                               !.coupon = tx[t].coupon,
                               !.at = "waiting", !.rows = Open]
  <2>1. cap \in Nat /\ tx[t].coupon \in BOOLEAN
    BY <1>0, <1>4, WalletAssumption DEF ReqType
  <2>2. /\ r \in ReqType /\ r.at = "waiting" /\ r.op = "checkout" /\ r.rows = Open
        /\ r.locks = Idle.locks /\ r.seen = Idle.seen
    BY <1>0, <2>1, IdleType DEF ReqType, Steps
  <2>3. tx' = [tx EXCEPT ![t] = r] /\ tx[t].at # "done" /\ UNCHANGED <<rows, sums>>
    BY <1>4 DEF CheckoutStart, MayPay
  <2> HIDE DEF r
  <2>4. InRange(r)
    BY <1>0, <2>2, IdleType DEF InRange
  <2> QED BY <2>2, <2>3, <2>4, QuietStep
<1>5. CASE CashoutCheck(t)
  <2> DEFINE r == [Idle EXCEPT !.op = "cashout", !.at = "checked"]
  <2>1. /\ r \in ReqType /\ InRange(r) /\ r.at = "checked" /\ r.op = "cashout"
    BY IdleType DEF ReqType, InRange, Steps
  <2>2. /\ tx' = [tx EXCEPT ![t] = r] /\ tx[t].at # "done" /\ UNCHANGED <<rows, sums>>
        /\ Pending = {}
    BY <1>5 DEF CashoutCheck, Pending
  <2> HIDE DEF r
  <2> QED BY <2>1, <2>2, QuietStep
<1>6. CASE CashoutStart(t)
  <2> DEFINE r == [tx[t] EXCEPT !.at = "waiting", !.rows = Open]
  <2>1. /\ r \in ReqType /\ r.at = "waiting" /\ r.rows = Open /\ r.op = tx[t].op
        /\ r.locks = tx[t].locks /\ r.seen = tx[t].seen
    BY <1>0 DEF ReqType, Steps
  <2>2. tx' = [tx EXCEPT ![t] = r] /\ tx[t].at = "checked" /\ UNCHANGED <<rows, sums>>
    BY <1>6 DEF CashoutStart
  <2> HIDE DEF r
  <2>3. InRange(r)
    BY <1>0, <2>1 DEF InRange
  <2>4. r.op = "cashout" /\ Pending # {} => Open = {}
    BY <2>1, <2>2 DEF WalletInv, PendingFirst
  <2> QED BY <2>1, <2>2, <2>3, <2>4, QuietStep
<1> QED BY <1>1, <1>2, <1>3, <1>4, <1>5, <1>6

\* Of two requests only one can lock the open credits, if there are any.
LEMMA QuietLock ==
    ASSUME WalletInv, TwoAtMost, uses' \in Uses, NEW t \in Requests, Lock(t)
    PROVE  WalletInv'
<1> DEFINE r == [tx[t] EXCEPT !.at = "locked", !.locks = tx[t].rows \cap Open]
<1>0. /\ tx[t] \in ReqType /\ InRange(tx[t])
      /\ Open \subseteq Ids /\ Open \in SUBSET Nat
  BY RequestFields DEF WalletInv, Open, WithStatus, Ids
<1>1. /\ r \in ReqType /\ r.at = "locked" /\ r.op = tx[t].op
      /\ r.locks = tx[t].rows \cap Open /\ r.rows = tx[t].rows /\ r.seen = tx[t].seen
  BY <1>0 DEF ReqType, Steps
<1>2. /\ tx' = [tx EXCEPT ![t] = r] /\ tx[t].at = "waiting" /\ UNCHANGED <<rows, sums>>
      /\ Free(t, tx[t].rows)
  BY DEF Lock
<1> HIDE DEF r
<1>3. InRange(r)
  BY <1>0, <1>1 DEF InRange
<1>4. NobodyDone => r.locks = Open
  BY <1>1, <1>2 DEF WalletInv, FoundOpen
<1>5. ASSUME NEW u \in Requests, u # t, Inside(u) PROVE Open = {}
  <2>1. NobodyDone
    BY <1>2, <1>5 DEF NobodyDone, TwoAtMost, Inside
  <2>2. tx[t].rows = Open /\ tx[u].locks = Open
    BY <1>2, <1>5, <2>1 DEF WalletInv, FoundOpen
  <2> QED BY <1>2, <1>5, <2>2 DEF Free
<1>6. r.op = "cashout" /\ Pending # {} => Open = {}
  BY <1>1, <1>2 DEF WalletInv, PendingFirst
<1> QED BY <1>1, <1>2, <1>3, <1>4, <1>5, <1>6, QuietStep

\* A request reads what is open.
LEMMA QuietRead ==
    ASSUME WalletInv, uses' \in Uses, NEW t \in Requests, ReadCredits(t)
    PROVE  WalletInv'
<1> DEFINE seen == [i \in Open |-> credits[i].amount]
           r == [tx[t] EXCEPT !.at = "read", !.seen = seen]
<1>0. /\ tx[t] \in ReqType /\ InRange(tx[t])
      /\ Open \subseteq Ids /\ Open \in SUBSET Nat
      /\ \A i \in Open : credits[i].amount \in Nat \ {0}
  <2>1. credits \in Seq(Credit)
    BY DEF WalletInv, TypeInv, TypeOK
  <2> QED BY <2>1, RequestFields, EachCredit DEF WalletInv, Open, WithStatus
<1>s. /\ seen \in Seens /\ DOMAIN seen = Open
      /\ \A i \in Open : seen[i] = credits[i].amount
  BY <1>0, SeensAre
<1>2. tx' = [tx EXCEPT ![t] = r] /\ tx[t].at = "locked" /\ UNCHANGED <<rows, sums>>
  BY DEF ReadCredits
<1> HIDE DEF seen
<1>1. /\ r \in ReqType /\ r.at = "read" /\ r.op = tx[t].op
      /\ r.locks = tx[t].locks /\ r.rows = tx[t].rows /\ r.seen = seen
  BY <1>0, <1>s DEF ReqType, Steps
<1> HIDE DEF r
<1>3. InRange(r)
  BY <1>0, <1>1, <1>s DEF InRange
<1>4. NobodyDone => r.locks = Open
  BY <1>1, <1>2 DEF WalletInv, FoundOpen, Inside
<1>5. \A u \in Requests : u # t /\ Inside(u) => Open = {}
  BY <1>2 DEF WalletInv, LocksExclude, Inside
<1>6. r.op = "cashout" /\ Pending # {} => Open = {}
  BY <1>1, <1>2 DEF WalletInv, PendingFirst
<1> QED BY <1>1, <1>2, <1>s, <1>3, <1>4, <1>5, <1>6, QuietStep

\* A cash-out picks the rows to move.
LEMMA QuietMove ==
    ASSUME WalletInv, uses' \in Uses, NEW t \in Requests, CashoutMove(t)
    PROVE  WalletInv'
<1> DEFINE r == [tx[t] EXCEPT !.at = "moving", !.rows = Open]
<1>0. /\ tx[t] \in ReqType /\ InRange(tx[t])
      /\ Open \subseteq Ids /\ Open \in SUBSET Nat
  BY RequestFields DEF WalletInv, Open, WithStatus, Ids
<1>1. /\ r \in ReqType /\ r.at = "moving" /\ r.op = tx[t].op
      /\ r.locks = tx[t].locks /\ r.rows = Open /\ r.seen = tx[t].seen
  BY <1>0 DEF ReqType, Steps
<1>2. /\ tx' = [tx EXCEPT ![t] = r] /\ tx[t].at = "read" /\ UNCHANGED <<rows, sums>>
      /\ DOMAIN tx[t].seen # {} /\ tx[t].op = "cashout"
  BY DEF CashoutMove
<1> HIDE DEF r
<1>3. InRange(r)
  BY <1>0, <1>1 DEF InRange
<1>4. NobodyDone => r.locks = Open
  BY <1>1, <1>2 DEF WalletInv, FoundOpen, Inside
<1>5. \A u \in Requests : u # t /\ Inside(u) => Open = {}
  BY <1>2 DEF WalletInv, LocksExclude, Inside
<1>6. r.op = "cashout" /\ Pending # {} => Open = {}
  BY <1>1, <1>2 DEF WalletInv, PendingFirst
<1>7. /\ DOMAIN r.seen = Open /\ Open # {}
      /\ \A i \in Open : r.seen[i] = credits[i].amount
  BY <1>1, <1>2 DEF WalletInv, SeenIsOpen
<1> QED BY <1>1, <1>2, <1>3, <1>4, <1>5, <1>6, <1>7, QuietStep

-----------------------------------------------------------------------------
\* The balance of the credits A of the rows c.
Value(c, A) == SumFunctionOnSet([i \in 1..Len(c) |-> c[i].amount], A)

\* The credits are finitely many and their amounts positive, so a balance is a
\* natural number, the balance of no credit is zero, and two balances add up.
LEMMA Values ==
    ASSUME NEW c \in Seq(Credit), NEW A \in SUBSET (1..Len(c)),
           NEW B \in SUBSET (1..Len(c))
    PROVE  /\ IsFiniteSet(A) /\ Value(c, A) \in Nat
           /\ (A = {} => Value(c, A) = 0)
           /\ (A \cap B = {} => Value(c, A \cup B) = Value(c, A) + Value(c, B))
           /\ \A i \in 1..Len(c) : Value(c, {i}) = c[i].amount
<1> DEFINE amt == [i \in 1..Len(c) |-> c[i].amount]
<1>1. IsFiniteSet(1..Len(c)) /\ IsFiniteSet(A) /\ IsFiniteSet(B)
  BY CreditsOf, FS_Subset
<1>2. \A i \in 1..Len(c) : amt[i] \in Nat /\ amt[i] \in Int /\ amt[i] = c[i].amount
  BY CreditsOf
<1>3. \A D : Value(c, D) = SumFunctionOnSet(amt, D)
  BY DEF Value
<1> HIDE DEF amt
<1>4. Value(c, A) \in Nat
  <2>1. \A i \in A : amt[i] \in Nat
    BY <1>2
  <2> QED BY <1>1, <1>3, <2>1, SumNat
<1>5. A = {} => Value(c, A) = 0
  BY <1>3, SumSmall
<1>6. A \cap B = {} => Value(c, A \cup B) = Value(c, A) + Value(c, B)
  <2>1. \A i \in A \cup B : amt[i] \in Int
    BY <1>2
  <2>2. A \cap B = {} => SumFunctionOnSet(amt, A \cup B)
                           = SumFunctionOnSet(amt, A) + SumFunctionOnSet(amt, B)
    BY <1>1, <2>1, SumUnion
  <2> QED BY <1>3, <2>2
<1>7. \A i \in 1..Len(c) : Value(c, {i}) = c[i].amount
  BY <1>2, <1>3, SumSmall
<1> QED BY <1>1, <1>4, <1>5, <1>6, <1>7

\* A balance does not change with the statuses, nor with other credits.
LEMMA ValueStays ==
    ASSUME NEW c \in Seq(Credit), NEW d \in Seq(Credit),
           NEW A \in SUBSET (1..Len(c)), A \subseteq 1..Len(d),
           \A i \in A : d[i].amount = c[i].amount
    PROVE  Value(d, A) = Value(c, A)
<1> DEFINE f == [i \in 1..Len(c) |-> c[i].amount]
           g == [i \in 1..Len(d) |-> d[i].amount]
<1>1. IsFiniteSet(A)
  BY Values
<1>2. \A i \in A : f[i] \in Int /\ f[i] = g[i]
  BY CreditsOf
<1>3. Value(c, A) = SumFunctionOnSet(f, A) /\ Value(d, A) = SumFunctionOnSet(g, A)
  BY DEF Value
<1> HIDE DEF f, g
<1> QED BY <1>1, <1>2, <1>3, SumSame

\* Rows that keep their amounts keep their balances.
LEMMA SameValues ==
    ASSUME NEW c \in Seq(Credit), NEW d \in Seq(Credit), Len(d) = Len(c),
           \A i \in 1..Len(c) : d[i].amount = c[i].amount,
           NEW A \in SUBSET (1..Len(c)), NEW B \in SUBSET (1..Len(c))
    PROVE  /\ Value(d, A) = Value(c, A) /\ Value(c, A) \in Nat /\ Value(d, {}) = 0
           /\ A \cap B = {} => Value(c, A \cup B) = Value(c, A) + Value(c, B)
<1>1. A \in SUBSET (1..Len(d)) /\ B \in SUBSET (1..Len(d))
  OBVIOUS
<1>2. Value(d, A) = Value(c, A)
  BY <1>1, ValueStays
<1>3. Value(d, {}) = 0
  BY SumSmall DEF Value
<1> QED BY <1>2, <1>3, Values

\* The balance of some credits is that of a part and of the others.
LEMMA ValueParts ==
    ASSUME NEW c \in Seq(Credit), NEW U \in SUBSET (1..Len(c)), NEW A, A \subseteq U
    PROVE  /\ Value(c, U) = Value(c, U \ A) + Value(c, A)
           /\ Value(c, A) \in Nat /\ Value(c, U \ A) \in Nat
<1>1. PICK R : R = U \ A
  OBVIOUS
<1>2. /\ A \in SUBSET (1..Len(c)) /\ R \in SUBSET (1..Len(c))
      /\ R \cap A = {} /\ R \cup A = U
  BY <1>1
<1>3. Value(c, R \cup A) = Value(c, R) + Value(c, A)
  BY <1>2, Values
<1>4. Value(c, A) \in Nat /\ Value(c, R) \in Nat
  BY <1>2, Values
<1> QED BY <1>1, <1>2, <1>3, <1>4

\* The value of a single credit.
LEMMA ValueOne ==
    ASSUME NEW c \in Seq(Credit), NEW i \in 1..Len(c)
    PROVE  Value(c, {i}) = c[i].amount /\ c[i].amount \in Nat
<1>1. {i} \in SUBSET (1..Len(c))
  OBVIOUS
<1> QED BY <1>1, Values, CreditsOf

\* Nothing but MayOpen opens a credit, and it finds no request at work.
LEMMA NobodyAtWork ==
    ASSUME ~OpenAnytime, MayOpen, UNCHANGED tx
    PROVE  FoundOpen' /\ LocksExclude' /\ SeenIsOpen' /\ PendingFirst'
<1>1. \A t \in Requests : tx'[t].at = "idle"
  BY DEF MayOpen
<1> QED BY <1>1 DEF FoundOpen, Inside, LocksExclude, SeenIsOpen, PendingFirst

\* The properties in terms of values.
LEMMA Conserved ==
    /\ WalletConserved <=> issued = Value(credits, Open)
                             + Value(credits, WithStatus("pending_cashout"))
                             + applied + paidOut
    /\ WalletConserved' <=> issued' = Value(credits', Open')
                              + Value(credits', WithStatus("pending_cashout")')
                              + applied' + paidOut'
    /\ Balance(WithStatus("pending_cashout"))
          = Value(credits, WithStatus("pending_cashout"))
    /\ Balance(WithStatus("pending_cashout"))'
          = Value(credits', WithStatus("pending_cashout")')
BY DEF WalletConserved, Balance, Value, Ids

\* A new credit is open, and issued.
LEMMA WalletGrant ==
    ASSUME WalletInv, ~OpenAnytime, uses' \in Uses, NEW a \in Nat \ {0}, Grant(a),
           UNCHANGED <<cashout, asked, applied, paidOut, tx>>
    PROVE  WalletInv'
<1>0. /\ credits \in Seq(Credit) /\ issued \in Nat /\ Len(credits) \in Nat
      /\ Ids \in SUBSET Nat
  BY EachCredit DEF WalletInv, TypeInv, TypeOK
<1>1. PICK c \in Credit :
        /\ c.amount = a /\ c.status = "open"
        /\ credits' = Append(credits, c) /\ issued' = issued + a /\ MayOpen
  BY DEF Grant, Credit
<1>n. PICK n \in Nat : n = Len(credits) + 1
  BY <1>0
<1>2. /\ credits' \in Seq(Credit) /\ Ids' = Ids \cup {n} /\ n \notin Ids
      /\ credits'[n] = c /\ \A i \in Ids : credits'[i] = credits[i]
  BY <1>0, <1>1, <1>n DEF Ids
<1>3. TypeInv'
  BY TypeGrant DEF WalletInv
<1>o. PICK O \in SUBSET Ids : O = Open
  BY DEF Open, WithStatus
<1>w. PICK W \in SUBSET Ids : W = WithStatus("pending_cashout")
  BY DEF WithStatus
<1>4. Open' = O \cup {n} /\ WithStatus("pending_cashout")' = W
  <2>1. \A i \in Ids' : i \in Ids \/ i = n
    BY <1>2
  <2> QED BY <1>1, <1>2, <1>o, <1>w, <2>1 DEF Open, WithStatus
<1>5. /\ Value(credits', W) = Value(credits, W)
      /\ Value(credits', O \cup {n}) = Value(credits, O) + a
      /\ Value(credits, O) \in Nat /\ Value(credits, W) \in Nat
  <2>1. ASSUME NEW A \in SUBSET Ids
        PROVE  Value(credits', A) = Value(credits, A) /\ Value(credits, A) \in Nat
    <3>1. A \in SUBSET (1..Len(credits)) /\ A \subseteq 1..Len(credits')
      BY <1>2 DEF Ids
    <3>2. \A i \in A : credits'[i].amount = credits[i].amount
      BY <1>2
    <3>3. Value(credits', A) = Value(credits, A)
      BY <1>0, <1>2, <3>1, <3>2, ValueStays
    <3>4. Value(credits, A) \in Nat
      BY <1>0, <3>1, Values
    <3> QED BY <3>3, <3>4
  <2>2. O \in SUBSET Ids' /\ {n} \in SUBSET Ids' /\ O \cap {n} = {} /\ n \in Ids'
    BY <1>2
  <2>3. /\ Value(credits', O \cup {n}) = Value(credits', O) + Value(credits', {n})
        /\ Value(credits', {n}) = credits'[n].amount
    BY <1>2, <2>2, Values DEF Ids
  <2> QED BY <1>1, <1>2, <2>1, <2>3
<1>6. OnePending'
  <2>1. Pending' = Pending /\ Pending \subseteq Cashouts
    BY DEF Pending
  <2>2. \A q \in Cashouts : LockedBy(q)' = LockedBy(q)
    <3>1. \A i \in W : credits'[i].stamp = credits[i].stamp
      BY <1>2
    <3> QED BY <1>w, <1>4, <3>1 DEF LockedBy
  <2> QED BY <1>w, <1>4, <1>5, <2>1, <2>2, Conserved DEF WalletInv, OnePending
<1>7. WalletConserved'
  <2>1. {issued, applied, paidOut} \subseteq Nat
    BY DEF WalletInv, TypeInv, TypeOK
  <2>2. issued = Value(credits, O) + Value(credits, W) + applied + paidOut
    BY <1>o, <1>w, Conserved DEF WalletInv
  <2>3. issued' = Value(credits', O \cup {n}) + Value(credits', W) + applied' + paidOut'
    BY <1>1, <1>5, <2>1, <2>2
  <2> QED BY <1>4, <2>3, Conserved
<1> QED BY <1>1, <1>3, <1>6, <1>7, NobodyAtWork DEF WalletInv

-----------------------------------------------------------------------------
\* A step that rewrites statuses in place, and what it keeps.
LEMMA TypeRewritten ==
    ASSUME WalletInv, uses' \in Uses, tx' \in [Requests -> ReqType],
           credits' = [i \in Ids |-> credits'[i]],
           \A i \in Ids : credits'[i] \in Credit,
           \A t \in Requests : tx'[t].rows \subseteq Ids /\ tx'[t].locks \subseteq Ids
                               /\ DOMAIN tx'[t].seen \subseteq Ids,
           cashout' \in [Cashouts -> {"none", "pending", "approved", "rejected"}],
           asked' \in [Cashouts -> Nat], {issued', applied', paidOut'} \subseteq Nat
    PROVE  TypeInv' /\ Ids' = Ids /\ credits' \in Seq(Credit)
<1>1. credits' \in Seq(Credit) /\ Ids' = Ids
  BY Rewritten DEF WalletInv, TypeInv, TypeOK
<1>2. \A t \in Requests : InRange(tx[t])'
  BY <1>1 DEF InRange
<1> QED BY <1>1, <1>2, TypeKept DEF WalletInv

\* Finance's answer closes the pending request and settles its credits.
LEMMA AnswerRows ==
    ASSUME WalletInv, NEW q \in Cashouts, cashout[q] = "pending",
           NEW s \in {"approved", "rejected"}, cashout' = [cashout EXCEPT ![q] = s]
    PROVE  /\ Pending = {q} /\ Pending' = {} /\ LockedBy(q) = WithStatus("pending_cashout")
           /\ asked[q] = Value(credits, WithStatus("pending_cashout"))
           /\ cashout' \in [Cashouts -> {"none", "pending", "approved", "rejected"}]
<1>1. cashout \in [Cashouts -> {"none", "pending", "approved", "rejected"}]
  BY DEF WalletInv, TypeInv, TypeOK
<1>2. Pending = {q}
  BY DEF Pending, WalletInv, OnePending
<1>3. Pending' = {}
  <2>1. \A p \in Cashouts : cashout'[p] = IF p = q THEN s ELSE cashout[p]
    BY <1>1
  <2>2. \A p \in Cashouts : cashout[p] = "pending" => p = q
    BY <1>2 DEF Pending
  <2> QED BY <2>1, <2>2 DEF Pending
<1>4. cashout' \in [Cashouts -> {"none", "pending", "approved", "rejected"}]
  BY <1>1
<1> QED BY <1>2, <1>3, <1>4, Conserved DEF WalletInv, OnePending

\* approveCashout uses up exactly what is pending, and sends it.
LEMMA WalletApprove ==
    ASSUME WalletInv, NEW q \in Cashouts, Approve(q)
    PROVE  WalletInv'
<1>0. /\ credits \in Seq(Credit) /\ uses \in Uses /\ tx \in [Requests -> ReqType]
      /\ asked \in [Cashouts -> Nat] /\ {issued, applied, paidOut} \subseteq Nat
  BY DEF WalletInv, TypeInv, TypeOK
<1>1. /\ Pending = {q} /\ Pending' = {} /\ LockedBy(q) = WithStatus("pending_cashout")
      /\ asked[q] = Value(credits, WithStatus("pending_cashout"))
      /\ cashout' \in [Cashouts -> {"none", "pending", "approved", "rejected"}]
  BY AnswerRows DEF Approve
<1>o. PICK O \in SUBSET Ids : O = Open
  BY DEF Open, WithStatus
<1>w. PICK W \in SUBSET Ids : W = WithStatus("pending_cashout")
  BY DEF WithStatus
<1>2. /\ credits' = [i \in Ids |-> IF i \in W THEN [credits[i] EXCEPT !.status = "used"]
                                   ELSE credits[i]]
      /\ paidOut' = paidOut + asked[q] /\ UNCHANGED <<asked, issued, applied, uses, tx>>
  BY <1>1, <1>w DEF Approve
<1>3. /\ credits' = [i \in Ids |-> credits'[i]]
      /\ \A i \in Ids : credits'[i] = IF i \in W THEN [credits[i] EXCEPT !.status = "used"]
                                      ELSE credits[i]
  BY <1>2
<1>4. \A i \in Ids : /\ credits'[i] \in Credit /\ credits'[i].amount = credits[i].amount
                     /\ i \notin W => credits'[i] = credits[i]
                     /\ i \in W => credits'[i].status = "used"
  <2>1. ASSUME NEW i \in Ids
        PROVE  /\ credits'[i] \in Credit /\ credits'[i].amount = credits[i].amount
               /\ i \in W => credits'[i].status = "used"
    <3>1. credits[i] \in Credit
      BY <1>0, EachCredit
    <3>2. CASE i \notin W
      BY <1>3, <3>1, <3>2
    <3>3. CASE i \in W
      <4>1. credits'[i] = [credits[i] EXCEPT !.status = "used"]
        BY <1>3, <3>3
      <4> QED BY <3>1, <4>1, Marked
    <3> QED BY <3>2, <3>3
  <2> QED BY <1>3, <2>1
<1>5. TypeInv' /\ Ids' = Ids /\ credits' \in Seq(Credit)
  <2>1. \A t \in Requests : tx'[t].rows \subseteq Ids /\ tx'[t].locks \subseteq Ids
                               /\ DOMAIN tx'[t].seen \subseteq Ids
    BY <1>2, RequestFields DEF WalletInv, InRange
  <2>2. asked' \in [Cashouts -> Nat] /\ {issued', applied', paidOut'} \subseteq Nat
    BY <1>0, <1>2
  <2> QED BY <1>0, <1>1, <1>2, <1>3, <1>4, <2>1, <2>2, TypeRewritten
<1>6. Open' = O /\ WithStatus("pending_cashout")' = {}
  BY <1>4, <1>5, <1>o, <1>w DEF Open, WithStatus
<1>7. /\ \A A \in SUBSET Ids : Value(credits', A) = Value(credits, A)
      /\ Value(credits, W) \in Nat /\ Value(credits, O) \in Nat
      /\ Value(credits', {}) = 0
  <2>1. Len(credits') = Len(credits)
    BY <1>0, <1>3, <1>4, Rewritten
  <2> QED BY <1>0, <1>4, <1>5, <2>1, SameValues DEF Ids
<1>8. WalletConserved'
  <2>1. issued = Value(credits, O) + Value(credits, W) + applied + paidOut
    BY <1>o, <1>w, Conserved DEF WalletInv
  <2>2. issued' = Value(credits', O) + Value(credits', {}) + applied' + paidOut'
    <3>1. Value(credits', O) = Value(credits, O)
      BY <1>7
    <3>2. /\ paidOut' = paidOut + Value(credits, W) /\ issued' = issued
          /\ applied' = applied
      BY <1>1, <1>2, <1>w
    <3>3. /\ Value(credits, W) \in Nat /\ Value(credits, O) \in Nat
          /\ Value(credits', {}) = 0
      BY <1>7
    <3> QED BY <1>0, <2>1, <3>1, <3>2, <3>3
  <2> QED BY <1>6, <2>2, Conserved
<1>9. OnePending'
  BY <1>1, <1>6 DEF OnePending
<1>10. FoundOpen' /\ LocksExclude' /\ SeenIsOpen' /\ PendingFirst'
  <2>1. \A i \in O : credits'[i].amount = credits[i].amount
    BY <1>4
  <2> QED BY <1>1, <1>2, <1>o, <1>6, <2>1
          DEF WalletInv, FoundOpen, NobodyDone, Inside, LocksExclude, SeenIsOpen,
              PendingFirst
<1> QED BY <1>5, <1>8, <1>9, <1>10 DEF WalletInv

\* rejectCashout opens exactly what is pending.
LEMMA WalletReject ==
    ASSUME WalletInv, ~OpenAnytime, NEW q \in Cashouts, Reject(q)
    PROVE  WalletInv'
<1>0. /\ credits \in Seq(Credit) /\ uses \in Uses /\ tx \in [Requests -> ReqType]
      /\ asked \in [Cashouts -> Nat] /\ {issued, applied, paidOut} \subseteq Nat
  BY DEF WalletInv, TypeInv, TypeOK
<1>1. /\ Pending = {q} /\ Pending' = {} /\ LockedBy(q) = WithStatus("pending_cashout")
      /\ cashout' \in [Cashouts -> {"none", "pending", "approved", "rejected"}]
  BY AnswerRows DEF Reject
<1>o. PICK O \in SUBSET Ids : O = Open
  BY DEF Open, WithStatus
<1>w. PICK W \in SUBSET Ids : W = WithStatus("pending_cashout")
  BY DEF WithStatus
<1>2. /\ credits' = [i \in Ids |-> IF i \in W
                                   THEN [credits[i] EXCEPT
                                           !.status = "open",
                                           !.stamp = IF @ = q THEN None ELSE @]
                                   ELSE credits[i]]
      /\ UNCHANGED <<asked, issued, applied, paidOut, uses, tx>> /\ MayOpen
  BY <1>1, <1>w DEF Reject, sums
<1>3. /\ credits' = [i \in Ids |-> credits'[i]]
      /\ \A i \in Ids : credits'[i] = IF i \in W
                                   THEN [credits[i] EXCEPT
                                           !.status = "open",
                                           !.stamp = IF @ = q THEN None ELSE @]
                                   ELSE credits[i]
  BY <1>2
<1>4. \A i \in Ids : /\ credits'[i] \in Credit /\ credits'[i].amount = credits[i].amount
                     /\ i \notin W => credits'[i] = credits[i]
                     /\ i \in W => credits'[i].status = "open"
  <2>1. ASSUME NEW i \in Ids, i \in W
        PROVE  /\ credits'[i] \in Credit /\ credits'[i].amount = credits[i].amount
               /\ credits'[i].status = "open"
    <3>1. credits[i] \in Credit
      BY <1>0, EachCredit
    <3>2. PICK p : p = IF credits[i].stamp = q THEN None ELSE credits[i].stamp
      OBVIOUS
    <3>3. p \in Cashouts \cup {None}
      BY <3>1, <3>2, CreditWritten
    <3>4. credits'[i] = [credits[i] EXCEPT !.status = "open", !.stamp = p]
      BY <1>3, <2>1, <3>1, <3>2 DEF Credit
    <3> QED BY <3>1, <3>3, <3>4, Stamped
  <2> QED BY <1>0, <1>3, <2>1, EachCredit
<1>5. TypeInv' /\ Ids' = Ids /\ credits' \in Seq(Credit)
  <2>1. \A t \in Requests : tx'[t].rows \subseteq Ids /\ tx'[t].locks \subseteq Ids
                               /\ DOMAIN tx'[t].seen \subseteq Ids
    BY <1>2, RequestFields DEF WalletInv, InRange
  <2>2. asked' \in [Cashouts -> Nat] /\ {issued', applied', paidOut'} \subseteq Nat
    BY <1>0, <1>2
  <2> QED BY <1>0, <1>1, <1>2, <1>3, <1>4, <2>1, <2>2, TypeRewritten
<1>6. Open' = O \cup W /\ WithStatus("pending_cashout")' = {} /\ O \cap W = {}
  BY <1>4, <1>5, <1>o, <1>w DEF Open, WithStatus
<1>7. /\ \A A \in SUBSET Ids : Value(credits', A) = Value(credits, A)
      /\ Value(credits, W) \in Nat /\ Value(credits, O) \in Nat
      /\ Value(credits', {}) = 0
      /\ Value(credits, O \cup W) = Value(credits, O) + Value(credits, W)
  <2>1. Len(credits') = Len(credits)
    BY <1>0, <1>3, <1>4, Rewritten
  <2> QED BY <1>0, <1>4, <1>5, <1>6, <2>1, SameValues DEF Ids
<1>8. WalletConserved'
  <2>1. issued = Value(credits, O) + Value(credits, W) + applied + paidOut
    BY <1>o, <1>w, Conserved DEF WalletInv
  <2>2. Value(credits', O \cup W) = Value(credits, O) + Value(credits, W)
    <3>1. O \cup W \in SUBSET Ids
      OBVIOUS
    <3> QED BY <1>7, <3>1
  <2>3. issued' = Value(credits', O \cup W) + Value(credits', {}) + applied' + paidOut'
    <3>1. /\ Value(credits, W) \in Nat /\ Value(credits, O) \in Nat
          /\ Value(credits', {}) = 0
      BY <1>7
    <3>2. issued' = issued /\ applied' = applied /\ paidOut' = paidOut
      BY <1>2
    <3> QED BY <1>0, <2>1, <2>2, <3>1, <3>2
  <2> QED BY <1>6, <2>3, Conserved
<1>9. OnePending'
  BY <1>1, <1>6 DEF OnePending
<1> QED BY <1>2, <1>5, <1>8, <1>9, NobodyAtWork DEF WalletInv

-----------------------------------------------------------------------------
\* What a checkout spends is open, and it splits one credit at most.
LEMMA SpentAre ==
    ASSUME WalletInv, NEW t \in Requests, tx[t].at = "read"
    PROVE  /\ Spent(t) \in SUBSET Open /\ Split(t) \in SUBSET Spent(t)
           /\ \A i \in Open : /\ Take(t, i) \in Nat /\ Take(t, i) <= credits[i].amount
                              /\ tx[t].seen[i] = credits[i].amount
           /\ \A i \in Spent(t) : /\ Take(t, i) \in Nat \ {0}
                                  /\ i \in Split(t) <=> Take(t, i) < credits[i].amount
           /\ \A i, k \in Split(t) : i = k
<1>1. PICK s : s = tx[t].seen
  OBVIOUS
<1>2. DOMAIN s = Open /\ \A i \in Open : s[i] = credits[i].amount
  BY <1>1 DEF WalletInv, SeenIsOpen
<1>3. /\ credits \in Seq(Credit) /\ tx[t].cap \in Nat
      /\ Open \in SUBSET Ids
  BY DEF WalletInv, TypeInv, TypeOK, Open, WithStatus
<1>4. /\ IsFiniteSet(DOMAIN s) /\ DOMAIN s \in SUBSET Nat
      /\ \A i \in DOMAIN s : s[i] \in Nat
  BY <1>2, <1>3, EachCredit, FS_Subset
<1>5. \A i \in DOMAIN s :
        /\ Take(t, i) \in Nat /\ Take(t, i) <= s[i]
        /\ Take(t, i) < s[i] => \A j \in DOMAIN s : i < j => Take(t, j) = 0
  BY <1>1, <1>3, <1>4, TakeIs
<1>6. /\ Spent(t) = {i \in Open : Take(t, i) > 0}
      /\ Split(t) = {i \in Spent(t) : Take(t, i) < s[i]}
  BY <1>1, <1>2 DEF Spent, Split
<1>7. \A i \in Spent(t) : i \in Open /\ Take(t, i) \in Nat \ {0}
  BY <1>2, <1>5, <1>6
<1>8. ASSUME NEW i \in Split(t), NEW k \in Split(t) PROVE i = k
  <2>1. i \in DOMAIN s /\ k \in DOMAIN s /\ i \in Nat /\ k \in Nat
    BY <1>2, <1>4, <1>6
  <2>2. ~(i < k) /\ ~(k < i)
    BY <1>5, <1>6, <1>7, <2>1
  <2> QED BY <2>1, <2>2
<1> QED BY <1>1, <1>2, <1>5, <1>6, <1>7, <1>8

\* Credits spent whole: what they were worth has gone from the open ones.
SpentWhole(c, d, O, S, T) ==
    /\ c \in Seq(Credit) /\ d \in Seq(Credit) /\ Len(d) = Len(c)
    /\ \A i \in 1..Len(c) : d[i].amount = c[i].amount
    /\ O \in SUBSET (1..Len(c)) /\ S \in SUBSET O
    /\ \A i \in S : T[i] = c[i].amount

\* Spending credits whole takes exactly their sum out of what is open.
LEMMA SpendWhole ==
    ASSUME NEW c, NEW d, NEW O, NEW S, NEW T, SpentWhole(c, d, O, S, T)
    PROVE  /\ SumFunctionOnSet(T, S) \in Nat
           /\ Value(c, O) = Value(d, O \ S) + SumFunctionOnSet(T, S)
<1>0. /\ c \in Seq(Credit) /\ d \in Seq(Credit) /\ Len(d) = Len(c)
      /\ O \in SUBSET (1..Len(c)) /\ S \in SUBSET O
  BY DEF SpentWhole
<1> DEFINE f == [i \in 1..Len(c) |-> c[i].amount]
<1>1. S \in SUBSET (1..Len(c)) /\ O \ S \in SUBSET (1..Len(c)) /\ S \subseteq O
  BY <1>0
<1>2. IsFiniteSet(S)
  BY <1>0, <1>1, Values
<1>3. \A i \in S : f[i] \in Int /\ f[i] = T[i]
  <2>1. \A i \in S : T[i] = c[i].amount
    BY DEF SpentWhole
  <2> QED BY <1>0, <1>1, <2>1, CreditsOf
<1>4. Value(c, S) = SumFunctionOnSet(f, S)
  BY DEF Value
<1> HIDE DEF f
<1>5. Value(c, S) = SumFunctionOnSet(T, S)
  BY <1>2, <1>3, <1>4, SumSame
<1>6. Value(c, O) = Value(c, O \ S) + Value(c, S) /\ Value(c, S) \in Nat
  BY <1>0, <1>1, ValueParts
<1>7. Value(d, O \ S) = Value(c, O \ S)
  <2>1. PICK R : R = O \ S
    OBVIOUS
  <2>2. R \in SUBSET (1..Len(c)) /\ \A i \in 1..Len(c) : d[i].amount = c[i].amount
    BY <1>1, <2>1 DEF SpentWhole
  <2>3. Value(d, R) = Value(c, R)
    BY <1>0, <2>2, SameValues
  <2> QED BY <2>1, <2>3
<1> QED BY <1>5, <1>6, <1>7

\* A split: the rest of the credit k stays open as the new credit n.
SplitInto(c, d, n, O, S, k, T) ==
    /\ c \in Seq(Credit) /\ d \in Seq(Credit) /\ n = Len(c) + 1 /\ Len(d) = n
    /\ O \in SUBSET (1..Len(c)) /\ S \in SUBSET O /\ k \in S
    /\ \A i \in S : T[i] \in Nat
    /\ \A i \in S \ {k} : T[i] = c[i].amount
    /\ \A i \in O \ S : d[i].amount = c[i].amount
    /\ T[k] <= c[k].amount /\ d[n].amount = c[k].amount - T[k]

\* Spending all of a few credits and splitting the last takes exactly what was asked for.
LEMMA SpendSplit ==
    ASSUME NEW c, NEW d, NEW n, NEW O, NEW S, NEW k, NEW T,
           SplitInto(c, d, n, O, S, k, T)
    PROVE  /\ SumFunctionOnSet(T, S) \in Nat
           /\ Value(c, O) = Value(d, (O \ S) \cup {n}) + SumFunctionOnSet(T, S)
<1>0. /\ c \in Seq(Credit) /\ d \in Seq(Credit) /\ n = Len(c) + 1 /\ Len(d) = n
      /\ O \in SUBSET (1..Len(c)) /\ S \in SUBSET O /\ k \in S
  BY DEF SplitInto
<1>t. \A i \in S : T[i] \in Nat
  BY DEF SplitInto
<1> DEFINE f == [i \in 1..Len(c) |-> c[i].amount]
<1>r. PICK R : R = O \ S
  OBVIOUS
<1>1. /\ R \in SUBSET (1..Len(c)) /\ S \in SUBSET (1..Len(c))
      /\ R = O \ S /\ R \cap S = {} /\ R \cup S = O
  BY <1>0, <1>r
<1>q. PICK Q : Q = S \ {k}
  OBVIOUS
<1>2. /\ Q \in SUBSET (1..Len(c)) /\ {k} \in SUBSET (1..Len(c)) /\ k \in 1..Len(c)
      /\ Q = S \ {k} /\ Q \cap {k} = {} /\ Q \cup {k} = S /\ k \notin Q
  BY <1>0, <1>1, <1>q
<1>3. IsFiniteSet(Q) /\ IsFiniteSet(S) /\ Len(c) \in Nat
  <2>1. \A A \in SUBSET (1..Len(c)) : IsFiniteSet(A)
    BY <1>0, Values
  <2>2. Len(c) \in Nat
    BY <1>0
  <2> QED BY <1>1, <1>2, <2>1, <2>2, Zenon
<1>4. \A i \in Q : f[i] \in Int /\ f[i] = T[i]
  <2>1. \A i \in Q : T[i] = c[i].amount
    BY <1>q DEF SplitInto
  <2> QED BY <1>0, <1>2, <2>1, CreditsOf
<1>5. Value(c, Q) = SumFunctionOnSet(f, Q)
  BY DEF Value
<1> HIDE DEF f
<1>6. /\ SumFunctionOnSet(T, S) = T[k] + Value(c, Q)
      /\ SumFunctionOnSet(T, S) \in Nat
  <2>1. /\ k \in S /\ Q = S \ {k} /\ IsFiniteSet(S)
        /\ (\A y \in S : T[y] \in Nat) /\ (\A y \in Q : T[y] = f[y] /\ f[y] \in Int)
    BY <1>0, <1>t, <1>q, <1>3, <1>4
  <2>2. /\ SumFunctionOnSet(T, S) = T[k] + SumFunctionOnSet(f, Q)
        /\ SumFunctionOnSet(T, S) \in Nat
    BY <2>1, SumBut
  <2> QED BY <1>5, <2>2
<1>8. /\ Value(c, O) = Value(c, R) + Value(c, S)
      /\ Value(c, S) = Value(c, Q) + c[k].amount
      /\ Value(c, R) \in Nat /\ c[k].amount \in Nat /\ Value(c, Q) \in Nat
  <2>1. Value(c, O) = Value(c, O \ S) + Value(c, S) /\ Value(c, O \ S) \in Nat
    BY <1>0, ValueParts
  <2>2. Value(c, S) = Value(c, S \ {k}) + Value(c, {k}) /\ Value(c, S \ {k}) \in Nat
    <3>1. {k} \subseteq S
      BY <1>0
    <3> QED BY <1>0, <1>1, <3>1, ValueParts
  <2>3. Value(c, {k}) = c[k].amount /\ c[k].amount \in Nat
    BY <1>0, <1>2, ValueOne
  <2> QED BY <1>r, <1>q, <2>1, <2>2, <2>3
<1>9. Value(d, R \cup {n}) = Value(c, R) + d[n].amount
  <2>1. /\ R \in SUBSET (1..Len(d)) /\ {n} \in SUBSET (1..Len(d)) /\ n \in 1..Len(d)
        /\ R \cap {n} = {}
    BY <1>0, <1>1, <1>3
  <2>2. Value(d, R) = Value(c, R)
    <3>1. \A i \in R : d[i].amount = c[i].amount
      BY <1>r DEF SplitInto
    <3> QED BY <1>0, <1>1, <2>1, <3>1, ValueStays
  <2>3. Value(d, R \cup {n}) = Value(d, R) + Value(d, {n})
    BY <1>0, <2>1, Values
  <2>4. Value(d, {n}) = d[n].amount
    BY <1>0, <2>1, ValueOne
  <2> QED BY <2>2, <2>3, <2>4
<1>10. T[k] \in Nat
  BY <1>0, <1>t
<1>11. d[n].amount = c[k].amount - T[k]
  BY DEF SplitInto
<1> QED BY <1>r, <1>6, <1>8, <1>9, <1>10, <1>11

\* The rows a checkout updates.
LEMMA UsedAre ==
    ASSUME WalletInv, NEW t \in Requests, tx[t].at = "read"
    PROVE  /\ Used(t) \in Seq(Credit) /\ Len(Used(t)) = Len(credits)
           /\ \A i \in Ids :
                /\ i \notin Spent(t) => Used(t)[i] = credits[i]
                /\ i \in Spent(t) => Used(t)[i].status = "used"
                /\ i \notin Split(t) => Used(t)[i].amount = credits[i].amount
<1>1. /\ credits \in Seq(Credit) /\ Open \in SUBSET Ids
  BY DEF WalletInv, TypeInv, TypeOK, Open, WithStatus
<1>2. PICK n \in Nat : n = Len(credits) /\ Ids = 1..n
  BY <1>1 DEF Ids
<1>3. /\ Spent(t) \in SUBSET Open /\ Split(t) \in SUBSET Spent(t)
      /\ \A i \in Spent(t) : Take(t, i) \in Nat \ {0}
  BY SpentAre
<1>4. /\ Used(t) = [i \in 1..n |-> Used(t)[i]]
      /\ \A i \in 1..n :
           Used(t)[i] = IF i \in Split(t)
                          THEN [credits[i] EXCEPT !.status = "used", !.amount = Take(t, i)]
                        ELSE IF i \in Spent(t) THEN [credits[i] EXCEPT !.status = "used"]
                        ELSE credits[i]
  BY <1>2 DEF Used
<1>5. ASSUME NEW i \in 1..n
      PROVE  /\ Used(t)[i] \in Credit
             /\ i \notin Spent(t) => Used(t)[i] = credits[i]
             /\ i \in Spent(t) => Used(t)[i].status = "used"
             /\ i \notin Split(t) => Used(t)[i].amount = credits[i].amount
  <2>1. credits[i] \in Credit
    BY <1>1, <1>2, EachCredit
  <2>2. CASE i \in Split(t)
    <3>1. PICK a \in Nat \ {0} : a = Take(t, i)
      BY <1>3, <2>2
    <3>2. Used(t)[i] = [credits[i] EXCEPT !.status = "used", !.amount = a]
      BY <1>4, <2>2, <3>1
    <3>3. Used(t)[i] \in Credit /\ Used(t)[i].status = "used"
      BY <2>1, <3>2 DEF Credit
    <3> QED BY <1>3, <2>2, <3>3
  <2>3. CASE i \in Spent(t) \ Split(t)
    <3>1. Used(t)[i] = [credits[i] EXCEPT !.status = "used"]
      BY <1>4, <2>3
    <3>2. /\ Used(t)[i] \in Credit /\ Used(t)[i].status = "used"
          /\ Used(t)[i].amount = credits[i].amount
      BY <2>1, <3>1, Marked
    <3> QED BY <2>3, <3>2
  <2>4. CASE i \notin Spent(t)
    <3>1. Used(t)[i] = credits[i]
      BY <1>3, <1>4, <2>4
    <3> QED BY <2>1, <2>4, <3>1
  <2> QED BY <2>2, <2>3, <2>4
<1>6. Used(t) \in Seq(Credit) /\ Len(Used(t)) = n
  <2>1. PICK U : U = Used(t)
    OBVIOUS
  <2>2. U = [i \in 1..n |-> U[i]] /\ \A i \in 1..n : U[i] \in Credit
    BY <1>4, <1>5, <2>1
  <2>3. U \in [1..n -> Credit]
    BY <2>2
  <2>4. U \in Seq(Credit) /\ Len(U) = n
    BY <2>3
  <2> QED BY <2>1, <2>4
<1> QED BY <1>2, <1>5, <1>6

\* A checkout that splits no credit.
LEMMA CheckoutWhole ==
    ASSUME WalletInv, NEW t \in Requests, CheckoutCommit(t), Split(t) = {}
    PROVE  /\ credits' \in Seq(Credit) /\ Ids \subseteq Ids' /\ applied' \in Nat
           /\ Value(credits, Open) + applied = Value(credits', Open') + applied'
           /\ WithStatus("pending_cashout")' = WithStatus("pending_cashout")
           /\ \A i \in WithStatus("pending_cashout") : credits'[i] = credits[i]
           /\ Open = {} => Open' = {}
<1>0. /\ credits \in Seq(Credit) /\ applied \in Nat /\ tx[t].at = "read"
  BY DEF WalletInv, TypeInv, TypeOK, CheckoutCommit
<1>1. PICK S : S = Spent(t)
  OBVIOUS
<1>o. PICK O \in SUBSET Ids : O = Open
  BY DEF Open, WithStatus
<1>w. PICK W \in SUBSET Ids : W = WithStatus("pending_cashout") /\ W \cap O = {}
  <2>1. WithStatus("pending_cashout") \in SUBSET Ids
    BY DEF WithStatus
  <2>2. WithStatus("pending_cashout") \cap Open = {}
    BY DEF Open, WithStatus
  <2> QED BY <1>o, <2>1, <2>2
<1>2. /\ S \in SUBSET O /\ \A i \in S : Take(t, i) = credits[i].amount
  <2>1. \A i \in S : /\ Take(t, i) \in Nat /\ Take(t, i) <= credits[i].amount
                     /\ ~(Take(t, i) < credits[i].amount) /\ credits[i].amount \in Nat
    <3>1. /\ Spent(t) \in SUBSET Open
          /\ \A i \in Open : Take(t, i) \in Nat /\ Take(t, i) <= credits[i].amount
          /\ \A i \in Spent(t) : i \in Split(t) <=> Take(t, i) < credits[i].amount
      BY <1>0, SpentAre
    <3>2. \A i \in Open : credits[i].amount \in Nat
      BY <1>0, EachCredit DEF Open, WithStatus
    <3> QED BY <1>1, <3>1, <3>2
  <2>2. S \in SUBSET O
    BY <1>0, <1>1, <1>o, SpentAre
  <2> QED BY <2>1, <2>2
<1>T. PICK T : T = [i \in S |-> Take(t, i)]
  OBVIOUS
<1>3. \A i \in S : T[i] = credits[i].amount
  BY <1>2, <1>T
<1>4. /\ credits' \in Seq(Credit) /\ Len(credits') = Len(credits)
      /\ \A i \in Ids : /\ i \notin S => credits'[i] = credits[i]
                        /\ i \in S => credits'[i].status = "used"
                        /\ credits'[i].amount = credits[i].amount
  <2>1. /\ Used(t) \in Seq(Credit) /\ Len(Used(t)) = Len(credits)
        /\ \A i \in Ids : /\ i \notin S => Used(t)[i] = credits[i]
                          /\ i \in S => Used(t)[i].status = "used"
                          /\ Used(t)[i].amount = credits[i].amount
    BY <1>0, <1>1, UsedAre
  <2>2. credits' = Used(t) \o <<>>
    BY DEF CheckoutCommit, Remainder
  <2>3. \A u \in Seq(Credit) : u \o <<>> = u
    OBVIOUS
  <2>4. credits' = Used(t)
    BY <2>1, <2>2, <2>3
  <2> QED BY <2>1, <2>4
<1>5. Ids' = Ids
  BY <1>4 DEF Ids
<1>6. Open' = O \ S
  BY <1>2, <1>4, <1>5, <1>o DEF Open, WithStatus
<1>7. WithStatus("pending_cashout")' = W
  <2>1. \A i \in Ids : credits'[i].status = "pending_cashout"
                          <=> credits[i].status = "pending_cashout"
    <3>1. \A i \in S : credits[i].status = "open"
      BY <1>2, <1>o DEF Open, WithStatus
    <3> QED BY <1>4, <3>1
  <2> QED BY <1>5, <1>w, <2>1 DEF WithStatus
<1>8. /\ SumFunctionOnSet(T, S) \in Nat
      /\ Value(credits, O) = Value(credits', O \ S) + SumFunctionOnSet(T, S)
  <2>1. /\ \A i \in 1..Len(credits) : credits'[i].amount = credits[i].amount
        /\ O \in SUBSET (1..Len(credits)) /\ Len(credits') = Len(credits)
        /\ credits \in Seq(Credit) /\ credits' \in Seq(Credit)
    BY <1>0, <1>4 DEF Ids
  <2>2. S \in SUBSET O
    BY <1>2
  <2>3. SpentWhole(credits, credits', O, S, T)
    BY <1>3, <2>1, <2>2 DEF SpentWhole
  <2> QED BY <2>3, SpendWhole
<1>9. applied' = applied + SumFunctionOnSet(T, S)
  BY <1>1, <1>T DEF CheckoutCommit
<1>10. Value(credits', O \ S) \in Nat
  <2>1. O \ S \in SUBSET (1..Len(credits'))
    BY <1>4 DEF Ids
  <2> QED BY <1>4, <2>1, Values
<1>11. /\ Value(credits, Open) + applied = Value(credits', Open') + applied'
       /\ applied' \in Nat
  BY <1>0, <1>o, <1>6, <1>8, <1>9, <1>10
<1>12. \A i \in W : credits'[i] = credits[i]
  BY <1>2, <1>4, <1>w
<1> QED BY <1>4, <1>5, <1>6, <1>7, <1>11, <1>12, <1>o, <1>w

\* A checkout that splits a credit.
LEMMA CheckoutSplit ==
    ASSUME WalletInv, NEW t \in Requests, CheckoutCommit(t), Split(t) # {}
    PROVE  /\ credits' \in Seq(Credit) /\ Ids \subseteq Ids' /\ applied' \in Nat
           /\ Value(credits, Open) + applied = Value(credits', Open') + applied'
           /\ WithStatus("pending_cashout")' = WithStatus("pending_cashout")
           /\ \A i \in WithStatus("pending_cashout") : credits'[i] = credits[i]
           /\ Open = {} => Open' = {}
<1>0. /\ credits \in Seq(Credit) /\ applied \in Nat /\ tx[t].at = "read"
      /\ Len(credits) \in Nat
  BY DEF WalletInv, TypeInv, TypeOK, CheckoutCommit
<1>1. PICK S : S = Spent(t)
  OBVIOUS
<1>o. PICK O \in SUBSET Ids : O = Open
  BY DEF Open, WithStatus
<1>w. PICK W \in SUBSET Ids : W = WithStatus("pending_cashout")
  BY DEF WithStatus
<1>wo. W \cap O = {}
  BY <1>o, <1>w DEF Open, WithStatus
<1>k. PICK k : k = CHOOSE j \in Split(t) : TRUE
  OBVIOUS
<1>2. /\ S \in SUBSET O /\ k \in S /\ k \in Ids
      /\ \A i \in S : Take(t, i) \in Nat \ {0}
      /\ \A i \in S \ {k} : i \notin Split(t) /\ Take(t, i) = credits[i].amount
      /\ Take(t, k) < credits[k].amount /\ tx[t].seen[k] = credits[k].amount
      /\ credits[k].amount \in Nat
  <2>1. /\ Spent(t) \in SUBSET Open /\ Split(t) \in SUBSET Spent(t)
        /\ \A i \in Open : /\ Take(t, i) \in Nat /\ Take(t, i) <= credits[i].amount
                           /\ tx[t].seen[i] = credits[i].amount
        /\ \A i \in Spent(t) : /\ Take(t, i) \in Nat \ {0}
                               /\ i \in Split(t) <=> Take(t, i) < credits[i].amount
        /\ \A i, j \in Split(t) : i = j
    BY <1>0, SpentAre
  <2>2. \A i \in Open : credits[i].amount \in Nat
    BY <1>0, EachCredit DEF Open, WithStatus
  <2>3. k \in Split(t)
    BY <1>k
  <2>4. \A i \in S \ {k} : i \notin Split(t)
    BY <2>1, <2>3
  <2>5. \A i \in S \ {k} : Take(t, i) = credits[i].amount
    BY <1>1, <2>1, <2>2, <2>4
  <2>6. k \in S /\ k \in O /\ k \in Ids
    BY <1>1, <1>o, <2>1, <2>3
  <2> QED BY <1>1, <1>o, <2>1, <2>2, <2>3, <2>4, <2>5, <2>6
<1>3. PICK a \in Nat : a = credits[k].amount - Take(t, k) /\ a # 0
  BY <1>2
<1>c. PICK c : c = [amount |-> a, status |-> "open", stamp |-> None]
  OBVIOUS
<1>4. c.amount = a /\ c.status = "open" /\ c \in Credit
  BY <1>3, <1>c DEF Credit
<1>n. PICK n \in Nat : n = Len(credits) + 1
  BY <1>0
<1>T. PICK T : T = [i \in S |-> Take(t, i)]
  OBVIOUS
<1>5. /\ Used(t) \in Seq(Credit) /\ Len(Used(t)) = Len(credits)
      /\ \A i \in Ids : /\ i \notin S => Used(t)[i] = credits[i]
                        /\ i \in S => Used(t)[i].status = "used"
                        /\ i \notin Split(t) => Used(t)[i].amount = credits[i].amount
  BY <1>0, <1>1, UsedAre
<1>6. credits' = Append(Used(t), c)
  <2>1. Remainder(t) = <<c>>
    BY <1>2, <1>3, <1>c, <1>k DEF Remainder
  <2>2. credits' = Used(t) \o <<c>>
    BY <2>1 DEF CheckoutCommit
  <2>3. \A u \in Seq(Credit) : u \o <<c>> = Append(u, c)
    OBVIOUS
  <2> QED BY <1>5, <2>2, <2>3
<1>7. /\ credits' \in Seq(Credit) /\ Len(credits') = n /\ credits'[n] = c
      /\ \A i \in 1..Len(credits) : credits'[i] = Used(t)[i]
  <2>1. PICK U \in Seq(Credit) : U = Used(t) /\ Len(U) = Len(credits)
    BY <1>5
  <2>2. credits' = Append(U, c) /\ c \in Credit
    BY <1>4, <1>6, <2>1
  <2>3. /\ credits' \in Seq(Credit) /\ Len(credits') = n /\ credits'[n] = c
        /\ \A i \in 1..Len(credits) : credits'[i] = U[i]
    BY <1>n, <2>1, <2>2
  <2> QED BY <2>1, <2>3
<1>8. Ids' = Ids \cup {n} /\ n \notin Ids
  BY <1>0, <1>n, <1>7 DEF Ids
<1>9. \A i \in Ids : /\ i \notin S => credits'[i] = credits[i]
                     /\ i \in S => credits'[i].status = "used"
  BY <1>5, <1>7 DEF Ids
<1>10. Open' = (O \ S) \cup {n}
  <2>1. \A i \in Ids' : i \in Ids \/ i = n
    BY <1>8
  <2> QED BY <1>2, <1>4, <1>7, <1>8, <1>9, <1>o, <2>1 DEF Open, WithStatus
<1>11. WithStatus("pending_cashout")' = W
  <2>1. \A i \in Ids : credits'[i].status = "pending_cashout"
                          <=> credits[i].status = "pending_cashout"
    <3>1. \A i \in S : credits[i].status = "open"
      BY <1>2, <1>o DEF Open, WithStatus
    <3> QED BY <1>9, <3>1
  <2>2. credits'[n].status # "pending_cashout"
    BY <1>4, <1>7
  <2> QED BY <1>8, <1>w, <2>1, <2>2 DEF WithStatus
<1>12. /\ SumFunctionOnSet(T, S) \in Nat
       /\ Value(credits, O) = Value(credits', (O \ S) \cup {n}) + SumFunctionOnSet(T, S)
  <2>1. \A i \in S : T[i] = Take(t, i)
    BY <1>T
  <2>2. /\ \A i \in S : T[i] \in Nat
        /\ \A i \in S \ {k} : T[i] = credits[i].amount
        /\ T[k] <= credits[k].amount
    BY <1>2, <2>1
  <2>3. credits'[n].amount = credits[k].amount - T[k]
    BY <1>2, <1>3, <1>4, <1>7, <2>1
  <2>4. \A i \in O \ S : credits'[i].amount = credits[i].amount
    BY <1>9
  <2>5. O \in SUBSET (1..Len(credits)) /\ S \in SUBSET O /\ k \in S
    BY <1>2 DEF Ids
  <2>6. SplitInto(credits, credits', n, O, S, k, T)
    BY <1>0, <1>n, <1>7, <2>2, <2>3, <2>4, <2>5 DEF SplitInto
  <2> QED BY <2>6, SpendSplit
<1>13. applied' = applied + SumFunctionOnSet(T, S)
  BY <1>1, <1>T DEF CheckoutCommit
<1>14. Value(credits', Open') \in Nat
  <2>1. Open' \in SUBSET (1..Len(credits'))
    BY <1>8, <1>10 DEF Ids
  <2> QED BY <1>7, <2>1, Values
<1>15. /\ Value(credits, Open) + applied = Value(credits', Open') + applied'
       /\ applied' \in Nat
  BY <1>0, <1>o, <1>10, <1>12, <1>13, <1>14
<1>16. \A i \in W : credits'[i] = credits[i]
  BY <1>2, <1>9, <1>wo
<1>17. Open # {}
  BY <1>2, <1>o
<1> QED BY <1>7, <1>8, <1>11, <1>15, <1>16, <1>17, <1>w

\* The commit of a checkout: what it takes from the open credits is what the
\* invoice counts as paid.
LEMMA WalletCheckout ==
    ASSUME WalletInv, TwoAtMost, uses' \in Uses, NEW t \in Requests, CheckoutCommit(t)
    PROVE  WalletInv'
<1>0. /\ credits \in Seq(Credit) /\ tx \in [Requests -> ReqType]
      /\ {issued, applied, paidOut} \subseteq Nat /\ tx[t].at = "read"
      /\ UNCHANGED <<cashout, asked, issued, paidOut>>
      /\ cashout \in [Cashouts -> {"none", "pending", "approved", "rejected"}]
      /\ asked \in [Cashouts -> Nat]
  BY DEF WalletInv, TypeInv, TypeOK, CheckoutCommit
<1>w. PICK W \in SUBSET Ids : W = WithStatus("pending_cashout")
  BY DEF WithStatus
<1>1. /\ credits' \in Seq(Credit) /\ Ids \subseteq Ids' /\ applied' \in Nat
      /\ Value(credits, Open) + applied = Value(credits', Open') + applied'
      /\ WithStatus("pending_cashout")' = W
      /\ \A i \in W : credits'[i] = credits[i]
      /\ Open = {} => Open' = {}
  BY <1>w, CheckoutWhole, CheckoutSplit
<1>2. PICK r : /\ r = [Idle EXCEPT !.at = "done"]
               /\ r \in ReqType /\ InRange(r) /\ r.at = "done" /\ r.op = r.op
  BY IdleType DEF InRange
<1>3. /\ tx' \in [Requests -> ReqType] /\ tx'[t] = r
      /\ \A u \in Requests : u # t => tx'[u] = tx[u]
  <2>1. tx' = [tx EXCEPT ![t] = r]
    BY <1>2 DEF CheckoutCommit, Finish
  <2> QED BY <1>2, <2>1, OneRequest DEF WalletInv
<1>4. TypeInv'
  BY TypeCheckout DEF WalletInv
<1>5. FoundOpen' /\ LocksExclude'
  <2>1. tx'[t].at = "done"
    BY <1>2, <1>3
  <2> QED BY <2>1 DEF FoundOpen, NobodyDone, LocksExclude, Inside, TwoAtMost
<1>6. SeenIsOpen'
  <2>1. SUFFICES ASSUME NEW u \in Requests, tx'[u].at \in {"read", "moving"}
                 PROVE  /\ DOMAIN tx'[u].seen = Open'
                        /\ \A i \in Open' : tx'[u].seen[i] = credits'[i].amount
                        /\ tx'[u].at = "moving" => /\ tx'[u].op = "cashout"
                                                  /\ tx'[u].rows = Open' /\ Open' # {}
    BY DEF SeenIsOpen
  <2>2. u # t /\ tx'[u] = tx[u]
    BY <1>2, <1>3, <2>1
  <2>3. Open = {} /\ Open' = {}
    BY <1>0, <1>1, <2>1, <2>2 DEF WalletInv, LocksExclude, Inside
  <2> QED BY <2>1, <2>2, <2>3 DEF WalletInv, SeenIsOpen
<1>7. Pending' = Pending /\ Pending \subseteq Cashouts
  BY <1>0 DEF Pending
<1>8. PendingFirst'
  <2>1. SUFFICES ASSUME NEW u \in Requests, tx'[u].op = "cashout",
                        tx'[u].at \notin {"idle", "done"}, Pending' # {}
                 PROVE  Open' = {}
    BY DEF PendingFirst
  <2>2. u # t /\ tx'[u] = tx[u]
    BY <1>2, <1>3, <2>1
  <2> QED BY <1>1, <1>7, <2>1, <2>2 DEF WalletInv, PendingFirst
<1>9. Value(credits', W) = Value(credits, W)
  <2>1. /\ W \in SUBSET (1..Len(credits)) /\ W \subseteq 1..Len(credits')
        /\ \A i \in W : credits'[i].amount = credits[i].amount
    BY <1>1 DEF Ids
  <2> QED BY <1>0, <1>1, <2>1, ValueStays
<1>10. OnePending'
  <2>1. \A q \in Cashouts : LockedBy(q)' = LockedBy(q)
    BY <1>1, <1>w DEF LockedBy
  <2> QED BY <1>0, <1>1, <1>w, <1>7, <1>9, <2>1, Conserved DEF WalletInv, OnePending
<1>11. WalletConserved'
  <2>1. issued = Value(credits, Open) + Value(credits, W) + applied + paidOut
    BY <1>w, Conserved DEF WalletInv
  <2>2. issued' = issued /\ paidOut' = paidOut
    BY <1>0
  <2>3. /\ Value(credits, Open) \in Nat /\ Value(credits', Open') \in Nat
        /\ Value(credits, W) \in Nat
    <3>1. /\ Open \in SUBSET (1..Len(credits)) /\ Open' \in SUBSET (1..Len(credits'))
          /\ W \in SUBSET (1..Len(credits))
      BY DEF Open, WithStatus, Ids
    <3> QED BY <1>0, <1>1, <3>1, Values
  <2>4. issued' = Value(credits', Open') + Value(credits', W) + applied' + paidOut'
    <3>1. /\ {issued, applied, paidOut, applied'} \subseteq Nat
          /\ Value(credits, Open) + applied = Value(credits', Open') + applied'
      BY <1>0, <1>1
    <3> QED BY <1>9, <2>1, <2>2, <2>3, <3>1
  <2> QED BY <1>1, <2>4, Conserved
<1> QED BY <1>4, <1>5, <1>6, <1>8, <1>10, <1>11 DEF WalletInv

-----------------------------------------------------------------------------
\* The commit of a cash-out: it asks for exactly what it locks.
LEMMA WalletCashout ==
    ASSUME WalletInv, TwoAtMost, uses' \in Uses, NEW t \in Requests,
           NEW q \in Cashouts, CashoutCommit(t, q)
    PROVE  WalletInv'
<1>0. /\ credits \in Seq(Credit) /\ tx \in [Requests -> ReqType]
      /\ {issued, applied, paidOut} \subseteq Nat /\ tx[t].at = "moving"
      /\ UNCHANGED <<issued, applied, paidOut>> /\ cashout[q] = "none"
      /\ cashout \in [Cashouts -> {"none", "pending", "approved", "rejected"}]
      /\ asked \in [Cashouts -> Nat] /\ Len(credits) \in Nat
  <2>1. /\ credits \in Seq(Credit) /\ tx \in [Requests -> ReqType]
        /\ {issued, applied, paidOut} \subseteq Nat
        /\ cashout \in [Cashouts -> {"none", "pending", "approved", "rejected"}]
        /\ asked \in [Cashouts -> Nat]
    BY DEF WalletInv, TypeInv, TypeOK
  <2>2. /\ tx[t].at = "moving" /\ UNCHANGED <<issued, applied, paidOut>>
        /\ cashout[q] = "none"
    BY DEF CashoutCommit, sums
  <2>3. Len(credits) \in Nat
    BY <2>1, EachCredit
  <2> QED BY <2>1, <2>2, <2>3
<1>o. PICK O \in SUBSET Ids : O = Open
  BY DEF Open, WithStatus
<1>1. /\ tx[t].op = "cashout" /\ tx[t].rows = O /\ O # {}
      /\ DOMAIN tx[t].seen = O /\ \A i \in O : tx[t].seen[i] = credits[i].amount
  BY <1>0, <1>o DEF WalletInv, SeenIsOpen
<1>2. Pending = {} /\ WithStatus("pending_cashout") = {}
  <2>1. Pending = {}
    BY <1>0, <1>1, <1>o DEF WalletInv, PendingFirst
  <2> QED BY <2>1 DEF WalletInv, OnePending
<1>3. /\ cashout' = [cashout EXCEPT ![q] = "pending"]
      /\ asked' = [asked EXCEPT ![q] = Older(tx[t].seen, Len(credits) + 1)]
      /\ Finish(t)
      /\ credits' = [i \in Ids |-> IF i \in O
                                   THEN [credits[i] EXCEPT !.status = "pending_cashout",
                                                           !.stamp = q]
                                   ELSE credits[i]]
  BY <1>1, <1>o DEF CashoutCommit
<1>4. /\ credits' = [i \in Ids |-> credits'[i]]
      /\ \A i \in Ids : /\ i \in O => credits'[i] = [credits[i] EXCEPT
                                                       !.status = "pending_cashout",
                                                       !.stamp = q]
                        /\ i \notin O => credits'[i] = credits[i]
  BY <1>3
<1>5. \A i \in Ids : /\ credits'[i] \in Credit /\ credits'[i].amount = credits[i].amount
                     /\ i \in O => /\ credits'[i].status = "pending_cashout"
                                   /\ credits'[i].stamp = q
  <2>1. ASSUME NEW i \in Ids
        PROVE  /\ credits'[i] \in Credit /\ credits'[i].amount = credits[i].amount
               /\ i \in O => /\ credits'[i].status = "pending_cashout"
                             /\ credits'[i].stamp = q
    <3>1. credits[i] \in Credit
      BY <1>0, EachCredit
    <3>2. CASE i \in O
      <4>1. credits'[i] = [credits[i] EXCEPT !.status = "pending_cashout", !.stamp = q]
        BY <1>4, <3>2
      <4>3. /\ credits'[i] \in Credit /\ credits'[i].amount = credits[i].amount
            /\ credits'[i].status = "pending_cashout" /\ credits'[i].stamp = q
        BY <3>1, <4>1 DEF Credit
      <4> QED BY <4>3
    <3>3. CASE i \notin O
      BY <1>4, <3>1, <3>3
    <3> QED BY <3>2, <3>3
  <2> QED BY <2>1
<1>6. PICK a \in Nat : /\ a = Older(tx[t].seen, Len(credits) + 1)
                       /\ a = Value(credits, O)
  <2>1. PICK s \in Seens : s = tx[t].seen
    BY <1>0 DEF ReqType
  <2>2. PICK n \in Nat : n = Len(credits) /\ Ids = 1..n
    BY <1>0 DEF Ids
  <2>3. DOMAIN s = O /\ O \subseteq 1..n /\ \A i \in O : s[i] = credits[i].amount
    BY <1>1, <2>1, <2>2
  <2>4. /\ Older(s, n + 1) = SumFunctionOnSet(s, O) /\ Older(s, n + 1) \in Nat
        /\ IsFiniteSet(O)
    BY <2>3, OlderAll
  <2> DEFINE f == [i \in 1..Len(credits) |-> credits[i].amount]
  <2>5. \A i \in O : f[i] \in Int /\ f[i] = s[i]
    BY <1>0, <2>2, <2>3, EachCredit
  <2>6. Value(credits, O) = SumFunctionOnSet(f, O)
    BY DEF Value
  <2> HIDE DEF f
  <2>7. Value(credits, O) = SumFunctionOnSet(s, O)
    BY <2>4, <2>5, <2>6, SumSame
  <2> QED BY <2>1, <2>2, <2>4, <2>7
<1>7. PICK r : r = [Idle EXCEPT !.at = "done"]
  OBVIOUS
<1>8. r \in ReqType /\ InRange(r) /\ r.at = "done"
  BY <1>7, IdleType DEF InRange
<1>9. /\ tx' \in [Requests -> ReqType] /\ tx'[t] = r
      /\ \A u \in Requests : u # t => tx'[u] = tx[u]
  <2>1. tx' = [tx EXCEPT ![t] = r]
    BY <1>3, <1>7 DEF Finish
  <2> QED BY <1>8, <2>1, OneRequest DEF WalletInv
<1>10. TypeInv' /\ Ids' = Ids /\ credits' \in Seq(Credit) /\ Len(credits') = Len(credits)
  <2>1. \A u \in Requests : tx'[u].rows \subseteq Ids /\ tx'[u].locks \subseteq Ids
                               /\ DOMAIN tx'[u].seen \subseteq Ids
    BY <1>8, <1>9, RequestFields DEF WalletInv, InRange
  <2>2. /\ asked' \in [Cashouts -> Nat] /\ {issued', applied', paidOut'} \subseteq Nat
        /\ cashout' \in [Cashouts -> {"none", "pending", "approved", "rejected"}]
    BY <1>0, <1>3, <1>6
  <2>3. TypeInv' /\ Ids' = Ids /\ credits' \in Seq(Credit)
    BY <1>4, <1>5, <1>9, <2>1, <2>2, TypeRewritten
  <2>4. Len(credits') = Len(credits)
    BY <1>0, <1>4, <1>5, Rewritten
  <2> QED BY <2>3, <2>4
<1>11. Open' = {} /\ WithStatus("pending_cashout")' = O
  <2>1. \A i \in Ids : credits'[i].status # "open"
    BY <1>4, <1>5, <1>o DEF Open, WithStatus
  <2>2. \A i \in Ids : credits'[i].status = "pending_cashout" <=> i \in O
    BY <1>2, <1>4, <1>5 DEF WithStatus
  <2> QED BY <1>10, <2>1, <2>2 DEF Open, WithStatus
<1>12. Value(credits', O) = a /\ Value(credits', {}) = 0
  <2>1. O \in SUBSET (1..Len(credits)) /\ \A i \in 1..Len(credits) : credits'[i].amount = credits[i].amount
    BY <1>5 DEF Ids
  <2> QED BY <1>0, <1>6, <1>10, <2>1, SameValues
<1>13. Pending' = {q}
  <2>1. \A p \in Cashouts : cashout'[p] = IF p = q THEN "pending" ELSE cashout[p]
    BY <1>0, <1>3
  <2>2. \A p \in Cashouts : cashout[p] # "pending"
    BY <1>2 DEF Pending
  <2> QED BY <2>1, <2>2 DEF Pending
<1>14. OnePending'
  <2>1. asked'[q] = a
    BY <1>0, <1>3, <1>6
  <2>2. LockedBy(q)' = O
    <3>1. \A i \in O : credits'[i].stamp = q
      BY <1>5
    <3> QED BY <1>1, <1>11, <3>1 DEF LockedBy
  <2> QED BY <1>11, <1>12, <1>13, <2>1, <2>2, Conserved DEF OnePending
<1>15. WalletConserved'
  <2>1. issued = Value(credits, O) + Value(credits, {}) + applied + paidOut
    BY <1>2, <1>o, Conserved DEF WalletInv
  <2>2. Value(credits, {}) = 0
    BY SumSmall DEF Value
  <2>3. issued' = Value(credits', {}) + Value(credits', O) + applied' + paidOut'
    BY <1>0, <1>6, <1>12, <2>1, <2>2
  <2> QED BY <1>11, <2>3, Conserved
<1>16. FoundOpen' /\ LocksExclude'
  <2>1. tx'[t].at = "done"
    BY <1>8, <1>9
  <2> QED BY <2>1 DEF FoundOpen, NobodyDone, LocksExclude, Inside, TwoAtMost
<1>17. SeenIsOpen'
  <2>1. ASSUME NEW u \in Requests, tx'[u].at \in {"read", "moving"} PROVE FALSE
    <3>1. u # t /\ tx'[u] = tx[u]
      BY <1>8, <1>9, <2>1
    <3> QED BY <1>0, <1>1, <1>o, <2>1, <3>1 DEF WalletInv, LocksExclude, Inside
  <2> QED BY <2>1 DEF SeenIsOpen
<1>18. PendingFirst'
  BY <1>11 DEF PendingFirst
<1> QED BY <1>10, <1>14, <1>15, <1>16, <1>17, <1>18 DEF WalletInv

\* An empty wallet, or one credit under a legacy cash-out.
LEMMA WalletInit == Init => WalletInv
<1> SUFFICES ASSUME Init PROVE WalletInv
  OBVIOUS
<1>1. /\ tx = [t \in Requests |-> Idle] /\ applied = 0 /\ paidOut = 0
      /\ uses = [mine |-> 0, others |-> 0, gone |-> FALSE, back |-> 0]
  BY DEF Init
<1>2. /\ tx \in [Requests -> ReqType] /\ uses \in Uses
      /\ \A t \in Requests : /\ tx[t].at = "idle" /\ tx[t].rows = {} /\ tx[t].locks = {}
                             /\ DOMAIN tx[t].seen = {}
  BY <1>1, IdleType DEF Uses
<1>3. FoundOpen /\ LocksExclude /\ SeenIsOpen /\ PendingFirst
  BY <1>2 DEF FoundOpen, Inside, LocksExclude, SeenIsOpen, PendingFirst
<1>4. TypeInv
  BY TypeInit
<1>5. ASSUME credits = <<>>, issued = 0,
             cashout = [q \in Cashouts |-> "none"], asked = [q \in Cashouts |-> 0]
      PROVE  WalletInv
  <2>1. credits \in Seq(Credit) /\ Ids = {}
    BY <1>5 DEF Ids
  <2>3. Open = {} /\ WithStatus("pending_cashout") = {} /\ Pending = {}
    BY <1>5, <2>1 DEF Open, WithStatus, Pending
  <2>4. Value(credits, {}) = 0
    BY SumSmall DEF Value
  <2>5. WalletConserved
    <3>1. applied = 0 /\ paidOut = 0 /\ issued = 0
      BY <1>1, <1>5
    <3>2. issued = Value(credits, {}) + Value(credits, {}) + applied + paidOut
      BY <2>4, <3>1
    <3> QED BY <2>3, <3>2, Conserved
  <2> QED BY <1>3, <1>4, <2>3, <2>5 DEF WalletInv, OnePending
<1>6. ASSUME NEW a \in 1..MaxIssued, NEW legacy \in Cashouts,
             credits = <<[amount |-> a, status |-> "pending_cashout", stamp |-> None]>>,
             issued = a,
             cashout = [q \in Cashouts |-> IF q = legacy THEN "pending" ELSE "none"],
             asked = [q \in Cashouts |-> IF q = legacy THEN a ELSE 0]
      PROVE  WalletInv
  <2>1. PICK c : c = [amount |-> a, status |-> "pending_cashout", stamp |-> None]
    OBVIOUS
  <2>2. /\ c \in Credit /\ c.amount = a /\ c.status = "pending_cashout"
        /\ c.stamp = None /\ a \in Nat
    BY <2>1, WalletAssumption DEF Credit
  <2>3. credits = <<c>> /\ credits \in Seq(Credit) /\ Len(credits) = 1 /\ credits[1] = c
    BY <1>6, <2>1, <2>2
  <2>4. Ids = {1}
    BY <2>3 DEF Ids
  <2>6. Open = {} /\ WithStatus("pending_cashout") = {1} /\ Pending = {legacy}
    BY <1>6, <2>2, <2>3, <2>4 DEF Open, WithStatus, Pending
  <2>7. Value(credits, {}) = 0 /\ Value(credits, {1}) = a
    <3>1. Value(credits, {}) = 0
      BY SumSmall DEF Value
    <3>2. 1 \in 1..Len(credits)
      BY <2>3
    <3> QED BY <2>2, <2>3, <3>1, <3>2, ValueOne
  <2>8. LockedBy(legacy) = {1} /\ asked[legacy] = a
    BY <1>6, <2>2, <2>3, <2>6, WalletAssumption DEF LockedBy
  <2>9. OnePending
    BY <2>6, <2>7, <2>8, Conserved DEF OnePending
  <2>10. WalletConserved
    <3>1. applied = 0 /\ paidOut = 0 /\ issued = a
      BY <1>1, <1>6
    <3>2. issued = Value(credits, {}) + Value(credits, {1}) + applied + paidOut
      BY <2>2, <2>7, <3>1
    <3> QED BY <2>6, <3>2, Conserved
  <2> QED BY <1>3, <1>4, <2>9, <2>10 DEF WalletInv
<1> QED BY <1>5, <1>6 DEF Init

\* Every step keeps the money, while nothing is opened beside requests that run
\* and no more than two of them do.
LEMMA WalletNext ==
    ASSUME TwoAtMost, ~OpenAnytime, CouponInv, WalletInv, [Next]_vars
    PROVE  WalletInv'
<1>u. uses' \in Uses
  BY CouponNext DEF CouponInv, CouponType
<1>1. ASSUME NEW t \in Requests,
             \/ PriceSelection(t) \/ RecheckCoupon(t) \/ PlainCommit(t)
             \/ \E cap \in 1..MaxIssued : CheckoutStart(t, cap)
             \/ CashoutCheck(t) \/ CashoutStart(t) \/ Abort(t)
      PROVE  WalletInv'
  BY <1>u, <1>1, QuietStarts
<1>2. ASSUME NEW t \in Requests, Lock(t) PROVE WalletInv'
  BY <1>u, <1>2, QuietLock
<1>3. ASSUME NEW t \in Requests, ReadCredits(t) PROVE WalletInv'
  BY <1>u, <1>3, QuietRead
<1>4. ASSUME NEW t \in Requests, CashoutMove(t) PROVE WalletInv'
  BY <1>u, <1>4, QuietMove
<1>5. ASSUME NEW t \in Requests, CheckoutCommit(t) PROVE WalletInv'
  BY <1>u, <1>5, WalletCheckout
<1>6. ASSUME NEW t \in Requests, NEW q \in Cashouts, CashoutCommit(t, q)
      PROVE  WalletInv'
  BY <1>u, <1>6, WalletCashout
<1>7. CASE NextVisit
  BY <1>7, QuietVisit
<1>8. ASSUME NEW a \in 1..MaxIssued, Issue(a) PROVE WalletInv'
  <2>1. /\ a \in Nat \ {0} /\ Grant(a)
        /\ UNCHANGED <<cashout, asked, applied, paidOut, tx>>
    BY <1>8, WalletAssumption DEF Issue
  <2> QED BY <1>u, <2>1, WalletGrant
<1>9. ASSUME NEW a \in 0..MaxIssued, CancelRedeemed(a) PROVE WalletInv'
  <2>1. UNCHANGED <<cashout, asked, applied, paidOut, tx>>
    BY <1>9 DEF CancelRedeemed
  <2>2. CASE a > 0
    <3>1. a \in Nat \ {0} /\ Grant(a)
      BY <1>9, <2>2, WalletAssumption DEF CancelRedeemed
    <3> QED BY <1>u, <2>1, <3>1, WalletGrant
  <2>3. CASE ~(a > 0)
    <3>1. UNCHANGED <<rows, sums, tx>>
      BY <1>9, <2>1, <2>3 DEF CancelRedeemed, rows, sums
    <3> QED BY <1>u, <3>1, QuietBeside
  <2> QED BY <2>2, <2>3
<1>10. CASE MarkNotArrived \/ OthersRedeem \/ OthersCancel \/ UNCHANGED vars
  <2>1. UNCHANGED <<rows, sums, tx>>
    BY <1>10 DEF MarkNotArrived, OthersRedeem, OthersCancel, vars
  <2> QED BY <1>u, <2>1, QuietBeside
<1>11. ASSUME NEW q \in Cashouts, Approve(q) PROVE WalletInv'
  BY <1>11, WalletApprove
<1>12. ASSUME NEW q \in Cashouts, Reject(q) PROVE WalletInv'
  BY <1>12, WalletReject
<1> QED BY <1>1, <1>2, <1>3, <1>4, <1>5, <1>6, <1>7, <1>8, <1>9, <1>10, <1>11, <1>12
       DEF Next

\* With two requests at a time and no credit opened while they run, what refunds
\* and rebates issued is open, under review, on an invoice or paid out.
THEOREM WalletIsConserved ==
    ASSUME TwoAtMost, ~OpenAnytime
    PROVE  Spec => []WalletConserved
<1>1. Init => CouponInv /\ WalletInv
  BY CouponInit, WalletInit
<1>2. CouponInv /\ WalletInv /\ [Next]_vars => (CouponInv /\ WalletInv)'
  BY CouponNext, WalletNext
<1>3. WalletInv => WalletConserved
  BY DEF WalletInv
<1> QED BY <1>1, <1>2, <1>3, PTL DEF Spec

\* Under the same conditions finance reviews one request at a time, and what it
\* asks for is exactly what is locked meanwhile.
THEOREM CashoutsAreCovered ==
    ASSUME TwoAtMost, ~OpenAnytime
    PROVE  Spec => []CashoutCovered
<1>1. Init => CouponInv /\ WalletInv
  BY CouponInit, WalletInit
<1>2. CouponInv /\ WalletInv /\ [Next]_vars => (CouponInv /\ WalletInv)'
  BY CouponNext, WalletNext
<1>3. WalletInv => CashoutCovered
  <2> SUFFICES ASSUME WalletInv PROVE CashoutCovered
    OBVIOUS
  <2>0. asked \in [Cashouts -> Nat]
    BY DEF WalletInv, TypeInv, TypeOK
  <2>1. CASE Pending = {}
    <3>1. WithStatus("pending_cashout") = {}
      BY <2>1 DEF WalletInv, OnePending
    <3>2. Cardinality({}) = 0
      BY FS_EmptySet
    <3>3. /\ SumFunctionOnSet(asked, {}) = 0
          /\ Balance({}) = 0
      BY SumSmall DEF Balance
    <3> QED BY <2>1, <3>1, <3>2, <3>3 DEF CashoutCovered, Pending
  <2>2. CASE Pending # {}
    <3>1. PICK q \in Cashouts : Pending = {q}
      BY <2>2 DEF WalletInv, OnePending, Pending
    <3>2. asked[q] = Balance(WithStatus("pending_cashout"))
      BY <3>1 DEF WalletInv, OnePending
    <3>3. asked[q] \in Int
      BY <2>0
    <3>4. SumFunctionOnSet(asked, {q}) = asked[q]
      BY <3>3, SumSmall
    <3>5. Cardinality({q}) = 1
      BY FS_Singleton
    <3> QED BY <3>1, <3>2, <3>4, <3>5 DEF CashoutCovered, Pending
  <2> QED BY <2>1, <2>2
<1> QED BY <1>1, <1>2, <1>3, PTL DEF Spec
=============================================================================
