------------------------------ MODULE NumberLemmas ------------------------------
(***************************************************************************)
(* Facts about numbers that several proofs need: what a search for the     *)
(* first or lowest (Min of FiniteSetsExt) finds, when two indices select   *)
(* different cells of a circular buffer, and what MapThenSumSet of         *)
(* FiniteSetsExt sums up.                                                  *)
(***************************************************************************)
EXTENDS Integers, FiniteSets, FiniteSetsExt, FiniteSetTheorems, WellFoundedInduction, TLAPS

(* < is a well-founded relation on the natural numbers. *)
LEMMA LessThan ==
  \E R : IsWellFoundedOn(R, Nat) /\ \A x, y \in Nat : x < y => <<x, y>> \in R
<1>1. \A x, y \in Nat : x < y => <<x, y>> \in OpToRel(<, Nat)
  BY Zenon DEF OpToRel
<1> QED BY <1>1, NatLessThanWellFounded, Zenon

(* A set of natural numbers has a least element. *)
LEMMA LeastElement ==
  ASSUME NEW S \in SUBSET Nat, S /= {}
  PROVE  Min(S) \in S /\ \A y \in S : Min(S) <= y
<1>1. PICK R : IsWellFoundedOn(R, Nat) /\ \A x, y \in Nat : x < y => <<x, y>> \in R
  BY LessThan
<1>2. IsWellFoundedOn(R, Nat) /\ S \subseteq Nat /\ S /= {}
  BY <1>1
<1>3. \E x \in S : \A y \in S : ~(<<y, x>> \in R)
  BY <1>2, WFMin, Zenon
<1>4. PICK x \in S : \A y \in S : ~(<<y, x>> \in R)
  BY <1>3
<1>5. \A y \in S : x <= y
  <2> SUFFICES ASSUME NEW y \in S PROVE x <= y
    OBVIOUS
  <2>1. x \in Nat /\ y \in Nat
    OBVIOUS
  <2>2. ~(y < x)
    BY <1>1, <1>4, <2>1, Zenon
  <2> QED BY <2>1, <2>2
<1> QED BY <1>5 DEF Min

(* Quotient and remainder. *)
LEMMA DivMod ==
  ASSUME NEW n \in Nat, n > 0, NEW a \in Nat
  PROVE  /\ a = n * (a \div n) + (a % n)
         /\ a \div n \in Nat
         /\ a % n \in 0 .. n - 1
OBVIOUS

(* Multiples of n are n or more apart. *)
LEMMA NextMultiple ==
  ASSUME NEW n \in Nat, NEW p \in Nat, NEW q \in Nat, p < q
  PROVE  n * q >= n * p + n /\ n * q \in Nat /\ n * p \in Nat
<1>1. n * (q - p - 1) >= 0
  OBVIOUS
<1> QED BY <1>1

(* Less than n apart, two indices select different cells. *)
LEMMA DistinctRemainders ==
  ASSUME NEW n \in Nat, n > 0, NEW a \in Nat, NEW b \in Nat, a < b, b - a < n
  PROVE  a % n /= b % n
<1> DEFINE p == a \div n
           q == b \div n
<1>1. a = n * p + (a % n) /\ p \in Nat /\ a % n \in 0 .. n - 1
  BY DivMod
<1>2. b = n * q + (b % n) /\ q \in Nat /\ b % n \in 0 .. n - 1
  BY DivMod
<1> HIDE DEF p, q
<1>3. CASE p < q
  <2>1. n * q >= n * p + n /\ n * q \in Nat /\ n * p \in Nat
    BY <1>1, <1>2, <1>3, NextMultiple
  <2> QED BY <1>1, <1>2, <2>1
<1>4. CASE p = q
  BY <1>1, <1>2, <1>4
<1>5. CASE q < p
  <2>1. n * p >= n * q + n /\ n * q \in Nat /\ n * p \in Nat
    BY <1>1, <1>2, <1>5, NextMultiple
  <2> QED BY <1>1, <1>2, <2>1
<1> QED BY <1>1, <1>2, <1>3, <1>4, <1>5

(* A set of natural numbers that has n whenever it has all below n has     *)
(* them all.                                                               *)
LEMMA StrongInduction ==
  ASSUME NEW G, \A n \in Nat : (\A m \in Nat : m < n => m \in G) => n \in G
  PROVE  Nat \subseteq G
<1> DEFINE Bad == Nat \ G
<1>1. CASE Bad /= {}
  <2>1. Bad \in SUBSET Nat
    OBVIOUS
  <2>2. Min(Bad) \in Bad /\ \A n \in Bad : Min(Bad) <= n
    BY <1>1, <2>1, LeastElement
  <2>3. \A m \in Nat : m < Min(Bad) => m \in G
    BY <2>2
  <2> QED BY <2>2, <2>3
<1> QED BY <1>1

--------------------------------------------------------------------------------
(* Sums over finite sets *)

(* MapThenSumSet of FiniteSetsExt takes the elements out one by one.       *)
AnyOf(s) == CHOOSE x \in s : TRUE
IsSum(it, h, S) ==
    it = [s \in SUBSET S |-> IF s = {} THEN 0 ELSE h[AnyOf(s)] + it[s \ {AnyOf(s)}]]
SumOver(h, S) == (CHOOSE it : IsSum(it, h, S))[S]

(* What MapThenSumSet computes for a function. *)
LEMMA SumIs ==
  ASSUME NEW S, NEW h
  PROVE  MapThenSumSet(LAMBDA x : h[x], S) = SumOver(h, S)
BY DEF MapThenSumSet, MapThenFoldSet, SumOver, IsSum, AnyOf

(* A set without one of its elements. *)
LEMMA OneLess ==
  ASSUME NEW S, IsFiniteSet(S), NEW s \in SUBSET S, NEW x \in s
  PROVE  /\ s \ {x} \in SUBSET S /\ IsFiniteSet(s) /\ IsFiniteSet(s \ {x})
         /\ Cardinality(s) \in Nat /\ Cardinality(s \ {x}) \in Nat
         /\ Cardinality(s) > 0 /\ Cardinality(s \ {x}) = Cardinality(s) - 1
<1>1. IsFiniteSet(s) /\ Cardinality(s) \in Nat
  BY FS_Subset, FS_CardinalityType
<1>2. IsFiniteSet(s \ {x}) /\ Cardinality(s \ {x}) = Cardinality(s) - 1
  BY <1>1, FS_RemoveElement
<1>3. Cardinality(s \ {x}) \in Nat
  BY <1>2, FS_CardinalityType
<1> QED BY <1>1, <1>2, <1>3

(* A set that is not empty has the element that AnyOf takes. *)
LEMMA AnyIsOne == ASSUME NEW s, s /= {} PROVE AnyOf(s) \in s
BY DEF AnyOf

(* There is a function that sums up. *)
LEMMA SumExists ==
  ASSUME NEW S, IsFiniteSet(S), NEW h, \A x \in S : h[x] \in Int
  PROVE  \E it : IsSum(it, h, S)
<1> DEFINE Right(g, s) == /\ g[s] \in Int
                          /\ g[s] = IF s = {} THEN 0 ELSE h[AnyOf(s)] + g[s \ {AnyOf(s)}]
           UpTo(n) == {s \in SUBSET S : Cardinality(s) < n}
           Good == {n \in Nat : \E g : \A s \in UpTo(n) : Right(g, s)}
<1>1. ASSUME NEW s \in SUBSET S, s /= {}
      PROVE  /\ h[AnyOf(s)] \in Int /\ s \ {AnyOf(s)} \in SUBSET S
             /\ Cardinality(s) \in Nat
             /\ Cardinality(s \ {AnyOf(s)}) \in Nat
             /\ Cardinality(s \ {AnyOf(s)}) = Cardinality(s) - 1
  <2>1. AnyOf(s) \in s
    BY <1>1, AnyIsOne
  <2> HIDE DEF Right, UpTo, Good
  <2> QED BY <2>1, OneLess, ZenonT(60)
<1>2. \A s \in SUBSET S : Cardinality(s) \in Nat
  BY FS_Subset, FS_CardinalityType
<1>3. ASSUME NEW n \in Nat, \A m \in Nat : m < n => m \in Good
      PROVE  n \in Good
  <2>1. CASE n = 0
    <3>1. UpTo(n) = {}
      BY <1>2, <2>1
    <3> HIDE DEF Right, UpTo
    <3> QED BY <3>1
  <2>2. CASE n /= 0
    <3>1. n - 1 \in Nat /\ n - 1 \in Good
      <4> HIDE DEF Good
      <4> QED BY <1>3, <2>2
    <3>2. PICK g : \A s \in UpTo(n - 1) : Right(g, s)
      BY <3>1
    <3> DEFINE f == [s \in SUBSET S |-> IF Cardinality(s) < n - 1 THEN g[s]
                                        ELSE IF s = {} THEN 0
                                        ELSE h[AnyOf(s)] + g[s \ {AnyOf(s)}]]
    <3>3. \A s \in UpTo(n - 1) : f[s] = g[s] /\ s \in SUBSET S
      OBVIOUS
    <3>4. ASSUME NEW s \in UpTo(n) PROVE Right(f, s)
      <4>1. s \in SUBSET S /\ Cardinality(s) < n
        OBVIOUS
      <4>2. CASE Cardinality(s) < n - 1
        <5>1. s \in UpTo(n - 1) /\ f[s] = g[s] /\ Right(g, s)
          BY <3>2, <3>3, <4>1, <4>2
        <5>2. CASE s = {}
          BY <5>1, <5>2
        <5>3. CASE s /= {}
          <6>1. s \ {AnyOf(s)} \in UpTo(n - 1)
            BY <1>1, <4>1, <4>2, <5>3
          <6>2. f[s \ {AnyOf(s)}] = g[s \ {AnyOf(s)}]
            BY <3>3, <6>1
          <6> HIDE DEF f
          <6> QED BY <5>1, <5>3, <6>2
        <5> QED BY <5>2, <5>3
      <4>3. CASE ~(Cardinality(s) < n - 1)
        <5>1. CASE s = {}
          <6>1. f[s] = 0
            BY <4>1, <4>3, <5>1
          <6> HIDE DEF f
          <6> QED BY <5>1, <6>1
        <5>2. CASE s /= {}
          <6> DEFINE r == s \ {AnyOf(s)}
          <6>1. f[s] = h[AnyOf(s)] + g[r] /\ h[AnyOf(s)] \in Int
            BY <1>1, <4>1, <4>3, <5>2
          <6>2. r \in UpTo(n - 1)
            <7>1. /\ r \in SUBSET S /\ Cardinality(r) \in Nat /\ Cardinality(s) \in Nat
                  /\ Cardinality(r) = Cardinality(s) - 1
              BY <1>1, <4>1, <5>2
            <7> HIDE DEF r
            <7> QED BY <4>1, <7>1
          <6>3. g[r] \in Int /\ f[r] = g[r]
            BY <3>2, <3>3, <6>2
          <6> HIDE DEF f
          <6> QED BY <5>2, <6>1, <6>3
        <5> QED BY <5>1, <5>2
      <4> QED BY <4>2, <4>3
    <3> HIDE DEF f, Right, UpTo
    <3> QED BY <3>4
  <2> QED BY <2>1, <2>2
<1>4. Cardinality(S) + 1 \in Nat /\ Cardinality(S) + 1 \in Good
  <2>1. Cardinality(S) + 1 \in Nat
    BY <1>2
  <2> HIDE DEF Good
  <2> QED BY <1>3, <2>1, StrongInduction
<1>5. PICK g : \A s \in UpTo(Cardinality(S) + 1) : Right(g, s)
  BY <1>4
<1>6. \A s \in SUBSET S : s \in UpTo(Cardinality(S) + 1)
  <2> SUFFICES ASSUME NEW s \in SUBSET S PROVE Cardinality(s) < Cardinality(S) + 1
    OBVIOUS
  <2>1. Cardinality(s) <= Cardinality(S)
    BY FS_Subset
  <2> QED BY <1>2, <2>1
<1> DEFINE it == [s \in SUBSET S |-> g[s]]
<1>7. \A s \in SUBSET S :
         it[s] = IF s = {} THEN 0 ELSE h[AnyOf(s)] + it[s \ {AnyOf(s)}]
  <2> SUFFICES ASSUME NEW s \in SUBSET S
               PROVE  it[s] = IF s = {} THEN 0 ELSE h[AnyOf(s)] + it[s \ {AnyOf(s)}]
    OBVIOUS
  <2>1. Right(g, s) /\ it[s] = g[s]
    BY <1>5, <1>6
  <2>2. s \ {AnyOf(s)} \in SUBSET S
    OBVIOUS
  <2> QED BY <2>1, <2>2
<1>8. it = [s \in SUBSET S |-> it[s]]
  OBVIOUS
<1> HIDE DEF it
<1>9. IsSum(it, h, S)
  BY <1>7, <1>8 DEF IsSum
<1> QED BY <1>9

(* It does not matter which element is taken out. *)
LEMMA SumRemoves ==
  ASSUME NEW S, IsFiniteSet(S), NEW h, \A x \in S : h[x] \in Int,
         NEW it, IsSum(it, h, S)
  PROVE  /\ it[{}] = 0
         /\ \A s \in SUBSET S : it[s] \in Int /\ \A x \in s : it[s] = h[x] + it[s \ {x}]
<1> DEFINE Right(s) == it[s] \in Int /\ \A x \in s : it[s] = h[x] + it[s \ {x}]
           Good == {n \in Nat : \A s \in SUBSET S : Cardinality(s) = n => Right(s)}
<1>1. /\ \A s \in SUBSET S : s /= {} => /\ AnyOf(s) \in s
                                        /\ it[s] = h[AnyOf(s)] + it[s \ {AnyOf(s)}]
      /\ it[{}] = 0
  <2>1. it = [s \in SUBSET S |-> IF s = {} THEN 0 ELSE h[AnyOf(s)] + it[s \ {AnyOf(s)}]]
    BY DEF IsSum
  <2>2. \A s \in SUBSET S : it[s] = IF s = {} THEN 0 ELSE h[AnyOf(s)] + it[s \ {AnyOf(s)}]
    BY <2>1
  <2> QED BY <2>2, AnyIsOne
<1>2. ASSUME NEW n \in Nat, \A m \in Nat : m < n => m \in Good
      PROVE  n \in Good
  <2> SUFFICES ASSUME NEW s \in SUBSET S, Cardinality(s) = n PROVE Right(s)
    OBVIOUS
  <2>1. ASSUME NEW r \in SUBSET S, Cardinality(r) \in Nat, Cardinality(r) < n PROVE Right(r)
    BY <1>2, <2>1
  <2> HIDE DEF Good
  <2>2. CASE s = {}
    BY <1>1, <2>2
  <2>3. CASE s /= {}
    <3> DEFINE c == AnyOf(s)
    <3>1. c \in s /\ it[s] = h[c] + it[s \ {c}] /\ h[c] \in Int
      BY <1>1, <2>3
    <3> HIDE DEF c
    <3>2. ASSUME NEW x \in s
          PROVE  s \ {x} \in SUBSET S /\ Right(s \ {x}) /\ h[x] \in Int
      <4>1. s \ {x} \in SUBSET S /\ Cardinality(s \ {x}) \in Nat /\ Cardinality(s \ {x}) < n
        <5> HIDE DEF Right
        <5>1. /\ s \ {x} \in SUBSET S /\ Cardinality(s \ {x}) \in Nat
              /\ Cardinality(s) \in Nat /\ Cardinality(s \ {x}) = Cardinality(s) - 1
          BY OneLess
        <5> QED BY <5>1
      <4> QED BY <2>1, <4>1
    <3>3. it[s \ {c}] \in Int /\ it[s] \in Int
      <4>1. it[s \ {c}] \in Int
        BY <3>1, <3>2
      <4> QED BY <3>1, <4>1
    <3>4. ASSUME NEW x \in s, x /= c PROVE it[s] = h[x] + it[s \ {x}]
      <4>1. it[s \ {c}] = h[x] + it[(s \ {c}) \ {x}]
        BY <3>1, <3>2, <3>4
      <4>2. it[s \ {x}] = h[c] + it[(s \ {x}) \ {c}] /\ it[s \ {x}] \in Int /\ h[x] \in Int
        BY <3>1, <3>2, <3>4
      <4>3. (s \ {c}) \ {x} = (s \ {x}) \ {c}
        OBVIOUS
      <4>4. it[(s \ {x}) \ {c}] \in Int
        <5>1. /\ s \ {x} \in SUBSET S /\ Cardinality(s) \in Nat
              /\ Cardinality(s \ {x}) = Cardinality(s) - 1
          BY OneLess
        <5>2. c \in s \ {x}
          BY <3>1, <3>4
        <5>3. /\ (s \ {x}) \ {c} \in SUBSET S /\ Cardinality((s \ {x}) \ {c}) \in Nat
              /\ Cardinality((s \ {x}) \ {c}) = Cardinality(s \ {x}) - 1
          <6> DEFINE r == s \ {x}
          <6>1. r \in SUBSET S /\ c \in r
            BY <5>1, <5>2
          <6> HIDE DEF r, Right
          <6>2. /\ r \ {c} \in SUBSET S /\ Cardinality(r \ {c}) \in Nat
                /\ Cardinality(r \ {c}) = Cardinality(r) - 1
            BY <6>1, OneLess
          <6> QED BY <6>2 DEF r
        <5>4. Right((s \ {x}) \ {c})
          <6> HIDE DEF Right
          <6> QED BY <2>1, <5>1, <5>3
        <5> QED BY <5>4
      <4> DEFINE p == it[(s \ {x}) \ {c}]
                 q == it[s \ {x}]
                 r == it[s \ {c}]
      <4>5. it[s] = h[c] + r /\ r = h[x] + p /\ q = h[c] + p
        BY <3>1, <4>1, <4>2, <4>3
      <4>6. p \in Int /\ q \in Int /\ h[x] \in Int /\ h[c] \in Int
        BY <3>1, <4>2, <4>4
      <4> HIDE DEF p, q, r
      <4>7. it[s] = h[x] + q
        BY <4>5, <4>6
      <4> QED BY <4>7 DEF q
    <3> QED BY <3>1, <3>3, <3>4
  <2> QED BY <2>2, <2>3
<1>3. Nat \subseteq Good
  <2> HIDE DEF Good
  <2> QED BY <1>2, StrongInduction
<1>4. \A s \in SUBSET S : Cardinality(s) \in Nat
  BY FS_Subset, FS_CardinalityType
<1>5. \A s \in SUBSET S : Right(s)
  <2> HIDE DEF Right
  <2> QED BY <1>3, <1>4
<1> QED BY <1>1, <1>5

(* Sums of the same numbers are the same. *)
LEMMA SumUnique ==
  ASSUME NEW S, IsFiniteSet(S), NEW h, \A x \in S : h[x] \in Int, NEW it, IsSum(it, h, S),
         NEW T, IsFiniteSet(T), NEW g, \A x \in T : g[x] \in Int, NEW jt, IsSum(jt, g, T)
  PROVE  \A s \in SUBSET (S \cap T) : (\A x \in s : h[x] = g[x]) => it[s] = jt[s]
<1> DEFINE Right(s) == (\A x \in s : h[x] = g[x]) => it[s] = jt[s]
           Good == {n \in Nat : \A s \in SUBSET (S \cap T) : Cardinality(s) = n => Right(s)}
<1>1. /\ it[{}] = 0 /\ \A s \in SUBSET S : \A x \in s : it[s] = h[x] + it[s \ {x}]
      /\ jt[{}] = 0 /\ \A s \in SUBSET T : \A x \in s : jt[s] = g[x] + jt[s \ {x}]
  <2> HIDE DEF Right, Good
  <2>1. it[{}] = 0 /\ \A s \in SUBSET S : \A x \in s : it[s] = h[x] + it[s \ {x}]
    BY SumRemoves
  <2>2. jt[{}] = 0 /\ \A s \in SUBSET T : \A x \in s : jt[s] = g[x] + jt[s \ {x}]
    BY SumRemoves
  <2> QED BY <2>1, <2>2
<1>2. ASSUME NEW n \in Nat, \A m \in Nat : m < n => m \in Good
      PROVE  n \in Good
  <2> SUFFICES ASSUME NEW s \in SUBSET (S \cap T), Cardinality(s) = n,
                      \A x \in s : h[x] = g[x]
               PROVE  it[s] = jt[s]
    OBVIOUS
  <2>1. ASSUME NEW r \in SUBSET (S \cap T), Cardinality(r) \in Nat, Cardinality(r) < n
        PROVE  Right(r)
    BY <1>2, <2>1
  <2> HIDE DEF Good
  <2>2. CASE s = {}
    BY <1>1, <2>2
  <2>3. ASSUME NEW x \in s PROVE it[s] = jt[s]
    <3>1. it[s] = h[x] + it[s \ {x}] /\ jt[s] = g[x] + jt[s \ {x}] /\ h[x] = g[x]
      BY <1>1
    <3>2. /\ s \ {x} \in SUBSET (S \cap T) /\ Cardinality(s \ {x}) \in Nat
          /\ Cardinality(s \ {x}) < n
      <4>1. s \in SUBSET S
        OBVIOUS
      <4> HIDE DEF Right
      <4>2. /\ Cardinality(s \ {x}) \in Nat
            /\ Cardinality(s) \in Nat /\ Cardinality(s \ {x}) = Cardinality(s) - 1
        BY <4>1, OneLess
      <4> QED BY <4>2
    <3>3. it[s \ {x}] = jt[s \ {x}]
      BY <2>1, <3>2
    <3> QED BY <3>1, <3>3
  <2> QED BY <2>2, <2>3
<1>3. Nat \subseteq Good
  <2> HIDE DEF Good
  <2> QED BY <1>2, StrongInduction
<1>4. \A s \in SUBSET (S \cap T) : Cardinality(s) \in Nat
  BY FS_Subset, FS_CardinalityType
<1>5. \A s \in SUBSET (S \cap T) : Right(s)
  <2> HIDE DEF Right
  <2> QED BY <1>3, <1>4
<1> QED BY <1>5

(* The sum of no numbers is 0; one of them can be added last. *)
LEMMA SumOfOne ==
  ASSUME NEW S, IsFiniteSet(S), NEW h, \A x \in S : h[x] \in Int
  PROVE  /\ S = {} => SumOver(h, S) = 0
         /\ SumOver(h, S) \in Int
         /\ \A x \in S : SumOver(h, S) = h[x] + SumOver(h, S \ {x})
<1> DEFINE it == CHOOSE f : IsSum(f, h, S)
<1>1. IsSum(it, h, S) /\ SumOver(h, S) = it[S]
  BY SumExists DEF SumOver
<1> HIDE DEF it
<1>2. it[{}] = 0 /\ it[S] \in Int /\ \A x \in S : it[S] = h[x] + it[S \ {x}]
  BY <1>1, SumRemoves
<1>3. ASSUME NEW x \in S PROVE SumOver(h, S \ {x}) = it[S \ {x}]
  <2> DEFINE T == S \ {x}
             jt == CHOOSE f : IsSum(f, h, T)
  <2>1. IsFiniteSet(T) /\ \A y \in T : h[y] \in Int
    BY FS_Subset
  <2>2. IsSum(jt, h, T) /\ SumOver(h, T) = jt[T]
    BY <2>1, SumExists DEF SumOver
  <2> HIDE DEF jt
  <2>3. T \in SUBSET (S \cap T)
    OBVIOUS
  <2>4. it[T] = jt[T]
    BY <1>1, <2>1, <2>2, <2>3, SumUnique
  <2> QED BY <2>2, <2>4
<1> QED BY <1>1, <1>2, <1>3

(* Only the numbers of the elements matter. *)
LEMMA SumEqual ==
  ASSUME NEW S, IsFiniteSet(S), NEW h, NEW g, \A x \in S : h[x] \in Int /\ g[x] = h[x]
  PROVE  SumOver(g, S) = SumOver(h, S)
<1> DEFINE it == CHOOSE f : IsSum(f, h, S)
           jt == CHOOSE f : IsSum(f, g, S)
<1>1. IsSum(it, h, S) /\ SumOver(h, S) = it[S] /\ IsSum(jt, g, S) /\ SumOver(g, S) = jt[S]
  BY SumExists DEF SumOver
<1> HIDE DEF it, jt
<1>2. S \in SUBSET (S \cap S)
  OBVIOUS
<1>3. it[S] = jt[S]
  BY <1>1, <1>2, SumUnique
<1> QED BY <1>1, <1>3

(* One of the numbers changes. *)
LEMMA SumChanges ==
  ASSUME NEW S, NEW h, NEW g, NEW x, IsFiniteSet(S) /\ x \in S,
         \A y \in S : h[y] \in Int /\ g[y] \in Int, \A y \in S \ {x} : g[y] = h[y]
  PROVE  SumOver(g, S) = SumOver(h, S) + g[x] - h[x]
<1>1. IsFiniteSet(S \ {x})
  BY FS_Subset
<1>2. SumOver(g, S \ {x}) = SumOver(h, S \ {x}) /\ SumOver(h, S \ {x}) \in Int
  BY <1>1, SumEqual, SumOfOne
<1>3. /\ SumOver(h, S) = h[x] + SumOver(h, S \ {x})
      /\ SumOver(g, S) = g[x] + SumOver(g, S \ {x})
  BY SumOfOne
<1> QED BY <1>2, <1>3

(* Nothings add up to nothing. *)
LEMMA SumOfNothing ==
  ASSUME NEW S, IsFiniteSet(S), NEW h, \A x \in S : h[x] = 0
  PROVE  SumOver(h, S) = 0
<1> DEFINE Good == {n \in Nat : \A s \in SUBSET S : Cardinality(s) = n => SumOver(h, s) = 0}
<1>1. ASSUME NEW n \in Nat, \A m \in Nat : m < n => m \in Good
      PROVE  n \in Good
  <2> SUFFICES ASSUME NEW s \in SUBSET S, Cardinality(s) = n
               PROVE  SumOver(h, s) = 0
    OBVIOUS
  <2>1. IsFiniteSet(s) /\ \A x \in s : h[x] \in Int
    BY FS_Subset
  <2>2. CASE s = {}
    BY <2>1, <2>2, SumOfOne
  <2>3. ASSUME NEW x \in s PROVE SumOver(h, s) = 0
    <3>0. /\ s \ {x} \in SUBSET S /\ Cardinality(s) \in Nat /\ Cardinality(s \ {x}) \in Nat
          /\ Cardinality(s) > 0 /\ Cardinality(s \ {x}) = Cardinality(s) - 1
      BY OneLess
    <3>1. s \ {x} \in SUBSET S /\ Cardinality(s \ {x}) \in Nat /\ Cardinality(s \ {x}) < n
      BY <3>0
    <3>2. SumOver(h, s \ {x}) = 0
      BY <1>1, <3>1
    <3> QED BY <2>1, <3>2, SumOfOne
  <2> QED BY <2>2, <2>3
<1> HIDE DEF Good
<1>2. Nat \subseteq Good
  BY <1>1, StrongInduction
<1>3. Cardinality(S) \in Nat
  BY FS_CardinalityType
<1> QED BY <1>2, <1>3 DEF Good

(* The differences of a function on the numbers from 0 sum up to the last. *)
LEMMA SumTelescopes ==
  ASSUME NEW n \in Nat, NEW h, NEW F, F[0] = 0,
         \A j \in 0 .. n : F[j] \in Int, \A j \in 0 .. n - 1 : h[j] = F[j + 1] - F[j]
  PROVE  SumOver(h, 0 .. n - 1) = F[n]
<1> DEFINE Good == {m \in Nat : m <= n => SumOver(h, 0 .. m - 1) = F[m]}
<1>1. ASSUME NEW m \in Nat, \A l \in Nat : l < m => l \in Good
      PROVE  m \in Good
  <2> SUFFICES ASSUME m <= n PROVE SumOver(h, 0 .. m - 1) = F[m]
    OBVIOUS
  <2>1. m > 0 => SumOver(h, 0 .. (m - 1) - 1) = F[m - 1]
    BY <1>1
  <2> HIDE DEF Good
  <2>2. IsFiniteSet(0 .. m - 1)
    BY FS_Interval
  <2>3. \A j \in 0 .. m - 1 : h[j] \in Int /\ h[j] = F[j + 1] - F[j]
    OBVIOUS
  <2>4. CASE m = 0
    <3>1. 0 .. m - 1 = {}
      BY <2>4
    <3> QED BY <2>2, <2>3, <2>4, <3>1, SumOfOne
  <2>5. CASE m > 0
    <3>1. m - 1 \in 0 .. m - 1 /\ (0 .. m - 1) \ {m - 1} = 0 .. (m - 1) - 1
      BY <2>5
    <3>2. SumOver(h, 0 .. m - 1) = h[m - 1] + SumOver(h, (0 .. m - 1) \ {m - 1})
      <4> DEFINE T == 0 .. m - 1
      <4>1. IsFiniteSet(T) /\ m - 1 \in T /\ \A j \in T : h[j] \in Int
        BY <2>2, <2>3, <3>1
      <4> HIDE DEF T
      <4>2. SumOver(h, T) = h[m - 1] + SumOver(h, T \ {m - 1})
        BY <4>1, SumOfOne
      <4> QED BY <4>2 DEF T
    <3>3. h[m - 1] = F[m] - F[m - 1] /\ F[m] \in Int /\ F[m - 1] \in Int
      <4>1. h[m - 1] = F[(m - 1) + 1] - F[m - 1] /\ (m - 1) + 1 = m
        BY <2>3, <3>1
      <4> QED BY <2>5, <4>1
    <3>4. SumOver(h, 0 .. m - 1) = h[m - 1] + F[m - 1]
      BY <2>1, <2>5, <3>1, <3>2
    <3> QED BY <3>3, <3>4
  <2> QED BY <2>4, <2>5
<1>2. n \in Good
  <2> HIDE DEF Good
  <2> QED BY <1>1, StrongInduction
<1> QED BY <1>2

(* Intervals apart from one another, all between two bounds, are together  *)
(* no longer than the bounds are apart.                                    *)
LEMMA DisjointSum ==
  ASSUME NEW S, IsFiniteSet(S), NEW p, NEW q, NEW lo \in Nat, NEW hi \in Nat, lo <= hi,
         \A d \in S : /\ p[d] \in Nat /\ q[d] \in Nat
                      /\ q[d] = 0 \/ (lo <= p[d] /\ p[d] + q[d] <= hi),
         \A d, e \in S : d = e \/ q[d] = 0 \/ q[e] = 0
                               \/ p[d] + q[d] <= p[e] \/ p[e] + q[e] <= p[d]
  PROVE  SumOver(q, S) <= hi - lo
<1> DEFINE Below(T, h) == \A d \in T : q[d] = 0 \/ p[d] + q[d] <= h
           Good == {n \in Nat : \A T \in SUBSET S : \A h \in Nat :
                       Cardinality(T) = n /\ lo <= h /\ Below(T, h) => SumOver(q, T) <= h - lo}
<1>1. ASSUME NEW n \in Nat, \A k \in Nat : k < n => k \in Good
      PROVE  n \in Good
  <2> SUFFICES ASSUME NEW T \in SUBSET S, NEW h \in Nat, Cardinality(T) = n, lo <= h, Below(T, h)
               PROVE  SumOver(q, T) <= h - lo
    OBVIOUS
  <2>1. IsFiniteSet(T) /\ \A d \in T : q[d] \in Int
    BY FS_Subset
  <2>2. CASE T = {}
    <3>1. SumOver(q, T) = 0
      BY <2>1, <2>2, SumOfOne
    <3> QED BY <3>1
  <2>3. ASSUME NEW d \in T, NEW k \in Nat, lo <= k, Below(T \ {d}, k)
        PROVE  SumOver(q, T \ {d}) <= k - lo /\ SumOver(q, T \ {d}) \in Int
               /\ SumOver(q, T) = q[d] + SumOver(q, T \ {d}) /\ q[d] \in Nat
    <3>1. T \ {d} \in SUBSET S /\ Cardinality(T \ {d}) \in Nat /\ Cardinality(T \ {d}) < n
          /\ IsFiniteSet(T \ {d})
      <4>1. T \ {d} \in SUBSET T /\ IsFiniteSet(T \ {d}) /\ Cardinality(T \ {d}) \in Nat
            /\ Cardinality(T \ {d}) = Cardinality(T) - 1
        <5>1. T \in SUBSET T
          OBVIOUS
        <5> QED BY <2>1, <5>1, OneLess
      <4> QED BY <4>1
    <3>2. Cardinality(T \ {d}) \in Good
      BY <1>1, <3>1
    <3>3. SumOver(q, T \ {d}) <= k - lo
      BY <2>3, <3>1, <3>2
    <3>4. SumOver(q, T) = q[d] + SumOver(q, T \ {d})
      BY <2>1, SumOfOne
    <3>5. SumOver(q, T \ {d}) \in Int
      <4>1. \A e \in T \ {d} : q[e] \in Int
        BY <2>1
      <4> QED BY <3>1, <4>1, SumOfOne
    <3> QED BY <3>3, <3>4, <3>5
  <2> HIDE DEF Good
  <2>4. CASE \E d \in T : q[d] = 0
    <3>1. PICK d \in T : q[d] = 0
      BY <2>4
    <3>2. Below(T \ {d}, h)
      OBVIOUS
    <3> HIDE DEF Below
    <3>3. SumOver(q, T \ {d}) <= h - lo /\ SumOver(q, T \ {d}) \in Int
          /\ SumOver(q, T) = q[d] + SumOver(q, T \ {d})
      BY <2>3, <3>2
    <3> QED BY <3>1, <3>3
  <2>5. CASE T /= {} /\ \A d \in T : q[d] /= 0
    <3>1. PICK d \in T : \A e \in T : p[e] <= p[d]
      <4> DEFINE Gaps == {h - p[e] : e \in T}
      <4>1. \A e \in T : p[e] \in Nat /\ q[e] \in Nat /\ p[e] + q[e] <= h
        BY <2>5
      <4>2. Gaps \in SUBSET Nat /\ Gaps /= {}
        BY <2>5, <4>1
      <4>3. Min(Gaps) \in Gaps /\ \A y \in Gaps : Min(Gaps) <= y
        BY <4>2, LeastElement
      <4>4. PICK d \in T : Min(Gaps) = h - p[d]
        BY <4>3
      <4>5. \A e \in T : h - p[d] <= h - p[e]
        BY <4>3, <4>4
      <4> QED BY <4>1, <4>5
    <3>2. p[d] \in Nat /\ q[d] \in Nat /\ lo <= p[d] /\ p[d] + q[d] <= h
      BY <2>5
    <3>3. Below(T \ {d}, p[d])
      <4>1. ASSUME NEW e \in T \ {d} PROVE p[e] + q[e] <= p[d]
        <5>1. p[d] + q[d] <= p[e] \/ p[e] + q[e] <= p[d]
          BY <2>5
        <5>2. p[e] <= p[d] /\ p[e] \in Nat /\ q[d] \in Nat /\ q[d] /= 0 /\ p[d] \in Nat
          BY <2>5, <3>1, <3>2
        <5> QED BY <5>1, <5>2
      <4> QED BY <4>1
    <3> HIDE DEF Below
    <3>4. SumOver(q, T \ {d}) <= p[d] - lo /\ SumOver(q, T \ {d}) \in Int
          /\ SumOver(q, T) = q[d] + SumOver(q, T \ {d})
      BY <2>3, <3>2, <3>3
    <3> QED BY <3>2, <3>4
  <2> QED BY <2>2, <2>4, <2>5
<1>2. Cardinality(S) \in Nat /\ S \in SUBSET S
  BY FS_CardinalityType
<1>3. Cardinality(S) \in Good
  <2> HIDE DEF Good
  <2>1. Nat \subseteq Good
    BY <1>1, StrongInduction
  <2> QED BY <1>2, <2>1
<1> QED BY <1>2, <1>3

================================================================================
