------------------------------ MODULE Recursion ------------------------------
(***************************************************************************)
(* Why a function of the natural numbers that is written with its own name *)
(* is what its definition says: LockDatas, EncodeTo, ReadTo and Cut of     *)
(* LockData and Codec, and FlattenSeq, from the number before; the walks   *)
(* of AsList and AsMap over the bytes, from later numbers.  The theorems   *)
(* of the library on such functions take the step as an operator, which no *)
(* prover here instantiates.  In this module it is a CONSTANT: a module    *)
(* that needs the theorem for a function instantiates this one with the    *)
(* step of that function, and cites a theorem in which no operator is left *)
(* to choose.                                                              *)
(***************************************************************************)
EXTENDS Naturals, NaturalsInduction, WellFoundedInduction, TLAPS

CONSTANT
  \* The step: its parameters, its number, and the value, or values, it looks at.
  Body(_, _, _)

(* Induction, as a set of numbers: one that has 0, and with each number the *)
(* next one, has them all.                                                  *)
LEMMA Induction ==
  ASSUME NEW S, 0 \in S, \A n \in Nat : n \in S => n + 1 \in S
  PROVE  Nat \subseteq S
<1> DEFINE Bad == {n \in Nat : n \notin S}
<1>1. SUFFICES ASSUME Bad # {} PROVE FALSE
  OBVIOUS
<1>2. IsWellFoundedOn(OpToRel(<, Nat), Nat)
  BY NatLessThanWellFounded
<1>3. PICK x \in Bad : \A y \in Bad : ~(<<y, x>> \in OpToRel(<, Nat))
  <2>1. Bad \subseteq Nat
    OBVIOUS
  <2> HIDE DEF Bad
  <2> QED BY <1>1, <1>2, <2>1, WFMin
<1>4. x \in Nat /\ x \notin S /\ x # 0
  OBVIOUS
<1>5. x - 1 \in Nat /\ x - 1 < x /\ (x - 1) + 1 = x
  BY <1>4
<1>6. x - 1 \notin Bad
  BY <1>3, <1>4, <1>5 DEF OpToRel
<1>7. (x - 1) + 1 \in S
  BY <1>5, <1>6
<1> QED BY <1>4, <1>5, <1>7

(* f is the function up to n.                                               *)
UpTo(p, n, f) == f = [i \in 0 .. n |-> Body(p, i, f[i - 1])]

(* Two that are the function up to some number agree as far as both are it, *)
(* provided that the first step does not look at a value before it.         *)
LEMMA UpToUnique ==
  ASSUME NEW p, \A x, y : Body(p, 0, x) = Body(p, 0, y)
  PROVE  \A i, m, n \in Nat : \A f, g :
           UpTo(p, m, f) /\ UpTo(p, n, g) /\ i <= m /\ i <= n => f[i] = g[i]
<1> DEFINE Same(i) == \A m, n \in Nat : \A f, g :
                        UpTo(p, m, f) /\ UpTo(p, n, g) /\ i <= m /\ i <= n => f[i] = g[i]
           S == {i \in Nat : Same(i)}
<1>1. \A m \in Nat : \A f : UpTo(p, m, f) => \A i \in 0 .. m : f[i] = Body(p, i, f[i - 1])
  BY Zenon DEF UpTo
<1>2. 0 \in S
  <2> SUFFICES ASSUME NEW m \in Nat, NEW n \in Nat, NEW f, NEW g, UpTo(p, m, f), UpTo(p, n, g)
               PROVE  f[0] = g[0]
    OBVIOUS
  <2>1. 0 \in 0 .. m /\ 0 \in 0 .. n
    OBVIOUS
  <2>2. f[0] = Body(p, 0, f[0 - 1]) /\ g[0] = Body(p, 0, g[0 - 1])
    BY <1>1, <2>1, Zenon
  <2> QED BY <2>2, Zenon
<1>3. ASSUME NEW i \in Nat, i \in S PROVE i + 1 \in S
  <2> SUFFICES ASSUME NEW m \in Nat, NEW n \in Nat, NEW f, NEW g, UpTo(p, m, f), UpTo(p, n, g),
                      i + 1 <= m, i + 1 <= n
               PROVE  f[i + 1] = g[i + 1]
    OBVIOUS
  <2>1. i + 1 \in 0 .. m /\ i + 1 \in 0 .. n /\ i <= m /\ i <= n /\ (i + 1) - 1 = i
    OBVIOUS
  <2>2. f[i] = g[i]
    BY <1>3, <2>1, Zenon
  <2>3. f[i + 1] = Body(p, i + 1, f[i]) /\ g[i + 1] = Body(p, i + 1, g[i])
    <3>1. /\ f[i + 1] = Body(p, i + 1, f[(i + 1) - 1])
          /\ g[i + 1] = Body(p, i + 1, g[(i + 1) - 1])
      BY <1>1, <2>1, Zenon
    <3> QED BY <2>1, <3>1, Zenon
  <2> QED BY <2>2, <2>3, Zenon
<1> HIDE DEF S
<1>4. Nat \subseteq S
  BY <1>2, <1>3, Induction
<1> QED BY <1>4 DEF S

(* And there is one, up to each number.                                     *)
LEMMA UpToExists ==
  ASSUME NEW p, \A x, y : Body(p, 0, x) = Body(p, 0, y)
  PROVE  \A n \in Nat : \E f : UpTo(p, n, f)
<1> DEFINE S == {n \in Nat : \E f : UpTo(p, n, f)}
<1>1. 0 \in S
  <2> DEFINE f == [i \in 0 .. 0 |-> Body(p, i, 0)]
  <2>1. f = [i \in 0 .. 0 |-> Body(p, i, f[i - 1])]
    <3>1. \A i \in 0 .. 0 : i = 0
      OBVIOUS
    <3>2. \A i \in 0 .. 0 : Body(p, i, 0) = Body(p, i, f[i - 1])
      BY <3>1, Zenon
    <3> HIDE DEF f
    <3>3. f = [i \in 0 .. 0 |-> Body(p, i, 0)]
      BY DEF f
    <3> QED BY <3>2, <3>3
  <2> HIDE DEF f
  <2>2. UpTo(p, 0, f)
    BY <2>1, Zenon DEF UpTo
  <2> QED BY <2>2
<1>2. ASSUME NEW n \in Nat, n \in S PROVE n + 1 \in S
  <2>1. PICK f : UpTo(p, n, f)
    BY <1>2
  <2>2. /\ f = [i \in 0 .. n |-> f[i]]
        /\ \A i \in 0 .. n : f[i] = Body(p, i, f[i - 1])
    BY <2>1, Zenon DEF UpTo
  <2> DEFINE g == [i \in 0 .. n + 1 |-> IF i = n + 1 THEN Body(p, i, f[n]) ELSE f[i]]
  <2>3. \A i \in 0 .. n + 1 : g[i] = Body(p, i, g[i - 1])
    <3> SUFFICES ASSUME NEW i \in 0 .. n + 1 PROVE g[i] = Body(p, i, g[i - 1])
      OBVIOUS
    <3>1. CASE i = n + 1
      <4>1. i - 1 = n /\ n \in 0 .. n + 1 /\ n # n + 1
        BY <3>1
      <4>2. g[i - 1] = f[n]
        BY <4>1
      <4> QED BY <3>1, <4>2
    <3>2. CASE i # n + 1 /\ i # 0
      <4>1. i \in 0 .. n /\ i - 1 \in 0 .. n + 1 /\ i - 1 # n + 1
        BY <3>2
      <4>2. g[i] = f[i] /\ g[i - 1] = f[i - 1]
        BY <3>2, <4>1
      <4> QED BY <2>2, <4>1, <4>2
    <3>3. CASE i = 0
      <4>1. 0 # n + 1 /\ 0 \in 0 .. n
        OBVIOUS
      <4>2. g[i] = f[0] /\ f[0] = Body(p, 0, f[0 - 1])
        BY <2>2, <3>3, <4>1
      <4> QED BY <3>3, <4>2, Zenon
    <3> QED BY <3>1, <3>2, <3>3
  <2>4. g = [i \in 0 .. n + 1 |-> g[i]]
    BY Zenon
  <2> HIDE DEF g
  <2>5. g = [i \in 0 .. n + 1 |-> Body(p, i, g[i - 1])]
    BY <2>3, <2>4
  <2>6. UpTo(p, n + 1, g)
    BY <2>5, Zenon DEF UpTo
  <2> QED BY <2>6
<1> HIDE DEF S
<1>3. Nat \subseteq S
  BY <1>1, <1>2, Induction
<1> QED BY <1>3 DEF S

(* So there is a function of all natural numbers whose value at each is the *)
(* step of its value at the number before: CHOOSE, by which TLA+ defines a  *)
(* recursive function, has one to choose.                                   *)
LEMMA RecursionTheorem ==
  ASSUME NEW p, \A x, y : Body(p, 0, x) = Body(p, 0, y)
  PROVE  \E f : f = [n \in Nat |-> Body(p, n, f[n - 1])]
<1> DEFINE F(n) == CHOOSE f : UpTo(p, n, f)
           h == [n \in Nat |-> F(n)[n]]
<1>1. \A n \in Nat : UpTo(p, n, F(n))
  BY UpToExists, Zenon
<1> HIDE DEF F
<1>2. \A n \in Nat : F(n)[n] = Body(p, n, h[n - 1])
  <2> TAKE n \in Nat
  <2>1. n \in 0 .. n
    OBVIOUS
  <2>2. F(n)[n] = Body(p, n, F(n)[n - 1])
    BY <1>1, <2>1, Zenon DEF UpTo
  <2>3. CASE n = 0
    BY <2>2, <2>3, Zenon
  <2>4. CASE n # 0
    <3>1. n - 1 \in Nat /\ n - 1 <= n /\ n - 1 <= n - 1
      BY <2>4
    <3>2. F(n)[n - 1] = F(n - 1)[n - 1]
      BY <1>1, <3>1, UpToUnique
    <3>3. h[n - 1] = F(n - 1)[n - 1]
      BY <3>1
    <3> QED BY <2>2, <3>2, <3>3, Zenon
  <2> QED BY <2>3, <2>4
<1> DEFINE k == h
<1>3. k = [n \in Nat |-> F(n)[n]]
  OBVIOUS
<1> HIDE DEF k
<1>4. \A n \in Nat : F(n)[n] = Body(p, n, k[n - 1])
  BY <1>2, Zenon DEF k
<1>5. k = [n \in Nat |-> Body(p, n, k[n - 1])]
  BY <1>3, <1>4
<1> QED BY <1>5

(* The other way round: a function may be defined from its values at later  *)
(* numbers, provided that there are no values to look at beyond some stop.  *)
LEMMA ForwardTheorem ==
  ASSUME NEW p, NEW stop \in Nat,
         \A i \in Nat : \A f, g :
           (\A j \in Nat : j > i => f[j] = g[j]) => Body(p, i, f) = Body(p, i, g),
         \A i \in Nat : \A f, g : i > stop => Body(p, i, f) = Body(p, i, g)
  PROVE  \E f : f = [i \in Nat |-> Body(p, i, f)]
<1> DEFINE Later(i, f, g) == \A j \in Nat : j > i => f[j] = g[j]
           Same(i, f, g) == Body(p, i, f) = Body(p, i, g)
<1>0. \A i, f, g : i \in Nat /\ Later(i, f, g) => Same(i, f, g)
  OBVIOUS
<1> HIDE DEF Later, Same
<1> DEFINE From(f, n) == \A i \in Nat : i + n > stop => f[i] = Body(p, i, f)
           S == {n \in Nat : \E f : From(f, n)}
<1>1. 0 \in S
  <2> DEFINE f == [i \in Nat |-> Body(p, i, 0)]
  <2>1. \A i \in Nat : f[i] = Body(p, i, 0)
    OBVIOUS
  <2> HIDE DEF f
  <2>2. \A i \in Nat : i + 0 > stop => f[i] = Body(p, i, f)
    <3> SUFFICES ASSUME NEW i \in Nat, i + 0 > stop PROVE f[i] = Body(p, i, f)
      OBVIOUS
    <3>1. i > stop
      OBVIOUS
    <3>2. Body(p, i, 0) = Body(p, i, f)
      BY <3>1, Zenon
    <3> QED BY <2>1, <3>2, Zenon
  <2> QED BY <2>2
<1>2. ASSUME NEW n \in Nat, n \in S PROVE n + 1 \in S
  <2>1. PICK f : From(f, n)
    BY <1>2
  <2> DEFINE g == [i \in Nat |-> IF i + n > stop THEN f[i] ELSE Body(p, i, f)]
  <2>2. /\ \A i \in Nat : i + n > stop => g[i] = f[i]
        /\ \A i \in Nat : ~(i + n > stop) => g[i] = Body(p, i, f)
    OBVIOUS
  <2> HIDE DEF g
  <2>3. \A i \in Nat : i + (n + 1) > stop => g[i] = Body(p, i, g)
    <3> SUFFICES ASSUME NEW i \in Nat, i + (n + 1) > stop PROVE g[i] = Body(p, i, g)
      OBVIOUS
    <3>1. \A j \in Nat : j > i => j + n > stop
      OBVIOUS
    <3>2. \A j \in Nat : j > i => f[j] = g[j]
      BY <2>2, <3>1, Zenon
    <3>3. Later(i, f, g)
      BY <3>2, Zenon DEF Later
    <3>4. Body(p, i, f) = Body(p, i, g)
      <4>1. Same(i, f, g)
        BY <1>0, <3>3, Zenon
      <4> QED BY <4>1 DEF Same
    <3>5. CASE i + n > stop
      BY <2>1, <2>2, <3>4, <3>5, Zenon
    <3>6. CASE ~(i + n > stop)
      BY <2>2, <3>4, <3>6, Zenon
    <3> QED BY <3>5, <3>6
  <2>4. From(g, n + 1)
    BY <2>3
  <2> QED BY <2>4
<1> HIDE DEF S
<1>3. Nat \subseteq S
  BY <1>1, <1>2, Induction
<1>4. stop + 1 \in S
  BY <1>3
<1>5. PICK f : From(f, stop + 1)
  BY <1>4 DEF S
<1>6. \A i \in Nat : f[i] = Body(p, i, f)
  BY <1>5
<1> DEFINE h == [i \in Nat |-> f[i]]
<1>7. \A i \in Nat : h[i] = f[i]
  OBVIOUS
<1>8. h = [i \in Nat |-> f[i]]
  OBVIOUS
<1> HIDE DEF h
<1>9. \A i \in Nat : f[i] = Body(p, i, h)
  <2> TAKE i \in Nat
  <2>1. \A j \in Nat : j > i => f[j] = h[j]
    BY <1>7
  <2>2. Later(i, f, h)
    BY <2>1, Zenon DEF Later
  <2>3. Body(p, i, f) = Body(p, i, h)
    <3>1. Same(i, f, h)
      BY <1>0, <2>2, Zenon
    <3> QED BY <3>1 DEF Same
  <2> QED BY <1>6, <2>3, Zenon
<1> QED BY <1>8, <1>9
==============================================================================
