---------------------------- MODULE Retain_proofs ----------------------------
(***************************************************************************)
(* What Without returns, for every queue: the kept entries, all of them,   *)
(* each once and in their order.                                           *)
(***************************************************************************)
EXTENDS Retain, FiniteSetTheorems, TLAPS

(* The k-th smallest number is one with k numbers up to it. *)
LEMMA NthFacts ==
  ASSUME NEW S \in SUBSET Nat, IsFiniteSet(S), NEW k \in 1 .. Cardinality(S)
  PROVE  Nth(S, k) \in S /\ Cardinality({j \in S : j =< Nth(S, k)}) = k
  <1> DEFINE Upto(i) == {j \in S : j =< i}
             rank == [i \in S |-> Cardinality(Upto(i))]
             n == Cardinality(S)
  <1>1. n \in Nat
    BY FS_CardinalityType
  <1>2. \A i \in S : IsFiniteSet(Upto(i)) /\ Cardinality(Upto(i)) \in 1 .. n
    <2> SUFFICES ASSUME NEW i \in S
                 PROVE  IsFiniteSet(Upto(i)) /\ Cardinality(Upto(i)) \in 1 .. n
      OBVIOUS
    <2>1. Upto(i) \in SUBSET S /\ i \in Upto(i)
      OBVIOUS
    <2>2. IsFiniteSet(Upto(i)) /\ Cardinality(Upto(i)) =< n
      BY <2>1, FS_Subset
    <2>3. Cardinality(Upto(i)) \in Nat /\ Cardinality(Upto(i)) # 0
      BY <2>1, <2>2, FS_CardinalityType, FS_EmptySet
    <2> QED  BY <1>1, <2>2, <2>3
  <1>3. \A i, j \in S : rank[i] = rank[j] => i = j
    <2>1. ASSUME NEW i \in S, NEW j \in S, i < j
          PROVE  rank[i] # rank[j]
      <3>0. \A m \in S : m \in Int
        OBVIOUS
      <3>1. Upto(i) \in SUBSET Upto(j) /\ j \in Upto(j) /\ j \notin Upto(i)
        <4>1. j =< j /\ ~(j =< i) /\ \A m \in Int : m =< i => m =< j
          BY <2>1, <3>0
        <4> QED  BY <3>0, <4>1
      <3>2. Cardinality(Upto(j)) # Cardinality(Upto(i))
        <4> HIDE DEF Upto
        <4> QED  BY <1>2, <3>1, FS_Subset
      <3> QED  BY <3>2
    <2> QED  BY <2>1
  <1>4. rank \in Injection(S, 1 .. n)
    BY <1>2, <1>3 DEF Injection, IsInjective
  <1>5. IsFiniteSet(1 .. n) /\ Cardinality(1 .. n) = n
    BY <1>1, FS_Interval
  <1>6. rank \in Surjection(S, 1 .. n)
    BY <1>4, <1>5, FS_Injection
  <1>7. \E i \in S : Cardinality(Upto(i)) = k
    BY <1>6 DEF Surjection
  <1> QED  BY <1>7 DEF Nth

(* ... and the more numbers there are up to it, the larger it is.          *)
LEMMA NthIncreases ==
  ASSUME NEW S \in SUBSET Nat, IsFiniteSet(S),
         NEW j \in 1 .. Cardinality(S), NEW k \in 1 .. Cardinality(S), j < k
  PROVE  Nth(S, j) < Nth(S, k)
  <1> DEFINE Upto(i) == {m \in S : m =< i}
  <1>1. /\ Nth(S, j) \in S /\ Cardinality(Upto(Nth(S, j))) = j
        /\ Nth(S, k) \in S /\ Cardinality(Upto(Nth(S, k))) = k
    BY NthFacts
  <1>0. \A m \in S : m \in Int
    OBVIOUS
  <1>2. ASSUME Nth(S, k) =< Nth(S, j)
        PROVE  FALSE
    <2>1. Upto(Nth(S, k)) \in SUBSET Upto(Nth(S, j)) /\ Upto(Nth(S, j)) \in SUBSET S
      <3>1. Nth(S, j) \in Int /\ Nth(S, k) \in Int
        BY <1>0, <1>1
      <3>2. \A m \in Int : m =< Nth(S, k) => m =< Nth(S, j)
        BY <1>2, <3>1
      <3> QED  BY <1>0, <3>2
    <2>2. Cardinality(Upto(Nth(S, k))) =< Cardinality(Upto(Nth(S, j)))
      <3> HIDE DEF Upto
      <3> QED  BY <2>1, FS_Subset
    <2>3. j \in Int /\ k \in Int
      BY FS_CardinalityType
    <2> QED  BY <1>1, <2>2, <2>3
  <1>3. Nth(S, j) \in Int /\ Nth(S, k) \in Int
    BY <1>0, <1>1
  <1> QED  BY <1>2, <1>3

(* The kept entries are finitely many, and no more than there were.        *)
LEMMA KeptFinite ==
  ASSUME NEW E, NEW queue \in Seq(E), NEW id
  PROVE  /\ Kept(queue, id) \in SUBSET Nat /\ IsFiniteSet(Kept(queue, id))
         /\ Cardinality(Kept(queue, id)) \in Nat
         /\ Cardinality(Kept(queue, id)) =< Len(queue)
  <1>1. Len(queue) \in Nat /\ DOMAIN queue = 1 .. Len(queue)
    OBVIOUS
  <1>2. IsFiniteSet(1 .. Len(queue)) /\ Cardinality(1 .. Len(queue)) = Len(queue)
    BY <1>1, FS_Interval
  <1>3. Kept(queue, id) \in SUBSET (1 .. Len(queue))
    BY <1>1 DEF Kept
  <1>4. IsFiniteSet(Kept(queue, id)) /\ Cardinality(Kept(queue, id)) =< Len(queue)
    BY <1>2, <1>3, FS_Subset
  <1> QED  BY <1>1, <1>3, <1>4, FS_CardinalityType

(* Without is a queue again, no longer than it was, whose entries come     *)
(* from increasing places of the old one: from every place with another id.*)
LEMMA WithoutFacts ==
  ASSUME NEW E, NEW queue \in Seq(E), NEW id
  PROVE  /\ Without(queue, id) \in Seq(E)
         /\ Len(Without(queue, id)) =< Len(queue)
         /\ \E from \in [DOMAIN Without(queue, id) -> DOMAIN queue] :
              /\ \A k \in DOMAIN Without(queue, id) :
                    Without(queue, id)[k] = queue[from[k]] /\ queue[from[k]].id # id
              /\ \A j, k \in DOMAIN Without(queue, id) : j < k => from[j] < from[k]
              /\ \A i \in DOMAIN queue :
                    queue[i].id # id => \E k \in DOMAIN Without(queue, id) : from[k] = i
  <1> DEFINE kept == Kept(queue, id)
             n == Cardinality(kept)
             from == [k \in 1 .. n |-> Nth(kept, k)]
  <1>1. kept \in SUBSET Nat /\ IsFiniteSet(kept) /\ n \in Nat /\ n =< Len(queue)
    BY KeptFinite
  <1>2. kept \in SUBSET DOMAIN queue /\ \A i \in DOMAIN queue : i \in kept <=> queue[i].id # id
    BY DEF Kept
  <1>3. \A k \in 1 .. n : Nth(kept, k) \in kept
    <2> HIDE DEF kept
    <2> QED  BY <1>1, NthFacts
  <1>4. \A j, k \in 1 .. n : j < k => Nth(kept, j) < Nth(kept, k)
    <2> HIDE DEF kept
    <2> QED  BY <1>1, NthIncreases
  <1>5. Without(queue, id) = [k \in 1 .. n |-> queue[Nth(kept, k)]]
    BY DEF Without
  <1> HIDE DEF kept
  <1>6. Without(queue, id) \in Seq(E) /\ Len(Without(queue, id)) = n
        /\ DOMAIN Without(queue, id) = 1 .. n
    <2>1. \A k \in 1 .. n : queue[Nth(kept, k)] \in E
      BY <1>2, <1>3
    <2> HIDE DEF n
    <2> QED  BY <1>1, <1>5, <2>1
  <1>7. from \in [1 .. n -> DOMAIN queue] /\ from \in Injection(1 .. n, kept)
    <2>1. \A j, k \in 1 .. n : from[j] = from[k] => j = k
      <3>1. \A j, k \in 1 .. n : j < k => from[j] # from[k]
        <4> HIDE DEF n
        <4>1. \A i \in kept : i \in Int
          BY <1>1
        <4> QED  BY <1>3, <1>4, <4>1
      <3>2. \A j, k \in 1 .. n : j = k \/ j < k \/ k < j
        BY <1>1
      <3> QED  BY <3>1, <3>2
    <2> QED  BY <1>2, <1>3, <2>1 DEF Injection, IsInjective
  <1>8. \A i \in kept : \E k \in 1 .. n : from[k] = i
    <2>1. Cardinality(1 .. n) = n /\ IsFiniteSet(1 .. n)
      BY <1>1, FS_Interval
    <2>2. from \in Surjection(1 .. n, kept)
      <3> HIDE DEF from
      <3> QED  BY <1>1, <1>7, <2>1, FS_Injection
    <2> QED  BY <2>2 DEF Surjection
  <1>9. \A k \in 1 .. n : Without(queue, id)[k] = queue[from[k]] /\ queue[from[k]].id # id
    BY <1>2, <1>3, <1>5
  <1>10. \A j, k \in 1 .. n : j < k => from[j] < from[k]
    BY <1>4
  <1> HIDE DEF from, n
  <1>11. Len(Without(queue, id)) =< Len(queue)
    BY <1>1, <1>6
  <1>12. \A i \in DOMAIN queue :
            queue[i].id # id => \E k \in DOMAIN Without(queue, id) : from[k] = i
    BY <1>2, <1>6, <1>8
  <1>13. from \in [DOMAIN Without(queue, id) -> DOMAIN queue]
    BY <1>6, <1>7
  <1>14. /\ \A k \in DOMAIN Without(queue, id) :
              Without(queue, id)[k] = queue[from[k]] /\ queue[from[k]].id # id
         /\ \A j, k \in DOMAIN Without(queue, id) : j < k => from[j] < from[k]
    BY <1>6, <1>9, <1>10
  <1>15. Without(queue, id) \in Seq(E)
    BY <1>6
  <1> QED  BY <1>11, <1>12, <1>13, <1>14, <1>15, Zenon
=============================================================================
