----------------------------- MODULE TaskCounts -----------------------------
(***************************************************************************)
(* How often a task waits in a queue of tasks: the lemmas that the proofs  *)
(* about the components above the scheduler share.                         *)
(***************************************************************************)
EXTENDS Integers, Sequences, FiniteSets, SequenceTheorems, FiniteSetTheorems, TLAPS

\* The places of task t in the queue q.
Places(q, t) == {k \in DOMAIN q : q[k] = t}
Occurrences(q, t) == Cardinality(Places(q, t))

\* Counts are numbers.
LEMMA PlacesFinite ==
  ASSUME NEW S, NEW q \in Seq(S), NEW t
  PROVE  /\ IsFiniteSet(Places(q, t)) /\ Occurrences(q, t) \in Nat
         /\ Places(q, t) \subseteq 1 .. Len(q)
         /\ IsFiniteSet(1 .. Len(q)) /\ Cardinality(1 .. Len(q)) = Len(q)
         /\ Occurrences(q, t) = 0 <=> \A k \in DOMAIN q : q[k] # t
  <1>1. Len(q) \in Nat /\ DOMAIN q = 1 .. Len(q)
    OBVIOUS
  <1>2. IsFiniteSet(1 .. Len(q)) /\ Cardinality(1 .. Len(q)) = Len(q)
    BY <1>1, FS_Interval
  <1>3. Places(q, t) \subseteq 1 .. Len(q) /\ IsFiniteSet(Places(q, t))
    BY <1>1, <1>2, FS_Subset DEF Places
  <1>4. Occurrences(q, t) \in Nat
    BY <1>3, FS_CardinalityType DEF Occurrences
  <1>5. Occurrences(q, t) = 0 <=> Places(q, t) = {}
    BY <1>3, FS_EmptySet DEF Occurrences
  <1> QED BY <1>1, <1>2, <1>3, <1>4, <1>5 DEF Places

\* A post.
LEMMA CountAppend ==
  ASSUME NEW S, NEW q \in Seq(S), NEW t, NEW u \in S
  PROVE  Occurrences(Append(q, u), t) = Occurrences(q, t) + (IF u = t THEN 1 ELSE 0)
  <1> DEFINE a == Append(q, u)
             P == Places(q, t)
             n == Len(q) + 1
  <1>1. /\ Len(q) \in Nat /\ DOMAIN q = 1 .. Len(q) /\ DOMAIN a = 1 .. Len(q) + 1
        /\ \A k \in DOMAIN q : a[k] = q[k]
        /\ a[Len(q) + 1] = u
    OBVIOUS
  <1> HIDE DEF a
  <1>2. Places(a, t) = IF u = t THEN P \union {n} ELSE P
    BY <1>1 DEF Places
  <1>3. n \notin P
    BY <1>1 DEF Places
  <1>4. IsFiniteSet(P) /\ Cardinality(P) \in Nat
    BY PlacesFinite DEF Occurrences
  <1> HIDE DEF P, n
  <1>5. Cardinality(P \union {n}) = Cardinality(P) + 1
    BY <1>3, <1>4, FS_AddElement
  <1>6. Occurrences(q, t) = Cardinality(P)
    BY DEF Occurrences, P
  <1>7. Occurrences(a, t) = IF u = t THEN Cardinality(P \union {n}) ELSE Cardinality(P)
    BY <1>2 DEF Occurrences
  <1> QED BY <1>4, <1>5, <1>6, <1>7 DEF a

\* A dispatch.
LEMMA CountTail ==
  ASSUME NEW S, NEW q \in Seq(S), q # << >>, NEW t
  PROVE  Occurrences(q, t) = Occurrences(Tail(q), t) + (IF Head(q) = t THEN 1 ELSE 0)
  <1> DEFINE r == Tail(q)
             P == Places(q, t)
             R == Places(r, t)
             f == [k \in R |-> k + 1]
  <1>1. /\ Len(q) \in Nat /\ DOMAIN q = 1 .. Len(q) /\ DOMAIN r = 1 .. Len(q) - 1
        /\ \A k \in DOMAIN r : r[k] = q[k + 1]
        /\ Head(q) = q[1] /\ 1 \in DOMAIN q
    OBVIOUS
  <1>2. r \in Seq(S)
    OBVIOUS
  <1> HIDE DEF r
  <1>3. \A k \in R : k \in Int /\ k + 1 \in P \ {1}
    BY <1>1 DEF Places
  <1>4. \A k \in P \ {1} : k - 1 \in R /\ k = (k - 1) + 1
    BY <1>1 DEF Places
  <1>5. ExistsBijection(R, P \ {1})
    <2>1. \A j, k \in R : j + 1 = k + 1 => j = k
      BY <1>3
    <2>2. f \in [R -> P \ {1}]
      BY <1>3
    <2>3. \A k \in P \ {1} : \E j \in R : f[j] = k
      BY <1>4
    <2>4. f \in Bijection(R, P \ {1})
      BY <2>1, <2>2, <2>3 DEF Bijection, Injection, Surjection, IsInjective
    <2> QED BY <2>4 DEF ExistsBijection
  <1>6. IsFiniteSet(P) /\ Cardinality(P) \in Nat /\ IsFiniteSet(R) /\ Cardinality(R) \in Nat
    BY <1>2, PlacesFinite DEF Occurrences
  <1>7. 1 \in P <=> Head(q) = t
    BY <1>1 DEF Places
  <1>8. Occurrences(q, t) = Cardinality(P) /\ Occurrences(r, t) = Cardinality(R)
    BY DEF Occurrences
  <1> HIDE DEF f, P, R
  <1>9. Cardinality(R) = Cardinality(P \ {1})
    BY <1>5, <1>6, FS_Bijection
  <1>10. Cardinality(P \ {1}) = IF 1 \in P THEN Cardinality(P) - 1 ELSE Cardinality(P)
    BY <1>6, FS_RemoveElement
  <1> QED BY <1>6, <1>7, <1>8, <1>9, <1>10 DEF r

\* The sizes of two sets without a common element add up.
LEMMA Disjoint ==
  ASSUME NEW A, NEW B, IsFiniteSet(A), IsFiniteSet(B), A \cap B = {}
  PROVE  /\ IsFiniteSet(A \union B)
         /\ Cardinality(A \union B) = Cardinality(A) + Cardinality(B)
  <1>1. /\ IsFiniteSet(A \union B)
        /\ Cardinality(A \union B) = Cardinality(A) + Cardinality(B) - Cardinality(A \cap B)
    BY FS_Union
  <1>2. Cardinality(A \cap B) = 0
    BY FS_EmptySet
  <1>3. Cardinality(A) \in Nat /\ Cardinality(B) \in Nat
    BY FS_CardinalityType
  <1> QED BY <1>1, <1>2, <1>3

\* The counts of all tasks, here of four, add up to the length of the queue.
LEMMA CountAll ==
  ASSUME NEW a, NEW b, NEW c, NEW d, a \notin {b, c, d}, b \notin {c, d}, c # d,
         NEW q \in Seq({a, b, c, d})
  PROVE  Len(q) = Occurrences(q, a) + Occurrences(q, b) + Occurrences(q, c) + Occurrences(q, d)
  <1> DEFINE A == Places(q, a)
             B == Places(q, b)
             C == Places(q, c)
             D == Places(q, d)
  <1>1. Len(q) \in Nat /\ DOMAIN q = 1 .. Len(q) /\ \A k \in DOMAIN q : q[k] \in {a, b, c, d}
    OBVIOUS
  <1>2. /\ IsFiniteSet(A) /\ IsFiniteSet(B) /\ IsFiniteSet(C) /\ IsFiniteSet(D)
        /\ Cardinality(1 .. Len(q)) = Len(q)
    BY PlacesFinite
  <1>3. /\ 1 .. Len(q) = ((A \union B) \union C) \union D
        /\ A \cap B = {} /\ (A \union B) \cap C = {} /\ ((A \union B) \union C) \cap D = {}
    BY <1>1 DEF Places
  <1>4. /\ Cardinality(A) \in Nat /\ Cardinality(B) \in Nat
        /\ Cardinality(C) \in Nat /\ Cardinality(D) \in Nat
    BY <1>2, FS_CardinalityType
  <1> HIDE DEF A, B, C, D
  <1>5. IsFiniteSet(A \union B) /\ Cardinality(A \union B) = Cardinality(A) + Cardinality(B)
    BY <1>2, <1>3, Disjoint
  <1>6. /\ IsFiniteSet((A \union B) \union C)
        /\ Cardinality((A \union B) \union C) = Cardinality(A \union B) + Cardinality(C)
    BY <1>2, <1>3, <1>5, Disjoint
  <1>7. Cardinality(((A \union B) \union C) \union D)
           = Cardinality((A \union B) \union C) + Cardinality(D)
    BY <1>2, <1>3, <1>6, Disjoint
  <1> QED BY <1>2, <1>3, <1>4, <1>5, <1>6, <1>7 DEF A, B, C, D, Occurrences

=============================================================================
