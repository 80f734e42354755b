------------------------------- MODULE Counting -------------------------------
(***************************************************************************)
(* Sequences used as queues, and counting the elements of a sequence that  *)
(* have a property, and those of several sequences together: what an       *)
(* append, a removal and an update do to the numbers.  Properties are sets *)
(* of values; the numbers are cardinalities of sets of positions.          *)
(***************************************************************************)
EXTENDS Integers, Sequences, FiniteSets, FiniteSetTheorems, SequenceTheorems, TLAPS

\* What an append and a removal do to a sequence.
LEMMA AppendFacts ==
    ASSUME NEW S, NEW q \in Seq(S), NEW e \in S
    PROVE  /\ Append(q, e) \in Seq(S)
           /\ Append(q, e) # <<>>
           /\ Len(q) \in Nat
           /\ DOMAIN q = 1 .. Len(q)
           /\ Len(Append(q, e)) = Len(q) + 1
           /\ DOMAIN Append(q, e) = 1 .. Len(q) + 1
           /\ \A i \in 1 .. Len(q) : Append(q, e)[i] = q[i]
           /\ Append(q, e)[Len(q) + 1] = e
BY AppendProperties, LenProperties

LEMMA TailFacts ==
    ASSUME NEW S, NEW q \in Seq(S), q # <<>>
    PROVE  /\ Head(q) = q[1] /\ Head(q) \in S
           /\ Tail(q) \in Seq(S)
           /\ Len(q) \in Nat \ {0}
           /\ DOMAIN q = 1 .. Len(q)
           /\ Len(Tail(q)) = Len(q) - 1
           /\ DOMAIN Tail(q) = 1 .. Len(q) - 1
           /\ \A i \in 1 .. Len(q) - 1 : Tail(q)[i] = q[i + 1]
<1>1. Len(q) \in Nat \ {0} /\ DOMAIN q = 1 .. Len(q)
  BY EmptySeq, LenProperties
<1>2. /\ Head(q) \in S
      /\ Tail(q) \in Seq(S)
      /\ Len(Tail(q)) = Len(q) - 1
      /\ \A i \in 1 .. Len(Tail(q)) : Tail(q)[i] = q[i + 1]
  BY HeadTailProperties
<1>3. Head(q) = q[1]
  OBVIOUS
<1>4. DOMAIN Tail(q) = 1 .. Len(Tail(q))
  BY <1>2, LenProperties
<1> QED
  BY <1>1, <1>2, <1>3, <1>4

LEMMA IntervalSize ==
    ASSUME NEW n \in Nat
    PROVE  IsFiniteSet(1 .. n) /\ Cardinality(1 .. n) = n
<1>1. /\ IsFiniteSet(1 .. n)
      /\ Cardinality(1 .. n) = IF 1 > n THEN 0 ELSE n - 1 + 1
  BY FS_Interval
<1> QED
  BY <1>1

LEMMA DisjointUnion ==
    ASSUME NEW A, NEW B, IsFiniteSet(A), IsFiniteSet(B), \A x \in A : x \notin B
    PROVE  /\ IsFiniteSet(A \cup B)
           /\ Cardinality(A) \in Nat /\ Cardinality(B) \in Nat
           /\ Cardinality(A \cup B) = Cardinality(A) + Cardinality(B)
<1>1. A \cap B = {}
  OBVIOUS
<1>2. Cardinality(A \cap B) = 0
  BY <1>1, FS_EmptySet
<1> QED
  BY <1>2, FS_Union, FS_CardinalityType

LEMMA TagSize ==
    ASSUME NEW t, NEW A, IsFiniteSet(A)
    PROVE  IsFiniteSet({t} \X A) /\ Cardinality({t} \X A) = Cardinality(A)
<1>1. IsFiniteSet({t}) /\ Cardinality({t}) = 1 /\ Cardinality(A) \in Nat
  BY FS_Singleton, FS_CardinalityType
<1>2. IsFiniteSet({t} \X A) /\ Cardinality({t} \X A) = 1 * Cardinality(A)
  BY <1>1, FS_Product
<1> QED
  BY <1>1, <1>2

-----------------------------------------------------------------------------
\* The positions of the elements of q that are in V.
Positions(q, V) == {i \in DOMAIN q : q[i] \in V}

One(condition) == IF condition THEN 1 ELSE 0

\* The positions are finitely many, and none in an empty sequence.
LEMMA PositionsFinite ==
    ASSUME NEW S, NEW q \in Seq(S), NEW V
    PROVE  /\ IsFiniteSet(Positions(q, V))
           /\ Cardinality(Positions(q, V)) \in Nat
           /\ q = <<>> => Cardinality(Positions(q, V)) = 0
<1>1. Len(q) \in Nat /\ DOMAIN q = 1 .. Len(q)
  BY LenProperties
<1>2. IsFiniteSet(1 .. Len(q))
  BY <1>1, FS_Interval
<1>3. IsFiniteSet(Positions(q, V))
  BY <1>1, <1>2, FS_Subset DEF Positions
<1>4. q = <<>> => Positions(q, V) = {}
  BY <1>1 DEF Positions
<1> QED
  BY <1>3, <1>4, FS_CardinalityType, FS_EmptySet

LEMMA CountAppend ==
    ASSUME NEW S, NEW q \in Seq(S), NEW x \in S, NEW V
    PROVE  Cardinality(Positions(Append(q, x), V))
              = Cardinality(Positions(q, V)) + One(x \in V)
<1> DEFINE t == Append(q, x)
           n == Len(q) + 1
<1>1. /\ Len(q) \in Nat /\ DOMAIN q = 1 .. Len(q)
      /\ DOMAIN t = 1 .. n /\ t[n] = x
      /\ \A i \in 1 .. Len(q) : t[i] = q[i]
  BY AppendProperties, LenProperties
<1> HIDE DEF t
<1>2. n \notin Positions(q, V)
  BY <1>1 DEF Positions
<1>3. Positions(t, V) = IF x \in V THEN Positions(q, V) \cup {n} ELSE Positions(q, V)
  <2>1. \A i : i \in 1 .. n <=> i \in 1 .. Len(q) \/ i = n
    BY <1>1
  <2>2. \A i : i \in Positions(t, V) <=> i \in Positions(q, V) \/ (i = n /\ x \in V)
    BY <1>1, <2>1 DEF Positions
  <2> QED
    BY <2>2
<1>4. IsFiniteSet(Positions(q, V)) /\ Cardinality(Positions(q, V)) \in Nat
  BY PositionsFinite
<1>5. Cardinality(Positions(q, V) \cup {n}) = Cardinality(Positions(q, V)) + 1
  BY <1>2, <1>4, FS_AddElement
<1>6. Cardinality(Positions(t, V)) = Cardinality(Positions(q, V)) + One(x \in V)
  BY <1>3, <1>4, <1>5 DEF One
<1> QED
  BY <1>6 DEF t

LEMMA CountTail ==
    ASSUME NEW S, NEW q \in Seq(S), q # <<>>, NEW V
    PROVE  Cardinality(Positions(Tail(q), V))
              = Cardinality(Positions(q, V)) - One(Head(q) \in V)
<1> DEFINE t == Tail(q)
           P == Positions(q, V)
           R == Positions(t, V)
<1>1. /\ Head(q) = q[1] /\ Len(q) \in Nat \ {0} /\ DOMAIN q = 1 .. Len(q)
      /\ t \in Seq(S) /\ DOMAIN t = 1 .. Len(q) - 1
      /\ \A i \in 1 .. Len(q) - 1 : t[i] = q[i + 1]
  BY HeadTailProperties, EmptySeq, LenProperties
<1> HIDE DEF t
<1>2. IsFiniteSet(P) /\ IsFiniteSet(R) /\ IsFiniteSet(P \ {1}) /\ Cardinality(P) \in Nat
  BY <1>1, PositionsFinite, FS_Subset
<1>3. Cardinality(P \ {1}) = Cardinality(R)
  <2> DEFINE f == [i \in R |-> i + 1]
  <2>1. \A i \in R : i \in Nat /\ i + 1 \in P \ {1}
    BY <1>1 DEF Positions
  <2>2. \A j \in P \ {1} : j - 1 \in R /\ j = (j - 1) + 1
    BY <1>1 DEF Positions
  <2>3. f \in Bijection(R, P \ {1})
    <3>1. f \in [R -> P \ {1}]
      BY <2>1
    <3>2. \A i, j \in R : f[i] = f[j] => i = j
      BY <2>1
    <3>3. \A j \in P \ {1} : \E i \in R : f[i] = j
      BY <2>2
    <3> HIDE DEF f, P, R
    <3>4. DOMAIN f = R
      BY <3>1
    <3>5. f \in Injection(R, P \ {1})
      BY <3>1, <3>2, <3>4 DEF Injection, IsInjective
    <3>6. f \in Surjection(R, P \ {1})
      BY <3>1, <3>3 DEF Surjection
    <3> QED
      BY <3>5, <3>6 DEF Bijection
  <2> QED
    BY <1>2, <2>3, FS_Bijection DEF ExistsBijection
<1>4. 1 \in P <=> Head(q) \in V
  BY <1>1 DEF Positions
<1> HIDE DEF P, R
<1>5. P \ {1} = IF Head(q) \in V THEN P \ {1} ELSE P
  BY <1>4
<1>6. Head(q) \in V => Cardinality(P \ {1}) = Cardinality(P) - 1
  BY <1>2, <1>4, FS_RemoveElement
<1>7. CASE Head(q) \in V
  <2>1. One(Head(q) \in V) = 1
    BY <1>7 DEF One
  <2> QED
    BY <1>2, <1>3, <1>6, <1>7, <2>1 DEF P, R, t
<1>8. CASE Head(q) \notin V
  <2>1. One(Head(q) \in V) = 0
    BY <1>8 DEF One
  <2>2. Cardinality(R) = Cardinality(P)
    BY <1>3, <1>5, <1>8
  <2>3. Cardinality(R) = Cardinality(P) - One(Head(q) \in V)
    BY <1>2, <2>1, <2>2
  <2> QED
    BY <2>3 DEF P, R, t
<1> QED
  BY <1>7, <1>8

-----------------------------------------------------------------------------
(* Several finite sets, together: Tagged(f, J) has the elements of the sets *)
(* f[j], each with its j, so that their numbers add up.                    *)

Tagged(f, J) == UNION {{j} \X f[j] : j \in J}

LEMMA TaggedFinite ==
    ASSUME NEW J, IsFiniteSet(J), NEW f, \A j \in J : IsFiniteSet(f[j])
    PROVE  IsFiniteSet(Tagged(f, J)) /\ Cardinality(Tagged(f, J)) \in Nat
<1> DEFINE F == [j \in J |-> {j} \X f[j]]
           T == {F[j] : j \in J}
<1>1. IsFiniteSet(T)
  <2>1. F \in Surjection(J, T)
    <3>1. F \in [J -> T] /\ \A t \in T : \E j \in J : F[j] = t
      OBVIOUS
    <3> QED
      BY <3>1 DEF Surjection
  <2> QED
    BY <2>1, FS_Surjection
<1>2. \A t \in T : IsFiniteSet(t)
  <2> SUFFICES ASSUME NEW j \in J PROVE IsFiniteSet({j} \X f[j])
    OBVIOUS
  <2> QED
    BY FS_Singleton, FS_Product
<1>3. Tagged(f, J) = UNION T
  BY DEF Tagged
<1> QED
  BY <1>1, <1>2, <1>3, FS_UNION, FS_CardinalityType

\* The elements with tag j, and the others.
LEMMA TaggedSplit ==
    ASSUME NEW J, IsFiniteSet(J), NEW f, \A k \in J : IsFiniteSet(f[k]), NEW j \in J
    PROVE  Cardinality(Tagged(f, J)) = Cardinality(Tagged(f, J \ {j})) + Cardinality(f[j])
<1> DEFINE A == Tagged(f, J \ {j})
           B == {j} \X f[j]
<1>1. Tagged(f, J) = A \cup B /\ A \cap B = {}
  BY DEF Tagged
<1>2. IsFiniteSet(A) /\ Cardinality(A) \in Nat
  <2>1. IsFiniteSet(J \ {j}) /\ \A k \in J \ {j} : IsFiniteSet(f[k])
    BY FS_Subset
  <2> QED
    BY <2>1, TaggedFinite
<1>3. IsFiniteSet(f[j]) /\ Cardinality(f[j]) \in Nat
  BY FS_CardinalityType
<1>4. IsFiniteSet(B) /\ Cardinality(B) = Cardinality(f[j])
  BY <1>3, TagSize
<1> HIDE DEF A, B
<1>5. Cardinality(A \cup B) = Cardinality(A) + Cardinality(B) - Cardinality(A \cap B)
  BY <1>2, <1>4, FS_Union
<1>6. Cardinality(A \cap B) = 0
  BY <1>1, FS_EmptySet
<1>7. Cardinality(Tagged(f, J)) = Cardinality(A) + Cardinality(f[j])
  BY <1>1, <1>2, <1>3, <1>4, <1>5, <1>6
<1> QED
  BY <1>7 DEF A

\* The number changes by as much as the one set that changes.
LEMMA TaggedUpdate ==
    ASSUME NEW J, IsFiniteSet(J), NEW f, NEW g, NEW j,
           \A k \in J : IsFiniteSet(f[k]) /\ IsFiniteSet(g[k]),
           \A k \in J \ {j} : g[k] = f[k]
    PROVE  Cardinality(Tagged(g, J)) =
              IF j \in J THEN Cardinality(Tagged(f, J)) - Cardinality(f[j]) + Cardinality(g[j])
                         ELSE Cardinality(Tagged(f, J))
<1>1. CASE j \in J
  <2>1. Tagged(g, J \ {j}) = Tagged(f, J \ {j})
    BY DEF Tagged
  <2>2. IsFiniteSet(J \ {j}) /\ \A k \in J \ {j} : IsFiniteSet(f[k])
    BY FS_Subset
  <2>3. Cardinality(Tagged(f, J \ {j})) \in Nat
    BY <2>2, TaggedFinite
  <2>4. /\ Cardinality(Tagged(f, J)) = Cardinality(Tagged(f, J \ {j})) + Cardinality(f[j])
        /\ Cardinality(Tagged(g, J)) = Cardinality(Tagged(g, J \ {j})) + Cardinality(g[j])
    BY <1>1, TaggedSplit
  <2>5. Cardinality(f[j]) \in Nat /\ Cardinality(g[j]) \in Nat
    BY <1>1, FS_CardinalityType
  <2> QED
    BY <1>1, <2>1, <2>3, <2>4, <2>5
<1>2. CASE j \notin J
  <2>1. Tagged(g, J) = Tagged(f, J)
    BY <1>2 DEF Tagged
  <2> QED
    BY <1>2, <2>1
<1> QED
  BY <1>1, <1>2

===============================================================================
