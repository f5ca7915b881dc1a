----------------------------- MODULE QueueLemmas -----------------------------
(***************************************************************************)
(* What the proofs need to know of queues: how often an element is in one, *)
(* and what appending and taking the head do to that number; and what is   *)
(* left of a call's list of steps when its first has been taken.           *)
(***************************************************************************)
EXTENDS Integers, Sequences, FiniteSetTheorems, TLAPS

Places(q, x) == {i \in DOMAIN q : q[i] = x}
Occurrences(q, x) == Cardinality(Places(q, x))

\* The places of an element in a queue are finitely many, and none when the queue
\* does not hold it.
LEMMA OccurrencesType ==
  ASSUME NEW S, NEW q \in Seq(S), NEW x
  PROVE  /\ IsFiniteSet(Places(q, x))
         /\ Occurrences(q, x) \in Nat
         /\ Occurrences(q, x) = 0 <=> \A i \in 1 .. Len(q) : q[i] # x
<1>1. IsFiniteSet(1 .. Len(q))
  BY FS_Interval
<1>2. Places(q, x) \subseteq 1 .. Len(q)
  BY DEF Places
<1>3. IsFiniteSet(Places(q, x))
  BY <1>1, <1>2, FS_Subset
<1>4. Occurrences(q, x) \in Nat
  BY <1>3, FS_CardinalityType DEF Occurrences
<1>5. Occurrences(q, x) = 0 <=> Places(q, x) = {}
  BY <1>3, FS_EmptySet DEF Occurrences
<1>6. Places(q, x) = {} <=> \A i \in 1 .. Len(q) : q[i] # x
  BY DEF Places
<1> QED
  BY <1>3, <1>4, <1>5, <1>6

\* Appending an element adds one to its own number.
LEMMA OccurrencesAppend ==
  ASSUME NEW S, NEW q \in Seq(S), NEW e \in S, NEW x
  PROVE  Occurrences(Append(q, e), x) =
           Occurrences(q, x) + (IF e = x THEN 1 ELSE 0)
<1>1. IsFiniteSet(Places(q, x)) /\ Occurrences(q, x) \in Nat
  BY OccurrencesType
<1>2. /\ Append(q, e) \in Seq(S)
      /\ DOMAIN Append(q, e) = 1 .. Len(q) + 1
      /\ \A i \in 1 .. Len(q) : Append(q, e)[i] = q[i]
      /\ Append(q, e)[Len(q) + 1] = e
      /\ Len(q) \in Nat
      /\ DOMAIN q = 1 .. Len(q)
  OBVIOUS
<1>3. CASE e = x
  <2>1. Places(Append(q, e), x) = Places(q, x) \cup {Len(q) + 1}
    BY <1>2, <1>3 DEF Places
  <2>2. Len(q) + 1 \notin Places(q, x)
    BY <1>2 DEF Places
  <2> QED
    BY <1>1, <1>3, <2>1, <2>2, FS_AddElement DEF Occurrences
<1>4. CASE e # x
  <2>1. Places(Append(q, e), x) = Places(q, x)
    BY <1>2, <1>4 DEF Places
  <2> QED
    BY <1>1, <1>4, <2>1 DEF Occurrences
<1> QED
  BY <1>3, <1>4

\* Taking the head of a queue takes one from the head's number.
LEMMA OccurrencesTail ==
  ASSUME NEW S, NEW q \in Seq(S), q # <<>>, NEW x
  PROVE  Occurrences(Tail(q), x) =
           Occurrences(q, x) - (IF Head(q) = x THEN 1 ELSE 0)
<1> DEFINE Behind == Places(q, x) \ {1}
           shift == [i \in Behind |-> i - 1]
<1>1. IsFiniteSet(Places(q, x)) /\ Occurrences(q, x) \in Nat
  BY OccurrencesType
<1>2. /\ Len(q) \in Nat \ {0} /\ DOMAIN q = 1 .. Len(q)
      /\ Head(q) = q[1]
      /\ DOMAIN Tail(q) = 1 .. Len(q) - 1
      /\ \A i \in 1 .. Len(q) - 1 : Tail(q)[i] = q[i + 1]
  OBVIOUS
<1>3. IsFiniteSet(Behind)
  BY <1>1, FS_RemoveElement
<1>4. Cardinality(Behind) = Occurrences(q, x) - (IF Head(q) = x THEN 1 ELSE 0)
  <2>1. Cardinality(Behind) =
          IF 1 \in Places(q, x) THEN Occurrences(q, x) - 1 ELSE Occurrences(q, x)
    BY <1>1, FS_RemoveElement DEF Occurrences
  <2>2. 1 \in Places(q, x) <=> Head(q) = x
    BY <1>2 DEF Places
  <2> QED
    BY <1>1, <2>1, <2>2
<1>5. shift \in Bijection(Behind, Places(Tail(q), x))
  <2>1. \A i \in Behind : i \in 2 .. Len(q) /\ q[i] = x /\ shift[i] = i - 1
    BY <1>2 DEF Places
  <2>2. shift \in [Behind -> Places(Tail(q), x)]
    BY <1>2, <2>1 DEF Places
  <2>3. \A i, j \in Behind : shift[i] = shift[j] => i = j
    BY <2>1
  <2>4. \A k \in Places(Tail(q), x) : \E i \in Behind : shift[i] = k
    <3> SUFFICES ASSUME NEW k \in Places(Tail(q), x) PROVE \E i \in Behind : shift[i] = k
      OBVIOUS
    <3>1. k \in 1 .. Len(q) - 1 /\ q[k + 1] = x
      BY <1>2 DEF Places
    <3>2. k + 1 \in Behind
      BY <1>2, <3>1 DEF Places
    <3>3. shift[k + 1] = k
      BY <2>1, <3>1, <3>2
    <3> QED
      BY <3>2, <3>3
  <2> HIDE DEF Behind, shift
  <2>5. shift \in Injection(Behind, Places(Tail(q), x))
    BY <2>2, <2>3 DEF Injection, IsInjective
  <2>6. shift \in Surjection(Behind, Places(Tail(q), x))
    BY <2>2, <2>4 DEF Surjection
  <2> QED
    BY <2>5, <2>6 DEF Bijection
<1>6. ExistsBijection(Behind, Places(Tail(q), x))
  BY <1>5 DEF ExistsBijection
<1>7. Cardinality(Places(Tail(q), x)) = Cardinality(Behind)
  BY <1>3, <1>6, FS_Bijection
<1> QED
  BY <1>4, <1>7 DEF Occurrences

\* The same without arithmetic for the elements that are not moved.
LEMMA OccurrencesMoved ==
  ASSUME NEW S, NEW q \in Seq(S)
  PROVE  /\ \A e \in S : /\ Occurrences(Append(q, e), e) = Occurrences(q, e) + 1
                         /\ \A x : x # e => Occurrences(Append(q, e), x) = Occurrences(q, x)
         /\ q # <<>> =>
              /\ Occurrences(Tail(q), Head(q)) \in Nat
              /\ Occurrences(q, Head(q)) = Occurrences(Tail(q), Head(q)) + 1
              /\ \A x : x # Head(q) => Occurrences(Tail(q), x) = Occurrences(q, x)
<1>1. \A x : Occurrences(q, x) \in Nat
  BY OccurrencesType
<1>2. ASSUME NEW e \in S
      PROVE  /\ Occurrences(Append(q, e), e) = Occurrences(q, e) + 1
             /\ \A x : x # e => Occurrences(Append(q, e), x) = Occurrences(q, x)
  <2>1. Occurrences(Append(q, e), e) = Occurrences(q, e) + 1
    BY OccurrencesAppend
  <2>2. ASSUME NEW x, x # e PROVE Occurrences(Append(q, e), x) = Occurrences(q, x)
    <3>1. Occurrences(Append(q, e), x) = Occurrences(q, x) + (IF e = x THEN 1 ELSE 0)
      BY OccurrencesAppend
    <3>2. (IF e = x THEN 1 ELSE 0) = 0
      BY <2>2
    <3> QED
      BY <1>1, <3>1, <3>2
  <2> QED
    BY <2>1, <2>2
<1>3. ASSUME q # <<>>
      PROVE  /\ Occurrences(Tail(q), Head(q)) \in Nat
             /\ Occurrences(q, Head(q)) = Occurrences(Tail(q), Head(q)) + 1
             /\ \A x : x # Head(q) => Occurrences(Tail(q), x) = Occurrences(q, x)
  <2>1. Tail(q) \in Seq(S)
    BY <1>3
  <2>2. Occurrences(Tail(q), Head(q)) \in Nat
    BY <2>1, OccurrencesType
  <2>3. Occurrences(Tail(q), Head(q)) = Occurrences(q, Head(q)) - 1
    BY <1>3, OccurrencesTail
  <2>4. ASSUME NEW x, x # Head(q) PROVE Occurrences(Tail(q), x) = Occurrences(q, x)
    <3>1. Occurrences(Tail(q), x) = Occurrences(q, x) - (IF Head(q) = x THEN 1 ELSE 0)
      BY <1>3, OccurrencesTail
    <3>2. (IF Head(q) = x THEN 1 ELSE 0) = 0
      BY <2>4
    <3> QED
      BY <1>1, <3>1, <3>2
  <2> QED
    BY <1>1, <2>2, <2>3, <2>4
<1> QED
  BY <1>2, <1>3

-----------------------------------------------------------------------------
(* Lists of up to three steps *)

\* The tail of q, when p is q moved by one place.
LEMMA TailIs ==
  ASSUME NEW S, NEW q \in Seq(S), NEW p \in Seq(S), q # <<>>, Len(p) = Len(q) - 1,
         \A i \in 1 .. Len(p) : p[i] = q[i + 1]
  PROVE  Tail(q) = p
<1>1. Tail(q) \in Seq(S) /\ Len(Tail(q)) = Len(p) /\ Len(p) \in Nat
  OBVIOUS
<1>2. \A i \in 1 .. Len(p) : Tail(q)[i] = q[i + 1]
  OBVIOUS
<1> QED
  BY <1>1, <1>2

LEMMA One ==
  ASSUME NEW S, NEW a \in S
  PROVE  <<a>> # <<>> /\ Head(<<a>>) = a /\ Tail(<<a>>) = <<>>
OBVIOUS

LEMMA Two ==
  ASSUME NEW S, NEW a \in S, NEW b \in S
  PROVE  <<a, b>> # <<>> /\ Head(<<a, b>>) = a /\ Tail(<<a, b>>) = <<b>>
<1> DEFINE t == <<a, b>>
           u == <<b>>
<1>1. t \in Seq(S) /\ u \in Seq(S) /\ t # <<>> /\ Len(t) = 2 /\ Len(u) = 1
  OBVIOUS
<1>2. Head(t) = a /\ t[2] = b /\ u[1] = b
  OBVIOUS
<1>3. \A i \in 1 .. Len(u) : u[i] = t[i + 1]
  <2>1. \A i \in 1 .. Len(u) : i = 1
    BY <1>1
  <2>2. u[1] = t[1 + 1]
    BY <1>2
  <2> QED
    BY <2>1, <2>2
<1>4. Tail(t) = u
  BY <1>1, <1>3, TailIs
<1> QED
  BY <1>1, <1>2, <1>4

LEMMA Three ==
  ASSUME NEW S, NEW a \in S, NEW b \in S, NEW c \in S
  PROVE  /\ <<a, b, c>> # <<>>
         /\ Head(<<a, b, c>>) = a /\ Tail(<<a, b, c>>) = <<b, c>>
<1> DEFINE t == <<a, b, c>>
           u == <<b, c>>
<1>1. t \in Seq(S) /\ u \in Seq(S) /\ t # <<>> /\ Len(t) = 3 /\ Len(u) = 2
  OBVIOUS
<1>2. Head(t) = a /\ t[2] = b /\ t[3] = c /\ u[1] = b /\ u[2] = c
  OBVIOUS
<1>3. \A i \in 1 .. Len(u) : u[i] = t[i + 1]
  <2>1. \A i \in 1 .. Len(u) : i = 1 \/ i = 2
    BY <1>1
  <2>2. u[1] = t[1 + 1] /\ u[2] = t[2 + 1]
    BY <1>2
  <2> QED
    BY <2>1, <2>2
<1>4. Tail(t) = u
  BY <1>1, <1>3, TailIs
<1> QED
  BY <1>1, <1>2, <1>4
=============================================================================
