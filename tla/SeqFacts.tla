------------------------------ MODULE SeqFacts ------------------------------
(***************************************************************************)
(* Facts about sequences without repetition, which is what the kernel's    *)
(* queues of process ids, table entries and mutex ids are meant to be.     *)
(***************************************************************************)
EXTENDS SequenceTheorems, FiniteSetTheorems, TLAPS

(* What a sequence of length n is, element by element.                     *)
LEMMA RangeFacts ==
  ASSUME NEW S, NEW q \in Seq(S)
  PROVE  /\ Range(q) = {q[k] : k \in 1 .. Len(q)}
         /\ Range(q) \subseteq S
         /\ IsInjective(q) <=> \A j, k \in 1 .. Len(q) : q[j] = q[k] => j = k
<1>1. DOMAIN q = 1 .. Len(q) /\ q \in [1 .. Len(q) -> S]
  BY LenProperties
<1>2. QED
  BY <1>1 DEF Range, IsInjective

(* The empty sequence has no places and no items.                          *)
LEMMA EmptyFacts ==
  /\ 1 .. Len(<<>>) = {}
  /\ Range(<<>>) = {}
  /\ IsInjective(<<>>)
<1>1. 1 .. 0 = {}
  OBVIOUS
<1>2. Len(<<>>) = 0
  OBVIOUS
<1>3. 1 .. Len(<<>>) = {}
  BY <1>1, <1>2
<1>4. Range(<<>>) = {} /\ IsInjective(<<>>)
  BY DEF Range, IsInjective
<1> QED BY <1>3, <1>4

(* An item added at the end: a queue stays free of repetition if the item  *)
(* is new.                                                                 *)
LEMMA AppendFacts ==
  ASSUME NEW S, NEW q \in Seq(S), NEW x \in S
  PROVE  /\ Append(q, x) \in Seq(S)
         /\ Range(Append(q, x)) = Range(q) \cup {x}
         /\ IsInjective(q) /\ x \notin Range(q) => IsInjective(Append(q, x))
<1> DEFINE a == Append(q, x)
<1>1. /\ a \in Seq(S)
      /\ Len(a) = Len(q) + 1
      /\ \A k \in 1 .. Len(q) : a[k] = q[k]
      /\ a[Len(q) + 1] = x
  BY AppendProperties
<1>2. Len(q) \in Nat
  BY LenProperties
<1> HIDE DEF a
<1>3. Range(a) = Range(q) \cup {x}
  <2>1. Range(a) = {a[k] : k \in 1 .. Len(q) + 1}
    BY <1>1, RangeFacts
  <2>2. Range(q) = {q[k] : k \in 1 .. Len(q)}
    BY RangeFacts
  <2>3. 1 .. Len(q) + 1 = (1 .. Len(q)) \cup {Len(q) + 1}
    BY <1>2
  <2>4. QED
    BY <2>1, <2>2, <2>3, <1>1
<1>4. ASSUME IsInjective(q), x \notin Range(q)
      PROVE  IsInjective(a)
  <2>1. \A j, k \in 1 .. Len(q) : q[j] = q[k] => j = k
    BY <1>4, RangeFacts
  <2>2. \A k \in 1 .. Len(q) : q[k] # x
    BY <1>4, RangeFacts
  <2>3. \A j, k \in 1 .. Len(a) : a[j] = a[k] => j = k
    BY <1>1, <1>2, <2>1, <2>2
  <2>4. QED
    BY <2>3, <1>1, RangeFacts
<1>5. QED
  BY <1>1, <1>3, <1>4 DEF a

(* The head taken away: a queue free of repetition loses just that item.   *)
LEMMA TailFacts ==
  ASSUME NEW S, NEW q \in Seq(S), q # <<>>, IsInjective(q)
  PROVE  /\ Head(q) \in Range(q)
         /\ Tail(q) \in Seq(S)
         /\ IsInjective(Tail(q))
         /\ Range(Tail(q)) = Range(q) \ {Head(q)}
<1> DEFINE t == Tail(q)
<1>1. /\ t \in Seq(S)
      /\ Len(t) = Len(q) - 1
      /\ \A k \in 1 .. Len(t) : t[k] = q[k + 1]
      /\ Head(q) = q[1]
      /\ Len(q) \in Nat \ {0}
  BY HeadTailProperties, EmptySeq
<1> HIDE DEF t
<1>2. \A j, k \in 1 .. Len(q) : q[j] = q[k] => j = k
  BY RangeFacts
<1>3. IsInjective(t)
  <2>1. \A j, k \in 1 .. Len(t) : t[j] = t[k] => j = k
    BY <1>1, <1>2
  <2>2. QED
    BY <2>1, <1>1, RangeFacts
<1>4. Range(q) = {q[k] : k \in 1 .. Len(q)} /\ Range(t) = {t[k] : k \in 1 .. Len(t)}
  BY <1>1, RangeFacts
<1>5. ASSUME NEW x \in Range(t)
      PROVE  x \in Range(q) \ {Head(q)}
  BY <1>1, <1>2, <1>4, <1>5
<1>6. ASSUME NEW x \in Range(q), x # Head(q)
      PROVE  x \in Range(t)
  <2>1. PICK k \in 1 .. Len(q) : x = q[k]
    BY <1>4, <1>6
  <2>2. k - 1 \in 1 .. Len(t) /\ t[k - 1] = q[k]
    BY <2>1, <1>1, <1>6
  <2>3. QED
    BY <2>1, <2>2, <1>4
<1>7. QED
  BY <1>1, <1>3, <1>4, <1>5, <1>6 DEF t

(* Two queues one after the other.                                         *)
LEMMA ConcatFacts ==
  ASSUME NEW S, NEW p \in Seq(S), NEW q \in Seq(S)
  PROVE  /\ p \o q \in Seq(S)
         /\ Range(p \o q) = Range(p) \cup Range(q)
         /\ IsInjective(p) /\ IsInjective(q) /\ Range(p) \cap Range(q) = {}
              => IsInjective(p \o q)
<1> DEFINE c == p \o q
<1>1. /\ c \in Seq(S)
      /\ Len(c) = Len(p) + Len(q)
      /\ \A k \in 1 .. Len(c) : c[k] = IF k <= Len(p) THEN p[k] ELSE q[k - Len(p)]
  <2>1. c \in Seq(S) /\ Len(c) = Len(p) + Len(q)
    BY ConcatProperties
  <2>2. \A k \in 1 .. Len(p) + Len(q) : c[k] = IF k <= Len(p) THEN p[k] ELSE q[k - Len(p)]
    BY ConcatProperties
  <2>3. QED
    BY <2>1, <2>2
<1>2. Len(p) \in Nat /\ Len(q) \in Nat
  BY LenProperties
<1> HIDE DEF c
<1>3. ASSUME IsInjective(p), IsInjective(q), Range(p) \cap Range(q) = {}
      PROVE  IsInjective(c)
  <2>1. /\ \A j, k \in 1 .. Len(p) : p[j] = p[k] => j = k
        /\ \A j, k \in 1 .. Len(q) : q[j] = q[k] => j = k
        /\ \A j \in 1 .. Len(p) : \A k \in 1 .. Len(q) : p[j] # q[k]
    <3>1. \A j, k \in 1 .. Len(p) : p[j] = p[k] => j = k
      BY <1>3, RangeFacts
    <3>2. \A j, k \in 1 .. Len(q) : q[j] = q[k] => j = k
      BY <1>3, RangeFacts
    <3>3. Range(p) = {p[k] : k \in 1 .. Len(p)}
      BY RangeFacts
    <3>4. Range(q) = {q[k] : k \in 1 .. Len(q)}
      BY RangeFacts
    <3>5. QED
      BY <1>3, <3>1, <3>2, <3>3, <3>4
  <2>2. ASSUME NEW j \in 1 .. Len(c), NEW k \in 1 .. Len(c), c[j] = c[k]
        PROVE  j = k
    <3>1. CASE j <= Len(p) /\ k <= Len(p)
      BY <3>1, <2>1, <2>2, <1>1, <1>2
    <3>2. CASE j <= Len(p) /\ ~(k <= Len(p))
      BY <3>2, <2>1, <2>2, <1>1, <1>2
    <3>3. CASE ~(j <= Len(p)) /\ k <= Len(p)
      BY <3>3, <2>1, <2>2, <1>1, <1>2, SMTT(40)
    <3>4. CASE ~(j <= Len(p)) /\ ~(k <= Len(p))
      <4>1. j - Len(p) \in 1 .. Len(q) /\ k - Len(p) \in 1 .. Len(q)
        BY <3>4, <1>1, <1>2
      <4>2. q[j - Len(p)] = q[k - Len(p)]
        BY <3>4, <2>2, <1>1
      <4>3. j - Len(p) = k - Len(p)
        BY <4>1, <4>2, <2>1
      <4>4. QED
        BY <4>3, <1>1, <1>2
    <3>5. QED
      BY <3>1, <3>2, <3>3, <3>4
  <2>3. QED
    BY <2>2, <1>1, RangeFacts
<1>4. QED
  BY <1>1, <1>3, RangeConcatenation DEF c

(* The first of two queues is the beginning of both.                       *)
LEMMA PrefixOfConcat ==
  ASSUME NEW S, NEW p \in Seq(S), NEW q \in Seq(S)
  PROVE  /\ Len(p) <= Len(p \o q)
         /\ SubSeq(p \o q, 1, Len(p)) = p
<1>1. Len(p) \in Nat /\ Len(q) \in Nat /\ Len(p \o q) = Len(p) + Len(q)
  BY LenProperties, ConcatProperties
<1>2. CASE p = <<>>
  <2>1. Len(p) = 0
    BY <1>2
  <2>2. SubSeq(p \o q, 1, 0) = <<>>
    BY SubSeqEmpty
  <2>3. QED
    BY <1>1, <1>2, <2>1, <2>2
<1>3. CASE p # <<>>
  <2>1. Len(p) \in 1 .. Len(p) /\ 1 \in 1 .. Len(p)
    BY <1>1, <1>3, EmptySeq
  <2>2. SubSeq(p \o q, 1, Len(p)) = SubSeq(p, 1, Len(p))
    BY <2>1, SubSeqOfConcat1
  <2>3. QED
    BY <1>1, <2>2, SubSeqFull
<1>4. QED
  BY <1>2, <1>3

(* Taking from two queues one after the other takes from the first.        *)
LEMMA HeadTailOfConcat ==
  ASSUME NEW S, NEW p \in Seq(S), NEW q \in Seq(S), p # <<>>
  PROVE  /\ p \o q # <<>>
         /\ Head(p \o q) = Head(p)
         /\ Tail(p \o q) = Tail(p) \o q
<1> DEFINE c == p \o q
           t == Tail(p)
           d == t \o q
<1>1. /\ c \in Seq(S)
      /\ Len(c) = Len(p) + Len(q)
      /\ \A k \in 1 .. Len(p) + Len(q) : c[k] = IF k <= Len(p) THEN p[k] ELSE q[k - Len(p)]
  BY ConcatProperties
<1>2. /\ t \in Seq(S)
      /\ Len(t) = Len(p) - 1
      /\ \A k \in 1 .. Len(t) : t[k] = p[k + 1]
      /\ Head(p) = p[1]
  BY HeadTailProperties
<1>3. Len(p) \in Nat \ {0} /\ Len(q) \in Nat
  BY EmptySeq, LenProperties
<1>4. c # <<>>
  BY <1>1, <1>3, EmptySeq
<1>5. Head(c) = c[1] /\ c[1] = p[1]
  BY <1>1, <1>3, <1>4
<1> HIDE DEF c, t
<1>6. /\ d \in Seq(S)
      /\ Len(d) = Len(t) + Len(q)
      /\ \A k \in 1 .. Len(t) + Len(q) : d[k] = IF k <= Len(t) THEN t[k] ELSE q[k - Len(t)]
  BY <1>2, ConcatProperties
<1>7. /\ Tail(c) \in Seq(S)
      /\ Len(Tail(c)) = Len(c) - 1
      /\ \A k \in 1 .. Len(Tail(c)) : Tail(c)[k] = c[k + 1]
  BY <1>1, <1>4, HeadTailProperties
<1> HIDE DEF d
<1>8. \A k \in 1 .. Len(d) : d[k] = Tail(c)[k]
  <2> SUFFICES ASSUME NEW k \in 1 .. Len(d)
               PROVE  d[k] = Tail(c)[k]
    OBVIOUS
  <2>1. Tail(c)[k] = c[k + 1] /\ k + 1 \in 1 .. Len(p) + Len(q)
    BY <1>1, <1>2, <1>3, <1>6, <1>7
  <2>2. CASE k <= Len(t)
    BY <2>1, <2>2, <1>1, <1>2, <1>3, <1>6, SMTT(40)
  <2>3. CASE ~(k <= Len(t))
    <3>1. k + 1 - Len(p) = k - Len(t) /\ ~(k + 1 <= Len(p))
      BY <2>3, <1>2, <1>3
    <3>2. QED
      BY <2>1, <2>3, <3>1, <1>1, <1>6
  <2>4. QED
    BY <2>2, <2>3
<1>9. Tail(c) = d
  <2>1. Len(d) = Len(Tail(c))
    BY <1>1, <1>2, <1>3, <1>6, <1>7
  <2>2. QED
    BY <2>1, <1>6, <1>7, <1>8, SeqEqual
<1>10. QED
  BY <1>2, <1>4, <1>5, <1>9 DEF c, d, t

(* As many different values as positions: a set is at least that large.     *)
LEMMA InjectionBound ==
  ASSUME NEW S, IsFiniteSet(S), NEW n \in Nat, NEW f \in [1 .. n -> S],
         \A j, k \in 1 .. n : f[j] = f[k] => j = k
  PROVE  n <= Cardinality(S)
<1>1. IsFiniteSet(1 .. n) /\ Cardinality(1 .. n) = n
  BY FS_Interval
<1>2. Cardinality(S) \in Nat
  BY FS_CardinalityType
<1>3. SUFFICES ASSUME Cardinality(S) < n
               PROVE  FALSE
  BY <1>2
<1>4. \E j, k \in 1 .. n : j # k /\ f[j] = f[k]
  BY <1>1, <1>3, FS_PigeonHole
<1>5. QED
  BY <1>4

(* A queue free of repetition is no longer than the set it draws from.     *)
LEMMA InjectiveBound ==
  ASSUME NEW S, IsFiniteSet(S), NEW T, NEW q \in Seq(T),
         IsInjective(q), Range(q) \subseteq S
  PROVE  Len(q) <= Cardinality(S)
<1>1. Len(q) \in Nat /\ q \in [1 .. Len(q) -> T]
  BY LenProperties
<1>2. /\ \A k \in 1 .. Len(q) : q[k] \in S
      /\ \A j, k \in 1 .. Len(q) : q[j] = q[k] => j = k
  BY RangeFacts
<1>3. q \in [1 .. Len(q) -> S]
  BY <1>1, <1>2
<1>4. QED
  BY <1>1, <1>2, <1>3, InjectionBound

=============================================================================
