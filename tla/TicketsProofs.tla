--------------------------- MODULE TicketsProofs ---------------------------
(***************************************************************************)
(* Proofs about Tickets and the RateLimiter below it, for any number of    *)
(* containers and users, any rate, burst and bound of keys, and clocks     *)
(* that differ as they like.                                               *)
(***************************************************************************)
EXTENDS Tickets, SequenceTheorems, FiniteSetTheorems, TLAPS

-----------------------------------------------------------------------------
(* The operators of the limiter. *)

\* min() and max() of two numbers.
LEMMA MinOfTwo ==
    ASSUME NEW a \in Int, NEW b \in Int
    PROVE  Min({a, b}) = IF a <= b THEN a ELSE b
<1> DEFINE IsMin(x) == x \in {a, b} /\ \A y \in {a, b} : x <= y
<1>1. Min({a, b}) = CHOOSE x : IsMin(x)
  BY DEF Min
<1>2. \E x : IsMin(x)
  <2>1. CASE a <= b
    BY <2>1
  <2>2. CASE ~ (a <= b)
    <3>1. b <= a
      BY <2>2
    <3> QED BY <3>1
  <2> QED BY <2>1, <2>2
<1>3. IsMin(Min({a, b}))
  BY <1>1, <1>2
<1> QED BY <1>3

LEMMA MaxOfTwo ==
    ASSUME NEW a \in Int, NEW b \in Int
    PROVE  Max({a, b}) = IF a >= b THEN a ELSE b
<1> DEFINE IsMax(x) == x \in {a, b} /\ \A y \in {a, b} : x >= y
<1>1. Max({a, b}) = CHOOSE x : IsMax(x)
  BY DEF Max
<1>2. \E x : IsMax(x)
  <2>1. CASE a >= b
    BY <2>1
  <2>2. CASE ~ (a >= b)
    <3>1. b >= a
      BY <2>2
    <3> QED BY <3>1
  <2> QED BY <2>1, <2>2
<1>3. IsMax(Max({a, b}))
  BY <1>1, <1>2
<1> QED BY <1>3

Bucket(t) == [key : Keys, last : 0..t, tokens : 0..(Burst * Unit)]

Full == Burst * Unit

\* What is known of one limiter's buckets.
BucketsOf(l) ==
    /\ buckets[l] \in Seq(Bucket(now))
    /\ Len(buckets[l]) <= MaxKeys
    /\ \A m, n \in DOMAIN buckets[l] : buckets[l][m].key = buckets[l][n].key => m = n

LEMMA FullNat == RateAssumption => Full \in Nat /\ Full >= Unit
<1> SUFFICES ASSUME RateAssumption PROVE Full \in Nat /\ Full >= Unit
  OBVIOUS
<1>1. Burst \in Nat /\ Burst >= 1 /\ Unit \in Nat /\ Unit >= 1
  BY DEF RateAssumption
<1> QED BY <1>1 DEF Full

\* The bucket that pop() finds is the key's.
LEMMA PlaceFacts ==
    ASSUME NEW l \in Limiters, NEW k, Has(l, k)
    PROVE  Place(l, k) \in DOMAIN buckets[l] /\ buckets[l][Place(l, k)].key = k
BY DEF Has, Place

\* pop() closes the gap.
LEMMA OthersFacts ==
    ASSUME RateAssumption, now \in Nat, NEW l \in Limiters, BucketsOf(l), NEW k
    PROVE  /\ Others(l, k) \in Seq(Bucket(now))
           /\ Len(Others(l, k)) = Len(buckets[l]) - (IF Has(l, k) THEN 1 ELSE 0)
           /\ \A q \in 1..Len(Others(l, k)) : Others(l, k)[q] =
                 buckets[l][IF Has(l, k) /\ q >= Place(l, k) THEN q + 1 ELSE q]
<1> DEFINE bs == buckets[l] p == Place(l, k) L == Len(bs)
<1>1. bs \in Seq(Bucket(now)) /\ L \in Nat
  BY DEF BucketsOf
<1>2. CASE ~ Has(l, k)
  BY <1>1, <1>2 DEF Others
<1>3. CASE Has(l, k)
  <2>1. p \in 1..L
    BY <1>1, <1>3, PlaceFacts
  <2>2. Others(l, k) = SubSeq(bs, 1, p - 1) \o SubSeq(bs, p + 1, L)
    BY <1>3 DEF Others, RemoveAt
  <2> HIDE DEF bs, p, L
  <2>3. \A i \in 1..L : bs[i] \in Bucket(now)
    BY <1>1 DEF L
  <2>4. /\ SubSeq(bs, 1, p - 1) \in Seq(Bucket(now))
        /\ Len(SubSeq(bs, 1, p - 1)) = p - 1
        /\ \A i \in 1..(p - 1) : SubSeq(bs, 1, p - 1)[i] = bs[i]
    <3>1. \A i \in 1..(p - 1) : bs[i] \in Bucket(now)
      BY <1>1, <2>1, <2>3
    <3> QED BY <1>1, <2>1, <3>1, SubSeqProperties
  <2>5. /\ SubSeq(bs, p + 1, L) \in Seq(Bucket(now))
        /\ Len(SubSeq(bs, p + 1, L)) = L - p
        /\ \A i \in 1..(L - p) : SubSeq(bs, p + 1, L)[i] = bs[p + i]
    <3>1. \A i \in (p + 1)..L : bs[i] \in Bucket(now)
      BY <1>1, <2>1, <2>3
    <3>2. /\ SubSeq(bs, p + 1, L) \in Seq(Bucket(now))
          /\ Len(SubSeq(bs, p + 1, L)) = IF p + 1 <= L THEN L - (p + 1) + 1 ELSE 0
          /\ \A i \in 1..(L - (p + 1) + 1) : SubSeq(bs, p + 1, L)[i] = bs[(p + 1) + i - 1]
      <4>1. p + 1 \in Int /\ L \in Int
        BY <1>1, <2>1
      <4> QED BY <3>1, <4>1, SubSeqProperties
    <3> QED BY <1>1, <2>1, <3>2
  <2>6. /\ Others(l, k) \in Seq(Bucket(now))
        /\ Len(Others(l, k)) = (p - 1) + (L - p)
        /\ \A i \in 1..((p - 1) + (L - p)) : Others(l, k)[i] =
              IF i <= p - 1 THEN SubSeq(bs, 1, p - 1)[i]
              ELSE SubSeq(bs, p + 1, L)[i - (p - 1)]
    <3> PICK a, b : a = SubSeq(bs, 1, p - 1) /\ b = SubSeq(bs, p + 1, L)
      OBVIOUS
    <3>1. /\ a \in Seq(Bucket(now)) /\ b \in Seq(Bucket(now))
          /\ Len(a) = p - 1 /\ Len(b) = L - p /\ Others(l, k) = a \o b
      BY <2>2, <2>4, <2>5
    <3>2. /\ a \o b \in Seq(Bucket(now)) /\ Len(a \o b) = Len(a) + Len(b)
          /\ \A i \in 1..(Len(a) + Len(b)) :
                (a \o b)[i] = IF i <= Len(a) THEN a[i] ELSE b[i - Len(a)]
      BY <3>1, ConcatProperties
    <3> QED BY <3>1, <3>2
  <2>7. Len(Others(l, k)) = L - 1
    BY <1>1, <2>1, <2>6
  <2>8. ASSUME NEW q \in 1..(L - 1)
        PROVE  Others(l, k)[q] = bs[IF q >= p THEN q + 1 ELSE q]
    <3>1. CASE q <= p - 1
      BY <1>1, <2>1, <2>4, <2>6, <3>1
    <3>2. CASE ~ (q <= p - 1)
      <4>1. q - (p - 1) \in 1..(L - p) /\ p + (q - (p - 1)) = q + 1
        BY <1>1, <2>1, <3>2
      <4>2. Others(l, k)[q] = SubSeq(bs, p + 1, L)[q - (p - 1)]
        BY <1>1, <2>1, <2>6, <3>2
      <4>3. SubSeq(bs, p + 1, L)[q - (p - 1)] = bs[p + (q - (p - 1))]
        BY <2>5, <4>1
      <4>4. q >= p
        BY <1>1, <2>1, <3>2
      <4> QED BY <4>1, <4>2, <4>3, <4>4
    <3> QED BY <3>1, <3>2
  <2> QED BY <1>3, <2>6, <2>7, <2>8 DEF bs, p, L
<1> QED BY <1>2, <1>3

\* What is in a bucket, full or refilled since it was last used.
LEMMA TokensFacts ==
    ASSUME RateAssumption, now \in Nat, NEW l \in Limiters, BucketsOf(l), NEW k
    PROVE  /\ Tokens(l, k) \in 0..Full
           /\ ~ Has(l, k) => Tokens(l, k) = Full
           /\ Has(l, k) =>
                 LET b == buckets[l][Place(l, k)]
                     refilled == b.tokens + (now - b.last) * Rate
                 IN  /\ refilled \in Int
                     /\ Tokens(l, k) = IF Full <= refilled THEN Full ELSE refilled
<1>0. Full \in Nat /\ Rate \in Nat
  BY FullNat DEF RateAssumption
<1>1. CASE ~ Has(l, k)
  BY <1>0, <1>1 DEF Tokens, Full
<1>2. CASE Has(l, k)
  <2> DEFINE b == buckets[l][Place(l, k)] refilled == b.tokens + (now - b.last) * Rate
  <2>1. b \in Bucket(now)
    BY <1>2, PlaceFacts DEF BucketsOf
  <2>2. b.tokens \in 0..Full /\ b.last \in 0..now
    BY <2>1 DEF Bucket, Full
  <2>3. Tokens(l, k) = Min({Full, refilled})
    BY <1>2 DEF Tokens, Full
  <2> HIDE DEF b
  <2>4. now - b.last \in Nat
    BY <2>2
  <2>5. (now - b.last) * Rate \in Nat
    <3>1. ASSUME NEW x \in Nat PROVE x * Rate \in Nat
      BY <1>0
    <3> QED BY <2>4, <3>1
  <2>6. refilled \in Nat
    BY <1>0, <2>2, <2>5
  <2> HIDE DEF refilled
  <2>7. Tokens(l, k) = IF Full <= refilled THEN Full ELSE refilled
    BY <1>0, <2>3, <2>6, MinOfTwo
  <2>8. Tokens(l, k) \in 0..Full
    BY <1>0, <2>6, <2>7
  <2> QED BY <1>2, <2>6, <2>7, <2>8 DEF b, refilled
<1> QED BY <1>1, <1>2

\* What check() leaves, and what it answers.
LEMMA LeftFacts ==
    ASSUME RateAssumption, now \in Nat, NEW l \in Limiters, BucketsOf(l), NEW k \in Keys
    PROVE  /\ Left(l, k) \in Bucket(now)
           /\ Left(l, k).key = k
           /\ Left(l, k).last = now
           /\ Wait(l, k) \in Nat
           /\ Wait(l, k) = 0 => Left(l, k).tokens = Tokens(l, k) - Unit
           /\ Wait(l, k) > 0 => /\ Left(l, k).tokens = Tokens(l, k)
                                /\ Tokens(l, k) < Unit
                                /\ Wait(l, k) = RetryAfter(Left(l, k).tokens)
<1>1. Full \in Nat /\ Tokens(l, k) \in 0..Full /\ Unit \in Nat /\ Rate \in Nat \ {0}
  BY FullNat, TokensFacts DEF RateAssumption
<1> DEFINE t == Tokens(l, k)
<1>2. CASE t >= Unit
  <2>1. Left(l, k) = [key |-> k, last |-> now, tokens |-> t - Unit] /\ Wait(l, k) = 0
    BY <1>2 DEF Left, Wait
  <2>2. t - Unit \in 0..Full
    BY <1>1, <1>2
  <2> QED BY <2>1, <2>2 DEF Bucket, Full
<1>3. CASE ~ (t >= Unit)
  <2>1. /\ Left(l, k) = [key |-> k, last |-> now, tokens |-> t]
        /\ Wait(l, k) = RetryAfter(t)
    BY <1>3 DEF Left, Wait
  <2>2. RetryAfter(t) \in Nat /\ RetryAfter(t) >= 1
    <3> DEFINE x == (Unit - t + Rate - 1) \div Rate
    <3>1. x \in Int
      BY <1>1
    <3>2. RetryAfter(t) = IF 1 >= x THEN 1 ELSE x
      BY <3>1, MaxOfTwo DEF RetryAfter
    <3> QED BY <3>1, <3>2
  <2>3. t < Unit
    BY <1>1, <1>3
  <2> QED BY <1>1, <2>1, <2>2, <2>3 DEF Bucket, Full
<1> QED BY <1>2, <1>3

\* The keys behind a position.
Newer(bs, p) == {bs[q].key : q \in (p + 1)..Len(bs)}

\* Distinct buckets have distinct keys, so many of them are as many keys.
LEMMA NewerCount ==
    ASSUME NEW t \in Nat, NEW bs \in Seq(Bucket(t)), NEW p \in 0..Len(bs),
           \A m, n \in DOMAIN bs : bs[m].key = bs[n].key => m = n
    PROVE  IsFiniteSet(Newer(bs, p)) /\ Cardinality(Newer(bs, p)) = Len(bs) - p
<1> DEFINE I == (p + 1)..Len(bs) f == [q \in I |-> bs[q].key]
<1>1. IsFiniteSet(I) /\ Cardinality(I) = Len(bs) - p
  <2>1. p + 1 \in Int /\ Len(bs) \in Int /\ p \in Int /\ p <= Len(bs)
    OBVIOUS
  <2>2. IsFiniteSet(I) /\ Cardinality(I) = IF p + 1 > Len(bs) THEN 0 ELSE Len(bs) - (p + 1) + 1
    BY <2>1, FS_Interval
  <2> QED BY <2>1, <2>2
<1>2. I \subseteq DOMAIN bs
  OBVIOUS
<1>3. f \in [I -> Newer(bs, p)] /\ \A y \in Newer(bs, p) : \E q \in I : f[q] = y
  BY DEF Newer
<1>4. f \in Surjection(I, Newer(bs, p))
  BY <1>3 DEF Surjection
<1>5. \A m, n \in I : f[m] = f[n] => m = n
  BY <1>2
<1>6. f \in Injection(I, Newer(bs, p))
  BY <1>3, <1>5 DEF Injection, IsInjective
<1> HIDE DEF I, f
<1> QED BY <1>1, <1>4, <1>6, FS_Surjection

Appended(l, k) == Append(Others(l, k), Left(l, k))

\* The buckets with the key's own behind the others, which keep their order.
Arranged(a, l, k) ==
    /\ a \in Seq(Bucket(now)) /\ Len(a) \in 1..(MaxKeys + 1)
    /\ \A m, n \in DOMAIN a : a[m].key = a[n].key => m = n
    /\ a[Len(a)] = Left(l, k)
    /\ \A p \in DOMAIN buckets[l] : buckets[l][p].key # k =>
          \E q \in 1..(Len(a) - 1) :
             a[q] = buckets[l][p] /\ Newer(a, q) = Newer(buckets[l], p) \cup {k}
    /\ \A q \in 1..(Len(a) - 1) :
          \E p \in DOMAIN buckets[l] : a[q] = buckets[l][p] /\ buckets[l][p].key # k

\* The bucket of the key is put behind the others.
LEMMA AppendedFacts ==
    ASSUME RateAssumption, now \in Nat, NEW l \in Limiters, BucketsOf(l), NEW k \in Keys
    PROVE  Arranged(Appended(l, k), l, k)
<1> DEFINE a == Appended(l, k) bs == buckets[l] L == Len(bs) o == Others(l, k) N == Len(o)
           at(q) == IF Has(l, k) /\ q >= Place(l, k) THEN q + 1 ELSE q
           to(p) == IF Has(l, k) /\ p >= Place(l, k) THEN p - 1 ELSE p
<1>1. /\ bs \in Seq(Bucket(now)) /\ L \in Nat /\ L <= MaxKeys /\ DOMAIN bs = 1..L
      /\ \A m, n \in 1..L : bs[m].key = bs[n].key => m = n
      /\ MaxKeys \in Nat
  BY DEF BucketsOf, RateAssumption
<1>2. Has(l, k) => Place(l, k) \in 1..L /\ bs[Place(l, k)].key = k
  BY <1>1, PlaceFacts
<1>3. ~ Has(l, k) => \A p \in 1..L : bs[p].key # k
  BY <1>1 DEF Has
<1>4. /\ o \in Seq(Bucket(now)) /\ N \in Nat
      /\ N = L - (IF Has(l, k) THEN 1 ELSE 0)
      /\ \A q \in 1..N : o[q] = bs[at(q)]
  BY OthersFacts
<1>5. /\ a \in Seq(Bucket(now)) /\ Len(a) = N + 1
      /\ \A q \in 1..N : a[q] = o[q]
      /\ a[N + 1] = Left(l, k) /\ a[N + 1].key = k
  <2>1. Left(l, k) \in Bucket(now) /\ Left(l, k).key = k
    BY LeftFacts
  <2>2. o \in Seq(Bucket(now)) /\ a = Append(o, Left(l, k))
    BY <1>4 DEF Appended
  <2> HIDE DEF o, a
  <2> QED BY <2>1, <2>2, AppendProperties DEF N
<1> HIDE DEF a, bs, L, o, N
<1>6. ASSUME NEW q \in 1..N
      PROVE  /\ at(q) \in 1..L /\ a[q] = bs[at(q)] /\ bs[at(q)].key # k
             /\ \A r \in 1..N : (q < r => at(q) < at(r)) /\ (at(q) = at(r) => q = r)
  <2>1. at(q) \in 1..L /\ (Has(l, k) => at(q) # Place(l, k))
    BY <1>1, <1>2, <1>4
  <2>2. a[q] = bs[at(q)]
    BY <1>4, <1>5
  <2>3. bs[at(q)].key # k
    BY <1>1, <1>2, <1>3, <2>1
  <2>4. \A r \in 1..N : (q < r => at(q) < at(r)) /\ (at(q) = at(r) => q = r)
    BY <1>2, <1>4
  <2> QED BY <2>1, <2>2, <2>3, <2>4
<1>7. ASSUME NEW p \in 1..L, bs[p].key # k
      PROVE  to(p) \in 1..N /\ at(to(p)) = p
  BY <1>1, <1>2, <1>4, <1>7
<1> HIDE DEF at, to
<1>8. \A m, n \in DOMAIN a : a[m].key = a[n].key => m = n
  <2> SUFFICES ASSUME NEW m \in 1..(N + 1), NEW n \in 1..(N + 1), a[m].key = a[n].key
               PROVE  m = n
    BY <1>5
  <2>1. CASE m \in 1..N /\ n \in 1..N
    <3>1. bs[at(m)].key = bs[at(n)].key /\ at(m) \in 1..L /\ at(n) \in 1..L
      BY <1>6, <2>1
    <3>2. at(m) = at(n)
      BY <1>1, <3>1
    <3> QED BY <1>6, <2>1, <3>2
  <2>2. CASE m \in 1..N /\ n = N + 1
    BY <1>5, <1>6, <2>2
  <2>3. CASE m = N + 1 /\ n \in 1..N
    BY <1>5, <1>6, <2>3
  <2>4. CASE m = N + 1 /\ n = N + 1
    BY <2>4
  <2> QED BY <1>4, <2>1, <2>2, <2>3, <2>4
<1>9. ASSUME NEW p \in 1..L, bs[p].key # k
      PROVE  \E q \in 1..N : a[q] = bs[p] /\ Newer(a, q) = Newer(bs, p) \cup {k}
  <2> DEFINE q == to(p)
  <2>1. q \in 1..N /\ at(q) = p
    BY <1>7, <1>9
  <2>2. a[q] = bs[p]
    BY <1>6, <2>1
  <2> HIDE DEF q
  <2>3. ASSUME NEW r \in (q + 1)..(N + 1) PROVE a[r].key \in Newer(bs, p) \cup {k}
    <3>1. CASE r = N + 1
      BY <1>5, <3>1
    <3>2. CASE r # N + 1
      <4>1. r \in 1..N /\ q < r
        BY <1>4, <2>1, <3>2
      <4>2. at(r) \in 1..L /\ p < at(r) /\ a[r] = bs[at(r)]
        BY <1>6, <2>1, <4>1
      <4>3. at(r) \in (p + 1)..L
        BY <1>1, <4>2
      <4> QED BY <4>2, <4>3 DEF Newer, L
    <3> QED BY <3>1, <3>2
  <2>4. ASSUME NEW s \in (p + 1)..L, bs[s].key # k
        PROVE  \E r \in (q + 1)..(N + 1) : a[r].key = bs[s].key
    <3>1. s \in 1..L /\ p < s
      BY <1>1
    <3>2. to(s) \in 1..N /\ at(to(s)) = s
      BY <1>7, <2>4, <3>1
    <3>3. a[to(s)] = bs[s]
      BY <1>6, <3>2
    <3>4. ~ (to(s) < q) /\ to(s) # q
      BY <1>1, <1>6, <2>1, <3>1, <3>2
    <3>5. to(s) \in (q + 1)..(N + 1)
      BY <1>4, <2>1, <3>2, <3>4
    <3> QED BY <3>3, <3>5
  <2>5. \E r \in (q + 1)..(N + 1) : a[r].key = k
    <3>1. N + 1 \in (q + 1)..(N + 1)
      BY <1>4, <2>1
    <3> QED BY <1>5, <3>1
  <2>6. Newer(a, q) = {a[r].key : r \in (q + 1)..(N + 1)}
    BY <1>5 DEF Newer
  <2>7. Newer(bs, p) = {bs[s].key : s \in (p + 1)..L}
    BY DEF Newer, L
  <2>8. Newer(a, q) \subseteq Newer(bs, p) \cup {k}
    BY <2>3, <2>6
  <2>9. Newer(bs, p) \cup {k} \subseteq Newer(a, q)
    BY <2>4, <2>5, <2>6, <2>7
  <2> QED BY <2>1, <2>2, <2>8, <2>9
<1>10. Len(a) \in 1..(MaxKeys + 1)
  BY <1>1, <1>4, <1>5
<1>11. Len(a) - 1 = N /\ a[Len(a)] = Left(l, k)
  BY <1>4, <1>5
<1>12. \A q \in 1..N : \E p \in 1..L : a[q] = bs[p] /\ bs[p].key # k
  BY <1>6
<1>13. \A p \in DOMAIN bs : bs[p].key # k =>
          \E q \in 1..(Len(a) - 1) : a[q] = bs[p] /\ Newer(a, q) = Newer(bs, p) \cup {k}
  BY <1>1, <1>9, <1>11
<1>14. \A q \in 1..(Len(a) - 1) : \E p \in DOMAIN bs : a[q] = bs[p] /\ bs[p].key # k
  BY <1>1, <1>11, <1>12
<1> QED BY <1>5, <1>8, <1>10, <1>11, <1>13, <1>14 DEF a, bs, Arranged

\* How a use of key k changes the place of another key's bucket: k is now
\* behind it, or it is gone and MaxKeys keys are newer than it was.
Passed(bs, t, p, k) ==
    \/ \E q \in DOMAIN t : t[q] = bs[p] /\ Newer(t, q) = Newer(bs, p) \cup {k}
    \/ /\ \A q \in DOMAIN t : t[q].key # bs[p].key
       /\ IsFiniteSet(Newer(bs, p) \cup {k})
       /\ Cardinality(Newer(bs, p) \cup {k}) >= MaxKeys

\* The buckets of a limiter after a use of key k.
Used(t, l, k) ==
    /\ t \in Seq(Bucket(now)) /\ Len(t) \in 1..MaxKeys
    /\ \A m, n \in DOMAIN t : t[m].key = t[n].key => m = n
    /\ t[Len(t)] = Left(l, k)
    /\ \A p \in DOMAIN buckets[l] :
          buckets[l][p].key # k => Passed(buckets[l], t, p, k)
    /\ \A q \in DOMAIN t :
          t[q].key = k \/ \E p \in DOMAIN buckets[l] : t[q] = buckets[l][p]

\* check() puts the bucket of its key last and drops the least recently used
\* one if there are too many.
LEMMA TakenFacts ==
    ASSUME RateAssumption, now \in Nat, NEW l \in Limiters, BucketsOf(l), NEW k \in Keys
    PROVE  Used(Taken(l, k), l, k)
<1> DEFINE t == Taken(l, k) a == Appended(l, k) A == Len(a) bs == buckets[l]
           cut == Max({0, A - MaxKeys})
<1>1. /\ a \in Seq(Bucket(now)) /\ A \in 1..(MaxKeys + 1)
      /\ \A m, n \in DOMAIN a : a[m].key = a[n].key => m = n
      /\ a[A] = Left(l, k)
      /\ \A p \in DOMAIN bs : bs[p].key # k =>
            \E q \in 1..(A - 1) : a[q] = bs[p] /\ Newer(a, q) = Newer(bs, p) \cup {k}
      /\ \A q \in 1..(A - 1) : \E p \in DOMAIN bs : a[q] = bs[p] /\ bs[p].key # k
  <2>1. Arranged(a, l, k)
    BY AppendedFacts
  <2> HIDE DEF a
  <2> QED BY <2>1 DEF Arranged
<1>2. t = SubSeq(a, 1 + cut, A)
  BY DEF Taken, Trim, Appended
<1> HIDE DEF t, a, A, bs
<1>3. MaxKeys \in Nat /\ MaxKeys >= 1 /\ A \in Nat /\ A >= 1 /\ A <= MaxKeys + 1
  BY <1>1 DEF RateAssumption
<1>4. cut = IF A = MaxKeys + 1 THEN 1 ELSE 0
  <2>1. cut = IF 0 >= A - MaxKeys THEN 0 ELSE A - MaxKeys
    BY <1>3, MaxOfTwo
  <2> QED BY <1>3, <2>1
<1> HIDE DEF cut
<1>5. cut \in 0..1 /\ A - cut >= 1 /\ A - cut <= MaxKeys
  BY <1>3, <1>4
<1>6. DOMAIN a = 1..A /\ \A i \in 1..A : a[i] \in Bucket(now)
  BY <1>1 DEF A
<1>7. /\ t \in Seq(Bucket(now)) /\ Len(t) = A - cut
      /\ \A i \in 1..(A - cut) : t[i] = a[i + cut]
  <2>1. \A i \in (1 + cut)..A : a[i] \in Bucket(now)
    BY <1>3, <1>5, <1>6
  <2>2. /\ t \in Seq(Bucket(now))
        /\ Len(t) = IF 1 + cut <= A THEN A - (1 + cut) + 1 ELSE 0
        /\ \A i \in 1..(A - (1 + cut) + 1) : t[i] = a[(1 + cut) + i - 1]
    <3>1. 1 + cut \in Int /\ A \in Int
      BY <1>3, <1>5
    <3> QED BY <1>2, <2>1, <3>1, SubSeqProperties
  <2> QED BY <1>3, <1>5, <2>2
<1>8. DOMAIN t = 1..(A - cut)
  BY <1>7
<1>9. \A m, n \in DOMAIN t : t[m].key = t[n].key => m = n
  <2> SUFFICES ASSUME NEW m \in 1..(A - cut), NEW n \in 1..(A - cut), t[m].key = t[n].key
               PROVE  m = n
    BY <1>8
  <2>1. m + cut \in 1..A /\ n + cut \in 1..A /\ a[m + cut].key = a[n + cut].key
    BY <1>3, <1>5, <1>7
  <2>2. m + cut = n + cut
    BY <1>1, <1>6, <2>1
  <2> QED BY <1>5, <2>2
<1>10. t[Len(t)] = Left(l, k)
  <2>1. A - cut \in 1..(A - cut) /\ (A - cut) + cut = A
    BY <1>3, <1>5
  <2> QED BY <1>1, <1>7, <2>1
<1>11. ASSUME NEW p \in DOMAIN bs, bs[p].key # k PROVE Passed(bs, t, p, k)
  <2>1. PICK q \in 1..(A - 1) : a[q] = bs[p] /\ Newer(a, q) = Newer(bs, p) \cup {k}
    BY <1>1, <1>11
  <2>2. CASE q > cut
    <3>1. q - cut \in 1..(A - cut) /\ (q - cut) + cut = q
      BY <1>3, <1>5, <2>2
    <3>2. t[q - cut] = bs[p]
      BY <1>7, <2>1, <3>1
    <3>3. Newer(t, q - cut) = Newer(a, q)
      <4>1. Newer(t, q - cut) = {t[r].key : r \in (q - cut + 1)..(A - cut)}
        BY <1>7 DEF Newer
      <4>2. Newer(a, q) = {a[r].key : r \in (q + 1)..A}
        BY DEF Newer, A
      <4>3. ASSUME NEW r \in (q - cut + 1)..(A - cut)
            PROVE  r + cut \in (q + 1)..A /\ t[r].key = a[r + cut].key
        <5>1. r \in 1..(A - cut) /\ r + cut \in (q + 1)..A
          BY <1>3, <1>5, <3>1
        <5> QED BY <1>7, <5>1
      <4>4. ASSUME NEW r \in (q + 1)..A
            PROVE  r - cut \in (q - cut + 1)..(A - cut) /\ t[r - cut].key = a[r].key
        <5>1. r - cut \in 1..(A - cut) /\ r - cut \in (q - cut + 1)..(A - cut)
              /\ (r - cut) + cut = r
          BY <1>3, <1>5, <3>1
        <5> QED BY <1>7, <5>1
      <4> QED BY <4>1, <4>2, <4>3, <4>4
    <3> QED BY <1>8, <2>1, <3>1, <3>2, <3>3 DEF Passed
  <2>3. CASE ~ (q > cut)
    <3>1. q = 1 /\ cut = 1 /\ A = MaxKeys + 1
      BY <1>3, <1>4, <1>5, <2>3
    <3>2. ASSUME NEW r \in DOMAIN t PROVE t[r].key # bs[p].key
      <4>1. r + cut \in 1..A /\ r + cut # q /\ t[r] = a[r + cut] /\ q \in 1..A
        BY <1>3, <1>5, <1>7, <1>8, <3>1
      <4> QED BY <1>1, <1>6, <2>1, <4>1
    <3>3. IsFiniteSet(Newer(a, q)) /\ Cardinality(Newer(a, q)) = A - q
      <4>1. q \in 0..Len(a)
        BY <1>3 DEF A
      <4> QED BY <1>1, <4>1, NewerCount DEF A
    <3>4. A - q >= MaxKeys
      BY <1>3, <3>1
    <3> QED BY <2>1, <3>2, <3>3, <3>4 DEF Passed
  <2> QED BY <2>2, <2>3
<1>12. ASSUME NEW r \in DOMAIN t
       PROVE  t[r].key = k \/ \E p \in DOMAIN bs : t[r] = bs[p]
  <2>1. r + cut \in 1..A /\ t[r] = a[r + cut]
    <3>1. r \in 1..(A - cut)
      BY <1>8
    <3>2. t[r] = a[r + cut]
      BY <1>7, <3>1
    <3> QED BY <1>3, <1>5, <3>1, <3>2
  <2>2. CASE r + cut = A
    <3>1. t[r].key = k
      BY <1>1, <2>1, <2>2, LeftFacts
    <3> QED BY <3>1
  <2>3. CASE r + cut # A
    <3>1. r + cut \in 1..(A - 1)
      BY <1>3, <1>5, <1>8, <2>1, <2>3
    <3> QED BY <1>1, <2>1, <3>1
  <2> QED BY <2>2, <2>3
<1>13. Len(t) \in 1..MaxKeys
  BY <1>3, <1>5, <1>7
<1> QED BY <1>7, <1>9, <1>10, <1>11, <1>12, <1>13 DEF t, bs, Used

-----------------------------------------------------------------------------
(* Types. *)

LEMMA RateOf ==
    ASSUME RateTypeOK, NEW l \in Limiters
    PROVE  now \in Nat /\ BucketsOf(l)
BY DEF RateTypeOK, BucketsOf, Bucket

\* A check keeps the limiters' types ...
LEMMA CheckType ==
    ASSUME RateAssumption, RateTypeOK, NEW l \in Limiters, NEW k \in Keys, Check(l, k)
    PROVE  RateTypeOK'
<1>1. now' = now /\ buckets' = [buckets EXCEPT ![l] = Taken(l, k)]
  BY DEF Check
<1>2. Used(Taken(l, k), l, k)
  BY RateOf, TakenFacts
<1>3. ASSUME NEW m \in Limiters
      PROVE  /\ buckets'[m] \in Seq(Bucket(now)) /\ Len(buckets'[m]) <= MaxKeys
             /\ \A i, j \in DOMAIN buckets'[m] : buckets'[m][i].key = buckets'[m][j].key => i = j
  <2>1. CASE m = l
    <3>1. buckets'[m] = Taken(l, k)
      BY <1>1, <2>1 DEF RateTypeOK
    <3>2. Len(Taken(l, k)) <= MaxKeys
      BY <1>2 DEF Used, RateAssumption
    <3> QED BY <1>2, <3>1, <3>2 DEF Used
  <2>2. CASE m # l
    <3>1. buckets'[m] = buckets[m]
      BY <1>1, <2>2 DEF RateTypeOK
    <3>2. BucketsOf(m)
      BY RateOf
    <3> QED BY <3>1, <3>2 DEF BucketsOf
  <2> QED BY <2>1, <2>2
<1>4. buckets' \in [Limiters -> Seq(Bucket(now'))]
  BY <1>1, <1>3 DEF RateTypeOK
<1>5. now' \in Nat
  BY <1>1 DEF RateTypeOK
<1>6. \A m \in Limiters :
          /\ Len(buckets'[m]) <= MaxKeys
          /\ \A i, j \in DOMAIN buckets'[m] : buckets'[m][i].key = buckets'[m][j].key => i = j
  BY <1>3
<1> QED BY <1>4, <1>5, <1>6 DEF RateTypeOK, Bucket

\* ... and so does time.
LEMMA TickType ==
    ASSUME RateTypeOK, Tick
    PROVE  RateTypeOK'
<1>1. now \in Nat /\ now' = now + 1 /\ buckets' = buckets
  BY DEF Tick, RateTypeOK
<1>2. Bucket(now) \subseteq Bucket(now')
  <2>1. 0..now \subseteq 0..now'
    BY <1>1
  <2> QED BY <2>1 DEF Bucket
<1>3. ASSUME NEW l \in Limiters PROVE buckets[l] \in Seq(Bucket(now'))
  <2>1. buckets[l] \in Seq(Bucket(now))
    BY DEF RateTypeOK, Bucket
  <2> QED BY <1>2, <2>1, SeqMonotonic
<1>4. buckets' \in [Limiters -> Seq(Bucket(now'))]
  BY <1>1, <1>3 DEF RateTypeOK
<1>5. now' \in Nat
  BY <1>1
<1>6. \A l \in Limiters :
          /\ Len(buckets'[l]) <= MaxKeys
          /\ \A i, j \in DOMAIN buckets'[l] : buckets'[l][i].key = buckets'[l][j].key => i = j
  BY <1>1 DEF RateTypeOK
<1> QED BY <1>4, <1>5, <1>6 DEF RateTypeOK, Bucket

Ticket == [user : Keys, scopes : SUBSET TicketScopes, exp : Int]
TurnedAway == [at : {"unknown_topic", "rejected", "forbidden"}, won : {FALSE}]
Admitted == [at : Waiting \cup Over, by : Limiters, ticket : Nat, topic : Topics,
             won : BOOLEAN, late : BOOLEAN]

\* What the store took for expired is out of its memory for good.
Expired(s, n) ==
    IF shared THEN tickets[n].exp < Clock(s) ELSE tickets[n].exp <= Clock(s)

Spent(s, n) == n \in used[s] \/ Expired(s, n)

\* A handshake that got to consuming its ticket: the ticket may open the
\* topic, a winner has spent it, and nobody else connects.
HandInv(a) ==
    \/ use[a] \in TurnedAway
    \/ /\ use[a] \in Admitted
       /\ use[a].ticket \in DOMAIN tickets
       /\ Allows(use[a].ticket, use[a].topic)
       /\ use[a].at = "pruning" => shared
       /\ use[a].at \in {"acquiring", "connected", "busy"} => use[a].won
       /\ use[a].won => Spent(Store(use[a].by), use[a].ticket)

\* Of two winners the second was late.
OneInTime ==
    \A a, b \in DOMAIN use :
        (use[a].won /\ use[b].won /\ a # b
            /\ Store(use[a].by) = Store(use[b].by) /\ use[a].ticket = use[b].ticket)
        => use[a].late \/ use[b].late

TicketsInv ==
    /\ RateTypeOK
    /\ shared \in BOOLEAN
    /\ tickets \in Seq(Ticket)
    /\ \A n \in DOMAIN tickets : tickets[n].scopes \subseteq Scopes[tickets[n].user]
    /\ used \in [Limiters \cup {Database} -> SUBSET DOMAIN tickets]
    /\ pruned \in [Limiters -> 0..now]
    /\ use \in Seq(TurnedAway \cup Admitted)
    /\ \A a \in DOMAIN use : HandInv(a)
    /\ OneInTime

\* The invariant says more than the types, and what the tickets are for.
LEMMA TicketsInvImplies ==
    ASSUME TicketsAssumption, TicketsInv
    PROVE  TypeOK /\ OneConnection
<1>1. TypeOK
  <2>1. \A a \in DOMAIN use : use[a].at \in Waiting \cup Over
    BY DEF TicketsInv, HandInv, TurnedAway, Admitted, Over
  <2> QED BY <2>1 DEF TypeOK, TicketsInv, Ticket
<1>2. \A a, b \in DOMAIN use, store \in Limiters \cup {Database} :
          (Wins(a, store) /\ Wins(b, store) /\ use[a].ticket = use[b].ticket /\ a # b)
          => use[a].late \/ use[b].late
  BY DEF TicketsInv, OneInTime, Wins
<1>3. ASSUME NEW a \in DOMAIN use, use[a].at = "connected"
      PROVE  /\ use[a].won
             /\ {"events:read", TopicScope(use[a].topic)}
                  \subseteq Scopes[tickets[use[a].ticket].user]
  <2>1. /\ use[a].won /\ use[a].ticket \in DOMAIN tickets
        /\ Allows(use[a].ticket, use[a].topic)
    BY <1>3 DEF TicketsInv, HandInv, TurnedAway
  <2> QED BY <2>1 DEF TicketsInv, Allows
<1> QED BY <1>1, <1>2, <1>3 DEF OneConnection

-----------------------------------------------------------------------------
(* The steps. *)

\* The clock of a container is a number.
LEMMA ClockInt ==
    ASSUME TicketsAssumption, now \in Nat, NEW c \in Limiters \cup {Database}
    PROVE  Clock(c) \in Int
BY DEF TicketsAssumption, Clock

\* When a ticket expires is a number.
LEMMA ExpiryInt ==
    ASSUME tickets \in Seq(Ticket), NEW n \in DOMAIN tickets
    PROVE  tickets[n].exp \in Int
<1>1. tickets[n] \in Ticket
  OBVIOUS
<1> QED BY <1>1 DEF Ticket

\* What does not move a handshake keeps it, if tickets stay and stay spent.
LEMMA HandsFrame ==
    ASSUME TicketsInv, use' = use, shared' = shared,
           DOMAIN tickets \subseteq DOMAIN tickets',
           \A n \in DOMAIN tickets : tickets'[n] = tickets[n],
           \A s \in Limiters \cup {Database}, n \in DOMAIN tickets :
               Spent(s, n) => Spent(s, n)'
    PROVE  /\ use' \in Seq(TurnedAway \cup Admitted)
           /\ \A a \in DOMAIN use' : HandInv(a)'
           /\ OneInTime'
<1>1. use' \in Seq(TurnedAway \cup Admitted)
  BY DEF TicketsInv
<1>2. ASSUME NEW a \in DOMAIN use PROVE HandInv(a)'
  <2>1. HandInv(a)
    BY DEF TicketsInv
  <2>2. CASE use[a] \in TurnedAway
    BY <2>2 DEF HandInv
  <2>3. CASE use[a] \notin TurnedAway
    <3>1. /\ use[a] \in Admitted /\ use[a].ticket \in DOMAIN tickets
          /\ Allows(use[a].ticket, use[a].topic)
          /\ use[a].at = "pruning" => shared
          /\ use[a].at \in {"acquiring", "connected", "busy"} => use[a].won
          /\ use[a].won => Spent(Store(use[a].by), use[a].ticket)
      BY <2>1, <2>3 DEF HandInv
    <3>2. Allows(use[a].ticket, use[a].topic)'
      BY <3>1 DEF Allows
    <3>3. Store(use[a].by) \in Limiters \cup {Database} /\ Store(use[a].by)' = Store(use[a].by)
      BY <3>1 DEF Store, Admitted
    <3>4. use[a].won => Spent(Store(use[a].by), use[a].ticket)'
      BY <3>1, <3>3
    <3> QED BY <3>1, <3>2, <3>3, <3>4 DEF HandInv
  <2> QED BY <2>2, <2>3
<1>3. OneInTime'
  BY DEF TicketsInv, OneInTime, Store
<1> QED BY <1>1, <1>2, <1>3

\* A handshake that moves on to u, if it wins only what nobody has spent or
\* is marked as late, and spends it.
Moves(a, u) ==
    /\ use' = [use EXCEPT ![a] = u]
    /\ tickets' = tickets /\ shared' = shared
    /\ use[a].at \in Waiting
    /\ u \in Admitted
    /\ u.by = use[a].by /\ u.ticket = use[a].ticket /\ u.topic = use[a].topic
    /\ u.at = "pruning" => shared
    /\ u.at \in {"acquiring", "connected", "busy"} => u.won
    /\ \A s \in Limiters \cup {Database}, n \in DOMAIN tickets : Spent(s, n) => Spent(s, n)'
    /\ u.won => Spent(Store(u.by), u.ticket)'
    /\ u.won => \/ use[a].won /\ u.late = use[a].late
                \/ u.late
                \/ ~ Spent(Store(u.by), u.ticket)

\* A handshake that waits was admitted.
LEMMA Waits ==
    ASSUME TicketsInv, NEW a \in DOMAIN use, use[a].at \in Waiting
    PROVE  /\ use[a] \in Admitted /\ use[a].ticket \in DOMAIN tickets
           /\ Allows(use[a].ticket, use[a].topic)
           /\ use[a].at = "pruning" => shared
           /\ use[a].at = "acquiring" => use[a].won
           /\ use[a].won => Spent(Store(use[a].by), use[a].ticket)
           /\ Store(use[a].by) \in Limiters \cup {Database}
<1>1. HandInv(a)
  BY DEF TicketsInv
<1>2. use[a] \notin TurnedAway
  BY DEF TurnedAway, Waiting
<1>3. /\ use[a] \in Admitted /\ use[a].ticket \in DOMAIN tickets
      /\ Allows(use[a].ticket, use[a].topic)
      /\ use[a].at = "pruning" => shared
      /\ use[a].at \in {"acquiring", "connected", "busy"} => use[a].won
      /\ use[a].won => Spent(Store(use[a].by), use[a].ticket)
  BY <1>1, <1>2 DEF HandInv
<1>4. Store(use[a].by) \in Limiters \cup {Database}
  BY <1>3 DEF Store, Admitted
<1> QED BY <1>3, <1>4

\* Such a move keeps what is known of all of them.
LEMMA HandMoves ==
    ASSUME TicketsInv, NEW a \in DOMAIN use, NEW u, Moves(a, u)
    PROVE  /\ use' \in Seq(TurnedAway \cup Admitted)
           /\ \A b \in DOMAIN use' : HandInv(b)'
           /\ OneInTime'
<1>1. /\ use' = [use EXCEPT ![a] = u] /\ use \in Seq(TurnedAway \cup Admitted)
      /\ u \in Admitted
  BY DEF Moves, TicketsInv
<1>2. use' \in Seq(TurnedAway \cup Admitted) /\ DOMAIN use' = DOMAIN use
  BY <1>1
<1>3. use'[a] = u /\ \A b \in DOMAIN use : b # a => use'[b] = use[b]
  BY <1>1
<1>4. \A s, b : Store(b)' = Store(b)
  BY DEF Store, Moves
<1>5. ASSUME NEW b \in DOMAIN use PROVE HandInv(b)'
  <2>1. CASE b = a
    <3>1. u.ticket \in DOMAIN tickets /\ Allows(u.ticket, u.topic)
      BY Waits DEF Moves
    <3>2. Allows(u.ticket, u.topic)'
      BY <3>1 DEF Moves, Allows
    <3>3. u.won => Spent(Store(u.by), u.ticket)'
      BY DEF Moves
    <3>4. /\ u.at = "pruning" => shared'
          /\ u.at \in {"acquiring", "connected", "busy"} => u.won
          /\ u.ticket \in DOMAIN tickets'
      BY <3>1 DEF Moves
    <3> QED BY <1>1, <1>3, <2>1, <3>2, <3>3, <3>4 DEF HandInv
  <2>2. CASE b # a
    <3>0. use'[b] = use[b] /\ HandInv(b)
      BY <1>3, <2>2 DEF TicketsInv
    <3>1. CASE use[b] \in TurnedAway
      BY <3>0, <3>1 DEF HandInv
    <3>2. CASE use[b] \notin TurnedAway
      <4>1. /\ use[b] \in Admitted /\ use[b].ticket \in DOMAIN tickets
            /\ Allows(use[b].ticket, use[b].topic)
            /\ use[b].at = "pruning" => shared
            /\ use[b].at \in {"acquiring", "connected", "busy"} => use[b].won
            /\ use[b].won => Spent(Store(use[b].by), use[b].ticket)
        BY <3>0, <3>2 DEF HandInv
      <4>2. Allows(use[b].ticket, use[b].topic)'
        BY <3>0, <4>1 DEF Allows, Moves
      <4>3. Store(use[b].by) \in Limiters \cup {Database}
        BY <4>1 DEF Store, Admitted
      <4>4. ASSUME NEW s \in Limiters \cup {Database}, NEW n \in DOMAIN tickets,
                   use'[b].won, s = Store(use[b].by), n = use[b].ticket
            PROVE  Spent(s, n)'
        BY <3>0, <4>1, <4>4 DEF Moves
      <4>5. use'[b].won => Spent(Store(use[b].by), use[b].ticket)'
        BY <3>0, <4>1, <4>3, <4>4 DEF Moves, Spent, Expired, Clock, Store
      <4>6. tickets' = tickets /\ shared' = shared
        BY DEF Moves
      <4> QED BY <3>0, <4>1, <4>2, <4>5, <4>6 DEF HandInv
    <3> QED BY <3>1, <3>2
  <2> QED BY <2>1, <2>2
<1>6. ASSUME NEW b \in DOMAIN use, b # a, use[b].won, u.won,
             Store(use[b].by) = Store(u.by), use[b].ticket = u.ticket
      PROVE  use[b].late \/ u.late
  <2>1. HandInv(b) /\ use[b] \notin TurnedAway
    BY <1>6 DEF TicketsInv, TurnedAway
  <2>2. Spent(Store(u.by), u.ticket)
    BY <1>6, <2>1 DEF HandInv
  <2>3. u.late \/ (use[a].won /\ u.late = use[a].late)
    BY <1>6, <2>2 DEF Moves
  <2>4. CASE use[a].won /\ u.late = use[a].late
    <3>1. Store(use[a].by) = Store(use[b].by) /\ use[a].ticket = use[b].ticket
      BY <1>6 DEF Moves
    <3>2. use[a].late \/ use[b].late
      BY <1>6, <2>4, <3>1 DEF TicketsInv, OneInTime
    <3> QED BY <2>4, <3>2
  <2> QED BY <2>3, <2>4
<1>7. OneInTime'
  <2> SUFFICES ASSUME NEW b \in DOMAIN use, NEW c \in DOMAIN use, b # c,
                      use'[b].won, use'[c].won,
                      Store(use'[b].by) = Store(use'[c].by), use'[b].ticket = use'[c].ticket
               PROVE  use'[b].late \/ use'[c].late
    BY <1>2, <1>4 DEF OneInTime
  <2>1. CASE b = a
    BY <1>3, <1>6, <2>1
  <2>2. CASE c = a
    BY <1>3, <1>6, <2>2
  <2>3. CASE b # a /\ c # a
    <3>1. use'[b] = use[b] /\ use'[c] = use[c]
      BY <1>3, <2>3
    <3> QED BY <3>1 DEF TicketsInv, OneInTime
  <2> QED BY <2>1, <2>2, <2>3
<1> QED BY <1>2, <1>5, <1>7

\* What the actions of handshakes do not touch.
Rest == RateTypeOK /\ shared \in BOOLEAN /\ tickets \in Seq(Ticket)
        /\ \A n \in DOMAIN tickets : tickets[n].scopes \subseteq Scopes[tickets[n].user]

LEMMA RestStays ==
    ASSUME TicketsInv, UNCHANGED <<rateVars, shared, tickets>>
    PROVE  Rest' /\ \A s \in Limiters \cup {Database} : Clock(s)' = Clock(s)
<1>1. now' = now /\ buckets' = buckets /\ checks' = checks
  BY DEF rateVars
<1>2. RateTypeOK'
  BY <1>1 DEF TicketsInv, RateTypeOK
<1>3. \A s \in Limiters \cup {Database} : Clock(s)' = Clock(s)
  BY <1>1 DEF Clock
<1> QED BY <1>2, <1>3 DEF TicketsInv, Rest

\* A handshake after its ticket was looked at.
Became(w, to, won, late) == [w EXCEPT !.at = to, !.won = won, !.late = late]

\* It is still one that was admitted, with the same ticket.
Follows(u, w, to, won, late) ==
    /\ u \in Admitted /\ u.by = w.by /\ u.ticket = w.ticket /\ u.topic = w.topic
    /\ u.at = to /\ u.won = won /\ u.late = late

\* What comes of one that was admitted.
LEMMA Becomes ==
    \A w \in Admitted, to \in Waiting \cup Over : \A won, late :
        (won \in BOOLEAN /\ late \in BOOLEAN) =>
            Follows(Became(w, to, won, late), w, to, won, late)
<1> SUFFICES ASSUME NEW w \in Admitted, NEW to \in Waiting \cup Over, NEW won, NEW late,
                    won \in BOOLEAN, late \in BOOLEAN
             PROVE  Follows(Became(w, to, won, late), w, to, won, late)
  OBVIOUS
<1>1. w = [at |-> w.at, by |-> w.by, ticket |-> w.ticket, topic |-> w.topic,
           won |-> w.won, late |-> w.late]
  BY DEF Admitted
<1>2. PICK u : u = Became(w, to, won, late)
  OBVIOUS
<1>3. u = [at |-> to, by |-> w.by, ticket |-> w.ticket, topic |-> w.topic,
           won |-> won, late |-> late]
  <2>1. u = [w EXCEPT !.at = to, !.won = won, !.late = late]
    BY <1>2 DEF Became
  <2> QED BY <1>1, <2>1
<1>4. w.by \in Limiters /\ w.ticket \in Nat /\ w.topic \in Topics
  BY DEF Admitted
<1>5. Follows(u, w, to, won, late)
  BY <1>3, <1>4 DEF Admitted, Follows
<1> QED BY <1>2, <1>5

LEMMA ConsumesHere ==
    ASSUME TicketsAssumption, TicketsInv, NEW a \in DOMAIN use, ConsumeHere(a)
    PROVE  TicketsInv'
<1> DEFINE c == use[a].by n == use[a].ticket kept == {m \in used[c] : ~ Dead(c, m)}
<1>1. /\ ~ shared /\ use[a].at = "consuming"
      /\ use' = [use EXCEPT ![a] = [use[a] EXCEPT !.at = IF n \in kept THEN "rejected" ELSE "acquiring",
                                             !.won = n \notin kept, !.late = Dead(c, n)]]
      /\ used' = [used EXCEPT ![c] = kept \cup {n}]
      /\ UNCHANGED <<rateVars, shared, tickets, pruned>>
  BY DEF ConsumeHere
<1>2. /\ use[a] \in Admitted /\ n \in DOMAIN tickets /\ Store(c) = c /\ c \in Limiters
  BY <1>1, Waits DEF Waiting, Store, Admitted
<1>3. PICK to \in Waiting \cup Over : to = IF n \in kept THEN "rejected" ELSE "acquiring"
  BY DEF Waiting, Over
<1>4. PICK won \in BOOLEAN, late \in BOOLEAN : won = (n \notin kept) /\ late = Dead(c, n)
  <2>1. (n \notin kept) \in BOOLEAN /\ Dead(c, n) \in BOOLEAN
    BY DEF Dead
  <2> HIDE DEF n, kept, c
  <2> QED BY <2>1, Zenon
<1>14. PICK u : u = Became(use[a], to, won, late)
  OBVIOUS
<1>15. use' = [use EXCEPT ![a] = u]
  <2>1. use' = [use EXCEPT ![a] = [use[a] EXCEPT !.at = to, !.won = won, !.late = late]]
    BY <1>1, <1>3, <1>4, Zenon
  <2> QED BY <1>14, <2>1 DEF Became
<1>5. /\ u \in Admitted /\ u.by = c /\ u.ticket = n /\ u.topic = use[a].topic
      /\ u.at = to /\ u.won = won /\ u.late = late
  <2>1. use[a] \in Admitted
    BY <1>2
  <2>2. to \in Waiting \cup Over
    BY <1>3
  <2>3. won \in BOOLEAN /\ late \in BOOLEAN
    BY <1>4
  <2>4. Follows(u, use[a], to, won, late)
    BY <1>14, <2>1, <2>2, <2>3, Becomes
  <2> QED BY <2>4 DEF Follows
<1>6. used \in [Limiters \cup {Database} -> SUBSET DOMAIN tickets]
  BY DEF TicketsInv
<1>7. used' \in [Limiters \cup {Database} -> SUBSET DOMAIN tickets']
  BY <1>1, <1>2, <1>6
<1>8. used'[c] = kept \cup {n}
      /\ \A s \in Limiters \cup {Database} : s # c => used'[s] = used[s]
  BY <1>1, <1>2, <1>6
<1>9. Rest' /\ \A s \in Limiters \cup {Database} : Clock(s)' = Clock(s)
  BY <1>1, RestStays
<1>10. ASSUME NEW s \in Limiters \cup {Database}, NEW m \in DOMAIN tickets, Spent(s, m)
       PROVE  m \in used'[s] \/ tickets[m].exp <= Clock(s)
  <2>1. m \in used[s] \/ tickets[m].exp <= Clock(s)
    BY <1>1, <1>10 DEF Spent, Expired
  <2>2. CASE s # c
    BY <1>8, <2>1, <2>2
  <2>3. CASE s = c
    BY <1>8, <2>1, <2>3 DEF Dead
  <2> QED BY <2>2, <2>3
<1>11. ASSUME NEW s \in Limiters \cup {Database}, NEW m \in DOMAIN tickets,
              m \in used'[s] \/ tickets[m].exp <= Clock(s)
       PROVE  Spent(s, m)'
  BY <1>1, <1>9, <1>11 DEF Spent, Expired
<1>12. Moves(a, u)
  <2>1. u.won => u.late \/ ~ Spent(c, n)
    BY <1>1, <1>4, <1>5 DEF Spent, Expired, Dead
  <2>2. Spent(u.by, u.ticket)'
    <3>1. u.by \in Limiters \cup {Database} /\ u.ticket \in DOMAIN tickets
          /\ u.ticket \in used'[u.by]
      BY <1>2, <1>5, <1>8
    <3> QED BY <1>11, <3>1
  <2>3. Store(u.by)' = u.by /\ Store(u.by) = u.by
    BY <1>1 DEF Store
  <2>4. \A s \in Limiters \cup {Database}, m \in DOMAIN tickets : Spent(s, m) => Spent(s, m)'
    BY <1>10, <1>11
  <2>5. Spent(Store(u.by), u.ticket)'
    BY <2>2, <2>3 DEF Spent, Expired, Clock
  <2>6. u.won => u.late \/ ~ Spent(Store(u.by), u.ticket)
    BY <1>5, <2>1, <2>3
  <2>7. use[a].at \in Waiting /\ u.at # "pruning" /\ tickets' = tickets /\ shared' = shared
        /\ (u.at \in {"acquiring", "connected", "busy"} => u.won)
    BY <1>1, <1>3, <1>4, <1>5 DEF Waiting
  <2> HIDE DEF c, n, kept
  <2> QED BY <1>5, <1>15, <2>4, <2>5, <2>6, <2>7 DEF Moves, c, n
<1>13. pruned' \in [Limiters -> 0..now']
  BY <1>1 DEF TicketsInv, rateVars
<1> QED BY <1>7, <1>9, <1>12, <1>13, HandMoves DEF Rest, TicketsInv

LEMMA Inserts ==
    ASSUME TicketsAssumption, TicketsInv, NEW a \in DOMAIN use, Insert(a)
    PROVE  TicketsInv'
<1> DEFINE c == use[a].by n == use[a].ticket old == n \in used[Database]
           next == IF Due(c) THEN "pruning" ELSE IF old THEN "rejected" ELSE "acquiring"
<1>1. /\ shared /\ use[a].at = "consuming"
      /\ used' = [used EXCEPT ![Database] = @ \cup {n}]
      /\ use' = [use EXCEPT ![a] = [use[a] EXCEPT !.at = next, !.won = ~ old,
                                             !.late = tickets[n].exp < Clock(Database)]]
      /\ pruned' = [pruned EXCEPT ![c] = IF Due(c) THEN now ELSE @]
      /\ UNCHANGED <<rateVars, shared, tickets>>
  BY DEF Insert
<1>2. /\ use[a] \in Admitted /\ n \in DOMAIN tickets /\ Store(c) = Database /\ c \in Limiters
  BY <1>1, Waits DEF Waiting, Store, Admitted
<1>3. PICK to \in Waiting \cup Over : to = next
  BY DEF Waiting, Over
<1>4. PICK won \in BOOLEAN, late \in BOOLEAN :
          won = (~ old) /\ late = (tickets[n].exp < Clock(Database))
  <2>1. (~ old) \in BOOLEAN /\ (tickets[n].exp < Clock(Database)) \in BOOLEAN
    OBVIOUS
  <2> HIDE DEF n, old
  <2> QED BY <2>1, Zenon
<1>13. PICK u : u = Became(use[a], to, won, late)
  OBVIOUS
<1>14. use' = [use EXCEPT ![a] = u]
  <2>1. use' = [use EXCEPT ![a] = [use[a] EXCEPT !.at = to, !.won = won, !.late = late]]
    BY <1>1, <1>3, <1>4, Zenon
  <2> QED BY <1>13, <2>1 DEF Became
<1>5. /\ u \in Admitted /\ u.by = c /\ u.ticket = n /\ u.topic = use[a].topic
      /\ u.at = to /\ u.won = won /\ u.late = late
  <2>1. use[a] \in Admitted
    BY <1>2
  <2>2. to \in Waiting \cup Over
    BY <1>3
  <2>3. won \in BOOLEAN /\ late \in BOOLEAN
    BY <1>4
  <2>4. Follows(u, use[a], to, won, late)
    BY <1>13, <2>1, <2>2, <2>3, Becomes
  <2> QED BY <2>4 DEF Follows
<1>6. used \in [Limiters \cup {Database} -> SUBSET DOMAIN tickets]
  BY DEF TicketsInv
<1>7. used' \in [Limiters \cup {Database} -> SUBSET DOMAIN tickets']
  BY <1>1, <1>2, <1>6
<1>8. n \in used'[Database] /\ \A s \in Limiters \cup {Database} : used[s] \subseteq used'[s]
  BY <1>1, <1>2, <1>6
<1>9. Rest' /\ \A s \in Limiters \cup {Database} : Clock(s)' = Clock(s)
  BY <1>1, RestStays
<1>10. \A s \in Limiters \cup {Database}, m \in DOMAIN tickets : Spent(s, m) => Spent(s, m)'
  BY <1>1, <1>8, <1>9 DEF Spent, Expired
<1>11. Moves(a, u)
  <2>1. u.won => u.late \/ ~ Spent(Store(u.by), u.ticket)
    BY <1>1, <1>2, <1>4, <1>5 DEF Spent, Expired
  <2>2. Store(u.by)' = Database
    BY <1>1 DEF Store
  <2>3. Spent(Store(u.by), u.ticket)'
    BY <1>5, <1>8, <2>2 DEF Spent
  <2>4. use[a].at \in Waiting /\ tickets' = tickets /\ shared' = shared
        /\ (u.at = "pruning" => shared)
        /\ (u.at \in {"acquiring", "connected", "busy"} => u.won)
    BY <1>1, <1>3, <1>4, <1>5 DEF Waiting
  <2> HIDE DEF c, n, old, next
  <2> QED BY <1>5, <1>10, <1>14, <2>1, <2>3, <2>4 DEF Moves, c, n
<1>12. pruned' \in [Limiters -> 0..now']
  <2>1. pruned \in [Limiters -> 0..now] /\ now' = now /\ now \in 0..now
    BY <1>1 DEF TicketsInv, RateTypeOK, rateVars
  <2> QED BY <1>1, <2>1
<1> QED BY <1>7, <1>9, <1>11, <1>12, HandMoves DEF Rest, TicketsInv

\* The rest of the moves: a handshake only goes on.
LEMMA GoesOn ==
    ASSUME TicketsInv, NEW a \in DOMAIN use, use[a].at \in Waiting, NEW to \in Waiting \cup Over,
           use' = [use EXCEPT ![a].at = to], UNCHANGED <<rateVars, shared, tickets, pruned>>,
           to # "pruning", to \in {"acquiring", "connected", "busy"} => use[a].won,
           used' \in [Limiters \cup {Database} -> SUBSET DOMAIN tickets],
           \A s \in Limiters \cup {Database}, n \in DOMAIN tickets :
               (Spent(s, n) => Spent(s, n)')
    PROVE  TicketsInv'
<1>1. PICK u : u = [use[a] EXCEPT !.at = to]
  OBVIOUS
<1>2. use[a] \in Admitted /\ use[a].ticket \in DOMAIN tickets
      /\ Store(use[a].by) \in Limiters \cup {Database}
      /\ (use[a].won => Spent(Store(use[a].by), use[a].ticket))
  BY Waits
<1>3. /\ u \in Admitted /\ u.by = use[a].by /\ u.ticket = use[a].ticket
      /\ u.topic = use[a].topic /\ u.at = to /\ u.won = use[a].won /\ u.late = use[a].late
  BY <1>1, <1>2 DEF Admitted
<1>4. PICK s \in Limiters \cup {Database} : s = Store(u.by)
  BY <1>2, <1>3
<1>5. u.won => Spent(s, u.ticket)'
  BY <1>2, <1>3, <1>4
<1>6. Store(u.by)' = s
  BY <1>4 DEF Store
<1>7. u.won => Spent(Store(u.by), u.ticket)'
  BY <1>5, <1>6 DEF Spent, Expired, Clock
<1>8. use' = [use EXCEPT ![a] = u]
  BY <1>1
<1>9. tickets' = tickets /\ shared' = shared
  OBVIOUS
<1>10. Moves(a, u)
  BY <1>3, <1>7, <1>8, <1>9 DEF Moves
<1>11. Rest'
  BY RestStays
<1>12. pruned' \in [Limiters -> 0..now']
  BY DEF TicketsInv, rateVars
<1> QED BY <1>9, <1>10, <1>11, <1>12, HandMoves DEF Rest, TicketsInv

\* A ticket that is remembered, or was forgotten because it had expired,
\* stays spent.
LEMMA Prunes ==
    ASSUME TicketsAssumption, TicketsInv, NEW a \in DOMAIN use, Prune(a)
    PROVE  TicketsInv'
<1> DEFINE to == IF use[a].won THEN "acquiring" ELSE "rejected"
<1>1. /\ use[a].at = "pruning" /\ use' = [use EXCEPT ![a].at = to]
      /\ used' = [used EXCEPT ![Database] = {n \in @ : tickets[n].exp >= Clock(Database)}]
      /\ UNCHANGED <<rateVars, shared, tickets, pruned>>
  BY DEF Prune, Go
<1>2. shared /\ use[a] \in Admitted /\ use[a].at \in Waiting
  BY <1>1, Waits DEF Waiting
<1>3. used \in [Limiters \cup {Database} -> SUBSET DOMAIN tickets]
      /\ tickets \in Seq(Ticket) /\ now \in Nat
  BY DEF TicketsInv, RateTypeOK
<1>4. used' \in [Limiters \cup {Database} -> SUBSET DOMAIN tickets]
  BY <1>1, <1>3
<1>5. now' = now /\ shared' = shared /\ tickets' = tickets
  BY <1>1 DEF rateVars
<1>6. ASSUME NEW s \in Limiters \cup {Database}, NEW n \in DOMAIN tickets, Spent(s, n)
      PROVE  Spent(s, n)'
  <2>1. n \in used[s] \/ tickets[n].exp < Clock(s)
    BY <1>2, <1>6 DEF Spent, Expired
  <2>2. Clock(s)' = Clock(s)
    BY <1>5 DEF Clock
  <2>3. n \in used'[s] \/ tickets[n].exp < Clock(s)
    <3>1. CASE s # Database
      BY <1>1, <1>3, <2>1, <3>1
    <3>2. CASE s = Database
      <4>1. tickets[n].exp \in Int /\ Clock(s) \in Int
        BY <1>3, ClockInt, ExpiryInt
      <4>2. used'[s] = {m \in used[s] : tickets[m].exp >= Clock(s)}
        BY <1>1, <1>3, <3>2
      <4> QED BY <2>1, <4>1, <4>2
    <3> QED BY <3>1, <3>2
  <2> QED BY <1>2, <1>5, <2>2, <2>3 DEF Spent, Expired
<1>7. to \in Waiting \cup Over /\ to # "pruning"
      /\ (to \in {"acquiring", "connected", "busy"} => use[a].won)
  BY DEF Waiting, Over
<1> HIDE DEF to
<1> QED BY <1>1, <1>2, <1>4, <1>6, <1>7, GoesOn

LEMMA RaisesOut ==
    ASSUME TicketsAssumption, TicketsInv, NEW a \in DOMAIN use, Raises(a)
    PROVE  TicketsInv'
<1>1. /\ use[a].at \in Waiting /\ use' = [use EXCEPT ![a].at = "error"]
      /\ UNCHANGED <<rateVars, shared, tickets, pruned>>
  BY DEF Raises, Go, Waiting
<1>2. \/ used' = [used EXCEPT ![Database] = @ \cup {use[a].ticket}]
      \/ used' = used
  BY DEF Raises
<1>3. use[a].ticket \in DOMAIN tickets
      /\ used \in [Limiters \cup {Database} -> SUBSET DOMAIN tickets]
  BY <1>1, Waits DEF TicketsInv
<1>4. used' \in [Limiters \cup {Database} -> SUBSET DOMAIN tickets]
      /\ \A s \in Limiters \cup {Database} : used[s] \subseteq used'[s]
  BY <1>2, <1>3
<1>5. \A s \in Limiters \cup {Database}, n \in DOMAIN tickets : Spent(s, n) => Spent(s, n)'
  BY <1>1, <1>4 DEF Spent, Expired, Clock, rateVars
<1>6. "error" \in Waiting \cup Over
  BY DEF Over
<1> QED BY <1>1, <1>4, <1>5, <1>6, GoesOn

LEMMA Acquires ==
    ASSUME TicketsAssumption, TicketsInv, NEW a \in DOMAIN use, Acquire(a)
    PROVE  TicketsInv'
<1>1. PICK to \in {"connected", "busy"} :
        /\ use[a].at = "acquiring" /\ use' = [use EXCEPT ![a].at = to]
        /\ UNCHANGED <<rateVars, shared, tickets, used, pruned>>
  BY DEF Acquire, Go
<1>2. use[a].at \in Waiting /\ use[a].won
  BY <1>1, Waits DEF Waiting
<1>3. used' \in [Limiters \cup {Database} -> SUBSET DOMAIN tickets]
  BY <1>1 DEF TicketsInv
<1>4. \A s \in Limiters \cup {Database}, n \in DOMAIN tickets : Spent(s, n) => Spent(s, n)'
  BY <1>1 DEF Spent, Expired, Clock, rateVars
<1>5. to \in Waiting \cup Over /\ to # "pruning"
  BY <1>1 DEF Over
<1> QED BY <1>1, <1>2, <1>3, <1>4, <1>5, GoesOn

LEMMA Ticks ==
    ASSUME TicketsAssumption, TicketsInv, Tick
    PROVE  TicketsInv'
<1>1. /\ now \in Nat /\ now' = now + 1 /\ buckets' = buckets /\ shared' = shared
      /\ tickets' = tickets /\ used' = used /\ pruned' = pruned /\ use' = use
  BY DEF Tick, ticketVars, TicketsInv, RateTypeOK
<1>2. RateTypeOK'
  BY TickType DEF TicketsInv
<1>3. ASSUME NEW s \in Limiters \cup {Database}, NEW n \in DOMAIN tickets, Spent(s, n)
      PROVE  Spent(s, n)'
  <2>1. Skew[s] \in Int /\ tickets[n].exp \in Int
    BY ExpiryInt DEF TicketsAssumption, TicketsInv
  <2> QED BY <1>1, <1>3, <2>1 DEF Spent, Expired, Clock
<1>4. /\ use' \in Seq(TurnedAway \cup Admitted)
      /\ \A a \in DOMAIN use' : HandInv(a)'
      /\ OneInTime'
  BY <1>1, <1>3, HandsFrame
<1>5. pruned' \in [Limiters -> 0..now']
  BY <1>1 DEF TicketsInv
<1> QED BY <1>1, <1>2, <1>4, <1>5 DEF TicketsInv

LEMMA Issues ==
    ASSUME RateAssumption, TicketsAssumption, TicketsInv,
           NEW c \in Limiters, NEW k \in Keys, Issue(c, k)
    PROVE  TicketsInv'
<1> DEFINE new == [user |-> k, scopes |-> Scopes[k] \cap TicketScopes, exp |-> Clock(c) + Ttl]
<1>1. /\ Check(c, k) /\ shared' = shared /\ used' = used /\ pruned' = pruned /\ use' = use
      /\ tickets' = tickets \/ tickets' = Append(tickets, new)
  BY DEF Issue
<1>2. now' = now /\ now \in Nat
  BY <1>1 DEF Check, TicketsInv, RateTypeOK
<1>3. RateTypeOK'
  BY <1>1, CheckType DEF TicketsInv
<1>4. new \in Ticket /\ new.scopes \subseteq Scopes[new.user]
  <2>1. Clock(c) + Ttl \in Int
    BY <1>2, ClockInt DEF TicketsAssumption
  <2> QED BY <2>1 DEF Ticket
<1> HIDE DEF new
<1>5. /\ tickets' \in Seq(Ticket) /\ DOMAIN tickets \subseteq DOMAIN tickets'
      /\ \A n \in DOMAIN tickets : tickets'[n] = tickets[n]
      /\ \A n \in DOMAIN tickets' : tickets'[n].scopes \subseteq Scopes[tickets'[n].user]
  <2>1. tickets \in Seq(Ticket)
        /\ \A n \in DOMAIN tickets : tickets[n].scopes \subseteq Scopes[tickets[n].user]
    BY DEF TicketsInv
  <2>2. CASE tickets' = tickets
    BY <2>1, <2>2
  <2>3. CASE tickets' = Append(tickets, new)
    <3>1. /\ tickets' \in Seq(Ticket) /\ Len(tickets') = Len(tickets) + 1
          /\ \A n \in 1..Len(tickets) : tickets'[n] = tickets[n]
          /\ tickets'[Len(tickets) + 1] = new
      BY <1>4, <2>1, <2>3, AppendProperties
    <3>2. \A n \in DOMAIN tickets' : n \in DOMAIN tickets \/ n = Len(tickets) + 1
      BY <2>1, <3>1
    <3> QED BY <1>4, <2>1, <3>1, <3>2
  <2> QED BY <1>1, <2>2, <2>3
<1>6. \A s \in Limiters \cup {Database}, n \in DOMAIN tickets : Spent(s, n) => Spent(s, n)'
  BY <1>1, <1>2, <1>5 DEF Spent, Expired, Clock
<1>7. /\ use' \in Seq(TurnedAway \cup Admitted)
      /\ \A a \in DOMAIN use' : HandInv(a)'
      /\ OneInTime'
  BY <1>1, <1>5, <1>6, HandsFrame
<1>8. used' \in [Limiters \cup {Database} -> SUBSET DOMAIN tickets']
  BY <1>1, <1>5 DEF TicketsInv
<1>9. pruned' \in [Limiters -> 0..now']
  BY <1>1, <1>2 DEF TicketsInv
<1>10. shared' \in BOOLEAN
  BY <1>1 DEF TicketsInv
<1> QED BY <1>3, <1>5, <1>7, <1>8, <1>9, <1>10 DEF TicketsInv

LEMMA Verifies ==
    ASSUME TicketsAssumption, TicketsInv, NEW c \in Limiters, NEW n \in 0..Len(tickets),
           NEW topic \in Topics \cup {"other"}, Verify(c, n, topic)
    PROVE  TicketsInv'
<1>1. PICK u :
        /\ use' = Append(use, u)
        /\ u = IF Refusal(c, n, topic) # "none" THEN [at |-> Refusal(c, n, topic), won |-> FALSE]
               ELSE [at |-> "consuming", by |-> c, ticket |-> n, topic |-> topic,
                     won |-> FALSE, late |-> FALSE]
  BY DEF Verify
<1>2. UNCHANGED <<rateVars, shared, tickets, used, pruned>>
  BY DEF Verify
<1>3. use \in Seq(TurnedAway \cup Admitted) /\ tickets \in Seq(Ticket)
  BY DEF TicketsInv
<1>4. \/ u \in TurnedAway
      \/ /\ u \in Admitted /\ u.at = "consuming" /\ ~ u.won
         /\ u.ticket \in DOMAIN tickets /\ Allows(u.ticket, u.topic)
  <2>1. CASE Refusal(c, n, topic) # "none"
    <3>1. u = [at |-> Refusal(c, n, topic), won |-> FALSE]
      BY <1>1, <2>1
    <3>2. Refusal(c, n, topic) \in {"unknown_topic", "rejected", "forbidden"}
      BY <2>1 DEF Refusal
    <3> QED BY <3>1, <3>2 DEF TurnedAway
  <2>2. CASE Refusal(c, n, topic) = "none"
    <3>1. u = [at |-> "consuming", by |-> c, ticket |-> n, topic |-> topic,
               won |-> FALSE, late |-> FALSE]
      BY <1>1, <2>2
    <3>2. n # 0 /\ topic \in Topics /\ Allows(n, topic)
      BY <2>2 DEF Refusal
    <3>3. n \in DOMAIN tickets /\ n \in Nat
      BY <1>3, <3>2
    <3> QED BY <3>1, <3>2, <3>3 DEF Admitted, Waiting
  <2> QED BY <2>1, <2>2
<1> DEFINE N == Len(use)
<1>5. /\ use' \in Seq(TurnedAway \cup Admitted) /\ DOMAIN use' = 1..(N + 1)
      /\ \A a \in 1..N : use'[a] = use[a]
      /\ use'[N + 1] = u
      /\ N \in Nat /\ DOMAIN use = 1..N
  <2>1. u \in TurnedAway \cup Admitted
    BY <1>4
  <2> QED BY <1>1, <1>3, <2>1, AppendProperties
<1>6. now' = now /\ shared' = shared /\ tickets' = tickets /\ used' = used
  BY <1>2 DEF rateVars
<1>7. ~ u.won
  BY <1>4 DEF TurnedAway
<1> HIDE DEF N
<1>8. ASSUME NEW a \in DOMAIN use' PROVE HandInv(a)'
  <2>1. CASE a = N + 1
    <3>1. CASE u \in TurnedAway
      BY <1>5, <2>1, <3>1 DEF HandInv
    <3>2. CASE u \notin TurnedAway
      <4>1. /\ u \in Admitted /\ u.at = "consuming" /\ ~ u.won
            /\ u.ticket \in DOMAIN tickets' /\ Allows(u.ticket, u.topic)'
        BY <1>4, <1>6, <3>2 DEF Allows
      <4> QED BY <1>5, <2>1, <4>1 DEF HandInv
    <3> QED BY <3>1, <3>2
  <2>2. CASE a # N + 1
    <3>1. a \in DOMAIN use
      BY <1>5, <2>2
    <3>2. HandInv(a) /\ use'[a] = use[a]
      BY <1>5, <3>1 DEF TicketsInv
    <3> QED BY <1>6, <3>2 DEF HandInv, Allows, Store, Spent, Expired, Clock
  <2> QED BY <2>1, <2>2
<1>9. OneInTime'
  <2> SUFFICES ASSUME NEW a \in DOMAIN use', NEW b \in DOMAIN use', a # b,
                      use'[a].won, use'[b].won,
                      Store(use'[a].by) = Store(use'[b].by), use'[a].ticket = use'[b].ticket
               PROVE  use'[a].late \/ use'[b].late
    BY <1>6 DEF OneInTime, Store
  <2>1. a \in DOMAIN use /\ b \in DOMAIN use
    BY <1>5, <1>7
  <2>2. use'[a] = use[a] /\ use'[b] = use[b]
    BY <1>5, <2>1
  <2> QED BY <2>1, <2>2 DEF TicketsInv, OneInTime
<1>10. Rest'
  BY <1>2, RestStays
<1>11. /\ used' \in [Limiters \cup {Database} -> SUBSET DOMAIN tickets']
       /\ pruned' \in [Limiters -> 0..now']
  BY <1>2, <1>6 DEF TicketsInv
<1> QED BY <1>5, <1>8, <1>9, <1>10, <1>11 DEF Rest, TicketsInv

\* Every step keeps the invariant ...
LEMMA TicketsStep ==
    ASSUME RateAssumption, TicketsAssumption, TicketsInv, [Next]_vars
    PROVE  TicketsInv'
<1>1. ASSUME NEW c \in Limiters, NEW k \in Keys, Issue(c, k) PROVE TicketsInv'
  BY <1>1, Issues
<1>2. ASSUME NEW c \in Limiters, NEW n \in 0..Len(tickets), NEW topic \in Topics \cup {"other"},
             Verify(c, n, topic)
      PROVE  TicketsInv'
  BY <1>2, Verifies
<1>3. CASE Tick
  BY <1>3, Ticks
<1>4. ASSUME NEW a \in DOMAIN use,
             ConsumeHere(a) \/ Insert(a) \/ Prune(a) \/ Raises(a) \/ Acquire(a)
      PROVE  TicketsInv'
  BY <1>4, ConsumesHere, Inserts, Prunes, RaisesOut, Acquires
<1>5. CASE UNCHANGED vars
  <2>1. UNCHANGED <<rateVars, shared, tickets, used, pruned, use>>
    BY <1>5 DEF vars, ticketVars
  <2>2. Rest' /\ used' = used /\ pruned' = pruned /\ now' = now
    BY <2>1, RestStays DEF rateVars
  <2>3. \A s \in Limiters \cup {Database}, n \in DOMAIN tickets : Spent(s, n) => Spent(s, n)'
    BY <2>1 DEF Spent, Expired, Clock, rateVars
  <2>4. /\ use' \in Seq(TurnedAway \cup Admitted)
        /\ \A a \in DOMAIN use' : HandInv(a)'
        /\ OneInTime'
    BY <2>1, <2>3, HandsFrame
  <2> QED BY <2>1, <2>2, <2>4 DEF Rest, TicketsInv
<1> QED BY <1>1, <1>2, <1>3, <1>4, <1>5 DEF Next

\* ... and it holds at the start.
LEMMA TicketsStart ==
    ASSUME RateAssumption, TicketsAssumption, Init
    PROVE  TicketsInv
<1>1. RateTypeOK
  <2>1. now = 0 /\ buckets = [l \in Limiters |-> <<>>]
    BY DEF Init, RateInit
  <2>2. MaxKeys \in Nat
    BY DEF RateAssumption
  <2> QED BY <2>1, <2>2 DEF RateTypeOK
<1>2. /\ shared \in BOOLEAN /\ tickets = <<>> /\ use = <<>> /\ now = 0
      /\ used = [s \in Limiters \cup {Database} |-> {}]
      /\ pruned = [c \in Limiters |-> 0]
  BY DEF Init, RateInit
<1>3. tickets \in Seq(Ticket) /\ use \in Seq(TurnedAway \cup Admitted)
      /\ DOMAIN tickets = {} /\ DOMAIN use = {}
  BY <1>2
<1> QED BY <1>1, <1>2, <1>3 DEF TicketsInv, OneInTime

LEMMA TicketsAlways ==
    ASSUME RateAssumption, TicketsAssumption
    PROVE  Spec => []TicketsInv
<1>1. Init => TicketsInv
  BY TicketsStart
<1>2. TicketsInv /\ [Next]_vars => TicketsInv'
  BY TicketsStep
<1> QED BY <1>1, <1>2, PTL DEF Spec

-----------------------------------------------------------------------------
(* What holds of the tickets. *)

\* The buckets hold what they may, one for each key and no more than MaxKeys,
\* and a store remembers only tickets that were issued.
THEOREM TicketTypes ==
    ASSUME RateAssumption, TicketsAssumption
    PROVE  Spec => []TypeOK
<1>1. TicketsInv => TypeOK
  BY TicketsInvImplies
<1> QED BY <1>1, TicketsAlways, PTL

\* A ticket opens one connection, among all containers that share a store,
\* unless it was verified in time and consumed when the store took it for
\* expired; and only to a topic its user may read.  Whatever the clocks say,
\* however long a handshake takes and whenever the store is pruned.
THEOREM OneConnectionPerTicket ==
    ASSUME RateAssumption, TicketsAssumption
    PROVE  Spec => []OneConnection
<1>1. TicketsInv => OneConnection
  BY TicketsInvImplies
<1> QED BY <1>1, TicketsAlways, PTL

-----------------------------------------------------------------------------
(* The limit. *)

CheckRec == [limiter : Limiters, key : Keys, at : Nat, wait : Nat]

\* No later check is of the same caller.
Latest(i) == \A j \in DOMAIN checks : j > i => ~ Same(j, i)

Granted(m, n) == Cardinality({i \in Mine(m, n) : checks[i].wait = 0})

\* What was granted and what is left are no more than a burst and what flowed.
InLimit(i, tokens) ==
    \A m \in 1..i : (Same(m, i) /\ Kept(m, i)) =>
        Granted(m, i) * Unit + tokens <= Full + (checks[i].at - checks[m].at) * Rate

\* The last check of a caller left this bucket ...
LeftBy(i, b) ==
    /\ b.key = checks[i].key /\ b.last = checks[i].at
    /\ checks[i].wait > 0 => b.tokens < Unit /\ checks[i].wait = RetryAfter(b.tokens)
    /\ InLimit(i, b.tokens)

\* ... which has in front of it, from the new end, those who came since; or
\* they were too many.
Remembered(i) ==
    \E p \in DOMAIN buckets[checks[i].limiter] :
        /\ LeftBy(i, buckets[checks[i].limiter][p])
        /\ Newer(buckets[checks[i].limiter], p) = Rivals(i, Len(checks))

Forgotten(i) ==
    /\ ~ Has(checks[i].limiter, checks[i].key)
    /\ IsFiniteSet(Rivals(i, Len(checks)))
    /\ Cardinality(Rivals(i, Len(checks))) >= MaxKeys

LimitInv ==
    /\ checks \in Seq(CheckRec)
    /\ \A m \in DOMAIN checks : \E i \in DOMAIN checks : m <= i /\ Same(m, i) /\ Latest(i)
    /\ \A i \in DOMAIN checks : Latest(i) => Remembered(i) \/ Forgotten(i)
    /\ LimitIsKept

\* A product of a sum, and of what is no less.
LEMMA Products ==
    /\ \A x, y \in Int : \A r \in Nat : (x + y) * r = x * r + y * r
    /\ \A x, y \in Int : \A r \in Nat : x <= y => x * r <= y * r
OBVIOUS

\* Who waits as long as retry_after_header says has a token by then.
LEMMA EnoughAfter ==
    ASSUME RateAssumption, NEW t \in Int
    PROVE  RetryAfter(t) \in Nat /\ t + RetryAfter(t) * Rate >= Unit
<1>1. Unit \in Nat /\ Rate \in Nat /\ Rate > 0
  BY DEF RateAssumption
<1> DEFINE x == Unit - t + Rate - 1 q == x \div Rate
<1>2. x \in Int /\ q \in Int
  BY <1>1
<1>3. RetryAfter(t) = IF 1 >= q THEN 1 ELSE q
  BY <1>2, MaxOfTwo DEF RetryAfter
<1>4. q * Rate + Rate > x
  <2> HIDE DEF x
  <2> QED BY <1>1, <1>2
<1>5. q * Rate >= Unit - t
  <2>1. q * Rate \in Int
    BY <1>1, <1>2
  <2> HIDE DEF q
  <2> QED BY <1>1, <1>4, <2>1
<1> HIDE DEF x, q
<1>6. RetryAfter(t) \in Nat /\ q <= RetryAfter(t)
  BY <1>2, <1>3
<1> DEFINE w == RetryAfter(t)
<1>7. q * Rate <= w * Rate /\ w * Rate \in Int /\ q * Rate \in Int
  BY <1>1, <1>2, <1>6, Products
<1> HIDE DEF w
<1>8. t + w * Rate >= Unit
  BY <1>1, <1>5, <1>7
<1> QED BY <1>6, <1>8 DEF w

\* The history grows at its end.
LEMMA History ==
    ASSUME checks \in Seq(CheckRec), NEW r \in CheckRec, checks' = Append(checks, r)
    PROVE  /\ checks' \in Seq(CheckRec) /\ Len(checks) \in Nat
           /\ DOMAIN checks = 1..Len(checks)
           /\ Len(checks') = Len(checks) + 1
           /\ DOMAIN checks' = 1..(Len(checks) + 1)
           /\ \A i \in 1..Len(checks) : checks'[i] = checks[i]
           /\ checks'[Len(checks) + 1] = r
BY AppendProperties

\* So nothing changes in what was ...
LEMMA Before ==
    ASSUME checks \in Seq(CheckRec), NEW r \in CheckRec, checks' = Append(checks, r),
           NEW m \in DOMAIN checks, NEW n \in DOMAIN checks
    PROVE  /\ Same(m, n)' <=> Same(m, n)
           /\ Mine(m, n)' = Mine(m, n)
           /\ Rivals(m, n)' = Rivals(m, n)
           /\ Kept(m, n)' <=> Kept(m, n)
           /\ Granted(m, n)' = Granted(m, n)
<1> DEFINE N == Len(checks)
<1>1. /\ N \in Nat /\ DOMAIN checks = 1..N /\ \A i \in 1..N : checks'[i] = checks[i]
  BY History
<1> HIDE DEF N
<1>2. \A i, j \in 1..N : Same(i, j)' <=> Same(i, j)
  BY <1>1 DEF Same
<1>3. \A i, j \in 1..N : i..j \subseteq 1..N
  BY <1>1
<1>4. \A i, j \in 1..N : Mine(i, j)' = Mine(i, j)
  <2> SUFFICES ASSUME NEW i \in 1..N, NEW j \in 1..N
               PROVE  {h \in i..j : Same(h, i)'} = {h \in i..j : Same(h, i)}
    BY DEF Mine
  <2> QED BY <1>2, <1>3
<1>5. \A i, j \in 1..N : Rivals(i, j)' = Rivals(i, j)
  <2> SUFFICES ASSUME NEW i \in 1..N, NEW j \in 1..N PROVE Rivals(i, j)' = Rivals(i, j)
    OBVIOUS
  <2>1. {h \in i..j : checks'[h].limiter = checks'[i].limiter}
        = {h \in i..j : checks[h].limiter = checks[i].limiter}
    BY <1>1, <1>3
  <2>2. {checks'[g].key : g \in {h \in i..j : checks'[h].limiter = checks'[i].limiter}}
        = {checks[g].key : g \in {h \in i..j : checks[h].limiter = checks[i].limiter}}
    BY <1>1, <1>3, <2>1
  <2> QED BY <1>1, <2>2 DEF Rivals
<1>6. Kept(m, n)' <=> Kept(m, n)
  <2>1. \A i \in Mine(m, n) : i \in 1..N
    BY <1>1, <1>3 DEF Mine
  <2>2. Mine(m, n)' = Mine(m, n)
    BY <1>1, <1>4
  <2>3. \A i, j \in Mine(m, n) :
            Mine(i, j)' = Mine(i, j) /\ Rivals(i, j)' = Rivals(i, j)
    BY <1>4, <1>5, <2>1
  <2> QED BY <2>2, <2>3 DEF Kept
<1>7. Granted(m, n)' = Granted(m, n)
  <2>1. {i \in Mine(m, n) : checks'[i].wait = 0} = {i \in Mine(m, n) : checks[i].wait = 0}
    BY <1>1, <1>3 DEF Mine
  <2>2. Mine(m, n)' = Mine(m, n)
    BY <1>1, <1>4
  <2> QED BY <2>1, <2>2 DEF Granted
<1> QED BY <1>1, <1>2, <1>4, <1>5, <1>6, <1>7

\* ... and whoever asks now is a rival of the others.
LEMMA RivalsGrow ==
    ASSUME checks \in Seq(CheckRec), NEW r \in CheckRec, checks' = Append(checks, r),
           NEW m \in DOMAIN checks, NEW n, n = Len(checks) + 1
    PROVE  Rivals(m, n)' =
               IF r.limiter = checks[m].limiter /\ r.key # checks[m].key
               THEN Rivals(m, Len(checks)) \cup {r.key} ELSE Rivals(m, Len(checks))
<1> DEFINE N == Len(checks)
           theirs == {h \in m..N : checks[h].limiter = checks[m].limiter}
           now_theirs == {h \in m..n : checks'[h].limiter = checks'[m].limiter}
<1>1. /\ N \in Nat /\ m \in 1..N /\ \A i \in 1..N : checks'[i] = checks[i]
      /\ checks'[n] = r /\ n = N + 1
  BY History
<1>2. Rivals(m, N) = {checks[i].key : i \in theirs} \ {checks[m].key}
  BY DEF Rivals
<1>3. Rivals(m, n)' = {checks'[i].key : i \in now_theirs} \ {checks[m].key}
  <2>1. checks'[m] = checks[m]
    BY <1>1
  <2> QED BY <2>1 DEF Rivals
<1> HIDE DEF N
<1>4. now_theirs = IF r.limiter = checks[m].limiter THEN theirs \cup {n} ELSE theirs
  <2>1. m..n = (m..N) \cup {n} /\ m..N \subseteq 1..N
    BY <1>1
  <2> QED BY <1>1, <2>1
<1>5. theirs \subseteq 1..N
  BY <1>1
<1> HIDE DEF theirs, now_theirs
<1>6. {checks'[i].key : i \in theirs} = {checks[i].key : i \in theirs}
  BY <1>1, <1>5
<1>7. CASE r.limiter = checks[m].limiter
  <2>1. {checks'[i].key : i \in now_theirs} = {checks[i].key : i \in theirs} \cup {r.key}
    <3>1. now_theirs = theirs \cup {n}
      BY <1>4, <1>7
    <3>2. {checks'[i].key : i \in now_theirs} = {checks'[i].key : i \in theirs} \cup {checks'[n].key}
      BY <3>1
    <3> QED BY <1>1, <1>6, <3>2
  <2> QED BY <1>2, <1>3, <1>7, <2>1 DEF N
<1>8. CASE r.limiter # checks[m].limiter
  <2>1. {checks'[i].key : i \in now_theirs} = {checks[i].key : i \in theirs}
    BY <1>4, <1>6, <1>8
  <2> QED BY <1>2, <1>3, <1>8, <2>1 DEF N
<1> QED BY <1>7, <1>8

\* What a check asks and answers.
Asked(l, k) == [limiter |-> l, key |-> k, at |-> now, wait |-> Wait(l, k)]

LEMMA CheckFacts ==
    ASSUME RateAssumption, RateTypeOK, NEW l \in Limiters, NEW k \in Keys, Check(l, k)
    PROVE  /\ Asked(l, k) \in CheckRec /\ checks' = Append(checks, Asked(l, k))
           /\ Used(Taken(l, k), l, k) /\ buckets'[l] = Taken(l, k)
           /\ \A m \in Limiters : m # l => buckets'[m] = buckets[m]
<1>1. now \in Nat /\ BucketsOf(l) /\ buckets' = [buckets EXCEPT ![l] = Taken(l, k)]
  BY RateOf DEF Check
<1>2. Wait(l, k) \in Nat
  BY <1>1, LeftFacts
<1>3. Asked(l, k) \in CheckRec
  BY <1>1, <1>2 DEF Asked, CheckRec
<1>4. Used(Taken(l, k), l, k)
  BY <1>1, TakenFacts
<1>5. buckets'[l] = Taken(l, k) /\ \A m \in Limiters : m # l => buckets'[m] = buckets[m]
  BY <1>1 DEF RateTypeOK
<1> QED BY <1>3, <1>4, <1>5 DEF Check, Asked

\* What a check left is known as long as it is the caller's last.
LEMMA LeftByStays ==
    ASSUME checks \in Seq(CheckRec), NEW r \in CheckRec, checks' = Append(checks, r),
           NEW i \in DOMAIN checks, NEW b, LeftBy(i, b)
    PROVE  LeftBy(i, b)'
<1>1. DOMAIN checks = 1..Len(checks) /\ checks'[i] = checks[i] /\ Len(checks) \in Nat
  BY History
<1>2. ASSUME NEW m \in 1..i
      PROVE  /\ Same(m, i)' <=> Same(m, i)
             /\ Kept(m, i)' <=> Kept(m, i)
             /\ Granted(m, i)' = Granted(m, i)
             /\ checks'[m] = checks[m]
  <2>1. m \in DOMAIN checks
    BY <1>1
  <2> QED BY <2>1, <1>1, Before, History
<1>3. InLimit(i, b.tokens)'
  BY <1>1, <1>2 DEF LeftBy, InLimit
<1> QED BY <1>1, <1>3 DEF LeftBy

\* A check of another caller moves a bucket on, or out.
LEMMA OthersStay ==
    ASSUME RateAssumption, RateTypeOK, LimitInv, NEW l \in Limiters, NEW k \in Keys,
           Check(l, k), NEW i \in DOMAIN checks, Latest(i)'
    PROVE  (Remembered(i) \/ Forgotten(i)) /\ (Remembered(i)' \/ Forgotten(i)')
<1> DEFINE r == Asked(l, k) t == Taken(l, k)
<1>0. PICK n : n = Len(checks) + 1
  OBVIOUS
<1>1. /\ r \in CheckRec /\ checks' = Append(checks, r) /\ Used(t, l, k) /\ buckets'[l] = t
      /\ \A m \in Limiters : m # l => buckets'[m] = buckets[m]
  BY CheckFacts
<1>2. checks \in Seq(CheckRec)
  BY DEF LimitInv
<1>3. /\ Len(checks) \in Nat /\ DOMAIN checks = 1..Len(checks)
      /\ Len(checks') = n /\ DOMAIN checks' = 1..n
      /\ \A j \in 1..Len(checks) : checks'[j] = checks[j]
      /\ checks'[n] = r
  BY <1>0, <1>1, <1>2, History
<1>4. r.limiter = l /\ r.key = k
  BY DEF Asked
<1> HIDE DEF r, t
<1>5. PICK li \in Limiters, ki \in Keys : checks[i].limiter = li /\ checks[i].key = ki
  <2>1. checks[i] \in CheckRec
    BY <1>2
  <2> QED BY <2>1 DEF CheckRec
<1>6. Latest(i) /\ (li # l \/ ki # k)
  <2>1. ASSUME NEW j \in DOMAIN checks, j > i PROVE ~ Same(j, i)
    <3>1. j \in DOMAIN checks'
      BY <1>0, <1>3
    <3>2. ~ Same(j, i)'
      BY <2>1, <3>1 DEF Latest
    <3> QED BY <1>3, <3>2 DEF Same
  <2>2. n \in DOMAIN checks' /\ n > i
    BY <1>0, <1>3
  <2>3. ~ Same(n, i)'
    BY <2>2 DEF Latest
  <2> QED BY <1>3, <1>4, <1>5, <2>1, <2>3 DEF Same, Latest
<1>7. Remembered(i) \/ Forgotten(i)
  BY <1>6 DEF LimitInv
<1>8. Rivals(i, n)' = IF li = l THEN Rivals(i, Len(checks)) \cup {k} ELSE Rivals(i, Len(checks))
  <2>1. Rivals(i, n)' =
           IF r.limiter = checks[i].limiter /\ r.key # checks[i].key
           THEN Rivals(i, Len(checks)) \cup {r.key} ELSE Rivals(i, Len(checks))
    BY <1>0, <1>1, <1>2, RivalsGrow
  <2> QED BY <1>4, <1>5, <1>6, <2>1
<1>9. checks'[i].limiter = li /\ checks'[i].key = ki
  BY <1>3, <1>5
<1>10. /\ MaxKeys \in Nat
       /\ \A p \in DOMAIN buckets[l] : buckets[l][p].key # k => Passed(buckets[l], t, p, k)
       /\ \A q \in DOMAIN t : t[q].key = k \/ \E p \in DOMAIN buckets[l] : t[q] = buckets[l][p]
  BY <1>1 DEF Used, RateAssumption
<1>11. CASE Remembered(i)
  <2>1. PICK p \in DOMAIN buckets[li] :
           LeftBy(i, buckets[li][p]) /\ Newer(buckets[li], p) = Rivals(i, Len(checks))
    BY <1>5, <1>11 DEF Remembered
  <2>2. PICK b : b = buckets[li][p]
    OBVIOUS
  <2>3. LeftBy(i, b)' /\ b.key = ki
    <3>1. LeftBy(i, b)
      BY <2>1, <2>2
    <3> QED BY <1>1, <1>2, <1>5, <3>1, LeftByStays DEF LeftBy
  <2>4. ASSUME NEW q \in DOMAIN buckets'[li], buckets'[li][q] = b,
               Newer(buckets'[li], q) = Rivals(i, n)'
        PROVE  Remembered(i)'
    <3>1. LeftBy(i, buckets[li][q])'
      BY <2>3, <2>4
    <3>2. Newer(buckets[li], q)' = Rivals(i, Len(checks))'
      BY <1>3, <2>4
    <3> QED BY <1>9, <3>1, <3>2 DEF Remembered
  <2>5. CASE li # l
    <3>1. buckets'[li] = buckets[li]
      BY <1>1, <2>5
    <3> QED BY <1>7, <1>8, <2>1, <2>2, <2>4, <2>5, <3>1
  <2>6. CASE li = l
    <3>1. Passed(buckets[l], t, p, k)
      BY <1>6, <1>10, <2>2, <2>3, <2>6
    <3>2. CASE \E q \in DOMAIN t : t[q] = b /\ Newer(t, q) = Newer(buckets[l], p) \cup {k}
      <4>1. PICK q \in DOMAIN t : t[q] = b /\ Newer(t, q) = Newer(buckets[l], p) \cup {k}
        BY <3>2
      <4> QED BY <1>1, <1>7, <1>8, <2>1, <2>4, <2>6, <4>1
    <3>3. CASE ~ \E q \in DOMAIN t : t[q] = b /\ Newer(t, q) = Newer(buckets[l], p) \cup {k}
      <4>1. /\ \A q \in DOMAIN t : t[q].key # ki
            /\ IsFiniteSet(Newer(buckets[l], p) \cup {k})
            /\ Cardinality(Newer(buckets[l], p) \cup {k}) >= MaxKeys
        BY <2>2, <2>3, <2>6, <3>1, <3>3 DEF Passed
      <4>2. Rivals(i, n)' = Newer(buckets[l], p) \cup {k}
        BY <1>8, <2>1, <2>6
      <4>3. ~ Has(li, ki)'
        BY <1>1, <2>6, <4>1 DEF Has
      <4>4. Forgotten(i)'
        <5>1. Rivals(i, Len(checks))' = Newer(buckets[l], p) \cup {k}
          BY <1>3, <4>2
        <5> QED BY <1>9, <4>1, <4>3, <5>1 DEF Forgotten
      <4> QED BY <1>7, <4>4
    <3> QED BY <3>2, <3>3
  <2> QED BY <2>5, <2>6
<1>12. CASE Forgotten(i)
  <2>1. /\ ~ Has(li, ki) /\ IsFiniteSet(Rivals(i, Len(checks)))
        /\ Cardinality(Rivals(i, Len(checks))) >= MaxKeys
    BY <1>5, <1>12 DEF Forgotten
  <2>2. ~ Has(li, ki)'
    <3>1. CASE li # l
      BY <1>1, <2>1, <3>1 DEF Has
    <3>2. CASE li = l
      BY <1>1, <1>6, <1>10, <2>1, <3>2 DEF Has
    <3> QED BY <3>1, <3>2
  <2>3. IsFiniteSet(Rivals(i, n)') /\ Cardinality(Rivals(i, n)') >= MaxKeys
    <3>1. PICK R : R = Rivals(i, Len(checks))
      OBVIOUS
    <3>2. IsFiniteSet(R \cup {k}) /\ Cardinality(R \cup {k}) >= MaxKeys
      <4>1. /\ IsFiniteSet(R \cup {k}) /\ Cardinality(R) \in Nat
            /\ (Cardinality(R \cup {k}) = Cardinality(R)
                \/ Cardinality(R \cup {k}) = Cardinality(R) + 1)
        BY <2>1, <3>1, FS_AddElement, FS_CardinalityType
      <4> QED BY <1>10, <2>1, <3>1, <4>1
    <3> QED BY <1>8, <2>1, <3>1, <3>2
  <2>4. Forgotten(i)'
    <3>1. Rivals(i, Len(checks))' = Rivals(i, n)'
      BY <1>3
    <3> QED BY <1>9, <2>2, <2>3, <3>1 DEF Forgotten
  <2> QED BY <1>7, <2>4
<1> QED BY <1>7, <1>11, <1>12

\* The checks of a caller up to the new one: those up to its last, and this.
FollowsLast(m, i, n) ==
    /\ m <= i /\ i < n /\ Same(m, i) /\ Latest(i)
    /\ Mine(m, n)' = Mine(m, i) \cup {n} /\ Mine(i, n)' = {i, n}

LEMMA FromLast ==
    ASSUME LimitInv, NEW r \in CheckRec, checks' = Append(checks, r),
           NEW n, n = Len(checks) + 1, NEW m \in DOMAIN checks, Same(m, n)'
    PROVE  \E i \in DOMAIN checks : FollowsLast(m, i, n)
<1>1. /\ checks \in Seq(CheckRec) /\ Len(checks) \in Nat /\ DOMAIN checks = 1..Len(checks)
      /\ \A j \in 1..Len(checks) : checks'[j] = checks[j]
  BY History DEF LimitInv
<1>2. PICK i \in DOMAIN checks : m <= i /\ Same(m, i) /\ Latest(i)
  BY DEF LimitInv
<1>3. i < n /\ m \in 1..Len(checks) /\ i \in 1..Len(checks) /\ n \in Nat
  BY <1>1, <1>2
<1>4. ASSUME NEW h \in (i + 1)..n, h # n PROVE ~ Same(h, m)' /\ ~ Same(h, i)'
  <2>1. h \in DOMAIN checks /\ h > i
    BY <1>1, <1>3, <1>4
  <2>2. ~ Same(h, i)
    BY <1>2, <2>1 DEF Latest
  <2> QED BY <1>1, <1>2, <2>1, <2>2 DEF Same
<1>5. \A h \in m..i : Same(h, m)' <=> Same(h, m)
  <2>1. \A h \in m..i : h \in DOMAIN checks
    BY <1>1, <1>3
  <2> QED BY <1>1, <2>1 DEF Same
<1>6. m..n = (m..i) \cup ((i + 1)..n) /\ i..n = {i} \cup ((i + 1)..n) /\ n \in (i + 1)..n
  BY <1>2, <1>3
<1>7. Same(n, m)' /\ Same(n, i)' /\ Same(i, i)'
  BY <1>1, <1>2 DEF Same
<1>8. Mine(m, n)' = Mine(m, i) \cup {n}
  <2>1. {h \in m..n : Same(h, m)'} = {h \in m..i : Same(h, m)} \cup {n}
    BY <1>4, <1>5, <1>6, <1>7
  <2> QED BY <2>1 DEF Mine
<1>9. Mine(i, n)' = {i, n}
  <2>1. {h \in i..n : Same(h, i)'} = {i, n}
    BY <1>4, <1>6, <1>7
  <2> QED BY <2>1 DEF Mine
<1> QED BY <1>2, <1>3, <1>8, <1>9 DEF FollowsLast

\* So one more was granted, or none.
LEMMA OneMore ==
    ASSUME LimitInv, NEW r \in CheckRec, checks' = Append(checks, r),
           NEW n, n = Len(checks) + 1, NEW m \in DOMAIN checks, NEW i \in DOMAIN checks,
           FollowsLast(m, i, n)
    PROVE  /\ Granted(m, i) \in Nat
           /\ Granted(m, n)' = Granted(m, i) + (IF r.wait = 0 THEN 1 ELSE 0)
<1> DEFINE G == {h \in Mine(m, i) : checks[h].wait = 0}
           H == {h \in Mine(m, i) \cup {n} : checks'[h].wait = 0}
<1>1. /\ checks \in Seq(CheckRec) /\ Len(checks) \in Nat /\ DOMAIN checks = 1..Len(checks)
      /\ \A j \in 1..Len(checks) : checks'[j] = checks[j]
      /\ checks'[n] = r
  BY History DEF LimitInv
<1>2. G \subseteq m..i /\ m \in Int /\ i \in Int /\ m..i \subseteq 1..Len(checks)
  BY <1>1 DEF Mine
<1>3. IsFiniteSet(G)
  BY <1>2, FS_Interval, FS_Subset
<1>4. H = IF r.wait = 0 THEN G \cup {n} ELSE G
  <2>1. \A h \in Mine(m, i) : checks'[h] = checks[h]
    BY <1>1, <1>2 DEF Mine
  <2> QED BY <1>1, <2>1
<1>5. n \notin G
  BY <1>1, <1>2
<1>6. Granted(m, i) = Cardinality(G)
  BY DEF Granted
<1>7. Granted(m, n)' = Cardinality(H)
  BY DEF Granted, FollowsLast
<1> HIDE DEF G, H
<1>8. Cardinality(G) \in Nat /\ Cardinality(G \cup {n}) = Cardinality(G) + 1
  BY <1>3, <1>5, FS_AddElement, FS_CardinalityType
<1> QED BY <1>4, <1>6, <1>7, <1>8

\* If nobody has come between to put the caller out, its last check is
\* remembered, and all before it were kept.
LEMMA KeptBefore ==
    ASSUME RateAssumption, LimitInv, NEW r \in CheckRec, checks' = Append(checks, r),
           NEW n, n = Len(checks) + 1, NEW m \in DOMAIN checks, NEW i \in DOMAIN checks,
           FollowsLast(m, i, n), Same(i, n)', Kept(m, n)'
    PROVE  Remembered(i) /\ Kept(m, i)
<1>1. /\ checks \in Seq(CheckRec) /\ Len(checks) \in Nat /\ DOMAIN checks = 1..Len(checks)
      /\ \A j \in 1..Len(checks) : checks'[j] = checks[j]
      /\ checks'[n] = r
  BY History DEF LimitInv
<1>2. /\ m <= i /\ i < n /\ Same(m, i) /\ Latest(i)
      /\ Mine(m, n)' = Mine(m, i) \cup {n} /\ Mine(i, n)' = {i, n}
  BY DEF FollowsLast
<1>3. i \in Mine(m, i)
  BY <1>1, <1>2 DEF Mine, Same
<1>4. \A g, h \in Mine(m, i) \cup {n} :
          (g < h /\ Mine(g, h)' = {g, h}) => Cardinality(Rivals(g, h)') < MaxKeys
  BY <1>2 DEF Kept
<1>5. Remembered(i)
  <2>1. Cardinality(Rivals(i, n)') < MaxKeys
    BY <1>2, <1>3, <1>4
  <2>2. Rivals(i, n)' = Rivals(i, Len(checks))
    <3>1. r.key = checks[i].key
      BY <1>1 DEF Same
    <3> QED BY <1>1, <3>1, RivalsGrow
  <2>3. ~ Forgotten(i)
    <3>1. PICK R : R = Rivals(i, Len(checks))
      OBVIOUS
    <3>2. ASSUME IsFiniteSet(R) PROVE Cardinality(R) \in Nat
      BY <3>2, FS_CardinalityType
    <3> QED BY <2>1, <2>2, <3>1, <3>2 DEF Forgotten, RateAssumption
  <2> QED BY <1>2, <2>3 DEF LimitInv
<1>6. ASSUME NEW g \in Mine(m, i), NEW h \in Mine(m, i), g < h, Mine(g, h) = {g, h}
      PROVE  Cardinality(Rivals(g, h)) < MaxKeys
  <2>1. g \in DOMAIN checks /\ h \in DOMAIN checks
    BY <1>1 DEF Mine
  <2>2. Mine(g, h)' = Mine(g, h) /\ Rivals(g, h)' = Rivals(g, h)
    BY <1>1, <2>1, Before
  <2> QED BY <1>4, <1>6, <2>2
<1> QED BY <1>5, <1>6 DEF Kept

\* What a check finds of a caller that is remembered.
LEMMA Refilled ==
    ASSUME RateAssumption, RateTypeOK, LimitInv, NEW l \in Limiters, NEW k \in Keys,
           NEW i \in DOMAIN checks, checks[i].limiter = l, checks[i].key = k, Remembered(i)
    PROVE  \E b \in Bucket(now) :
              /\ LeftBy(i, b) /\ b.tokens + (now - checks[i].at) * Rate \in Int
              /\ Tokens(l, k) = IF Full <= b.tokens + (now - checks[i].at) * Rate THEN Full
                                ELSE b.tokens + (now - checks[i].at) * Rate
<1>1. PICK p \in DOMAIN buckets[l] : LeftBy(i, buckets[l][p])
  BY DEF Remembered
<1>2. now \in Nat /\ BucketsOf(l)
  BY RateOf
<1>3. buckets[l][p].key = k /\ buckets[l][p].last = checks[i].at
  BY <1>1 DEF LeftBy
<1>4. Has(l, k)
  BY <1>1, <1>3 DEF Has
<1>5. Place(l, k) = p
  BY <1>1, <1>2, <1>3, <1>4, PlaceFacts DEF BucketsOf
<1>6. buckets[l][p] \in Bucket(now)
  BY <1>1, <1>2 DEF BucketsOf
<1>7. LET b == buckets[l][p]
          refilled == b.tokens + (now - b.last) * Rate
      IN  /\ refilled \in Int
          /\ Tokens(l, k) = IF Full <= refilled THEN Full ELSE refilled
  BY <1>2, <1>4, <1>5, TokensFacts
<1> QED BY <1>1, <1>3, <1>6, <1>7

\* The new check is within the limit, counting from any of its caller.
LEMMA NewestInLimit ==
    ASSUME RateAssumption, RateTypeOK, LimitInv, NEW l \in Limiters, NEW k \in Keys,
           Check(l, k), NEW n, n = Len(checks) + 1, NEW left, left = Left(l, k).tokens
    PROVE  InLimit(n, left)'
<1> DEFINE r == Asked(l, k)
<1>1. r \in CheckRec /\ checks' = Append(checks, r)
  BY CheckFacts
<1>2. /\ checks \in Seq(CheckRec) /\ Len(checks) \in Nat /\ DOMAIN checks = 1..Len(checks)
      /\ \A j \in 1..Len(checks) : checks'[j] = checks[j]
      /\ checks'[n] = r
  BY <1>1, History DEF LimitInv
<1>3. /\ now \in Nat /\ Full \in Nat /\ Full >= Unit /\ Unit \in Nat /\ Rate \in Nat /\ now' = now
      /\ Tokens(l, k) \in 0..Full /\ Wait(l, k) \in Nat
      /\ Wait(l, k) = 0 => Left(l, k).tokens = Tokens(l, k) - Unit
      /\ Wait(l, k) > 0 => Left(l, k).tokens = Tokens(l, k)
  BY RateOf, FullNat, TokensFacts, LeftFacts DEF RateAssumption, Check
<1>4. r.limiter = l /\ r.key = k /\ r.at = now /\ r.wait = Wait(l, k)
  BY DEF Asked
<1> HIDE DEF r
<1> SUFFICES ASSUME NEW m \in 1..n, Same(m, n)', Kept(m, n)'
             PROVE  Granted(m, n)' * Unit + left <= Full + (now - checks'[m].at) * Rate
  BY <1>2, <1>4 DEF InLimit
<1>5. CASE m = n
  <2>1. Granted(m, n)' = IF r.wait = 0 THEN 1 ELSE 0
    <3>1. n..n = {n} /\ Same(n, n)'
      BY <1>2 DEF Same
    <3>2. Mine(n, n)' = {n}
      BY <3>1 DEF Mine
    <3>3. {h \in {n} : checks'[h].wait = 0} = IF r.wait = 0 THEN {n} ELSE {}
      BY <1>2
    <3>4. Granted(n, n)' = Cardinality(IF r.wait = 0 THEN {n} ELSE {})
      BY <3>2, <3>3 DEF Granted
    <3> QED BY <1>5, <3>4, FS_EmptySet, FS_Singleton
  <2>2. (now - checks'[m].at) * Rate = 0
    BY <1>2, <1>3, <1>4, <1>5
  <2>3. CASE r.wait = 0
    <3>1. Granted(m, n)' * Unit = Unit
      BY <1>3, <2>1, <2>3
    <3> QED BY <1>3, <1>4, <2>2, <2>3, <3>1
  <2>4. CASE r.wait # 0
    <3>1. Granted(m, n)' * Unit = 0
      BY <1>3, <2>1, <2>4
    <3> QED BY <1>3, <1>4, <2>2, <2>4, <3>1
  <2> QED BY <2>3, <2>4
<1>6. CASE m # n
  <2>1. m \in DOMAIN checks
    BY <1>2, <1>6
  <2>2. PICK i \in DOMAIN checks : FollowsLast(m, i, n)
    BY <1>1, <2>1, FromLast
  <2>3. Same(m, i) /\ m <= i /\ checks[i].limiter = l /\ checks[i].key = k
    BY <1>2, <1>4, <2>1, <2>2 DEF FollowsLast, Same
  <2>4. Same(i, n)'
    BY <1>2, <1>4, <2>3 DEF Same
  <2>5. Remembered(i) /\ Kept(m, i)
    BY <1>1, <2>1, <2>2, <2>4, KeptBefore
  <2>6. PICK b \in Bucket(now) :
              /\ LeftBy(i, b) /\ b.tokens + (now - checks[i].at) * Rate \in Int
              /\ Tokens(l, k) = IF Full <= b.tokens + (now - checks[i].at) * Rate THEN Full
                                ELSE b.tokens + (now - checks[i].at) * Rate
    BY <2>3, <2>5, Refilled
  <2>7. Granted(m, i) * Unit + b.tokens <= Full + (checks[i].at - checks[m].at) * Rate
    <3>1. m \in 1..i
      BY <1>2, <2>1, <2>3
    <3> QED BY <2>3, <2>5, <2>6, <3>1 DEF LeftBy, InLimit
  <2>8. /\ Granted(m, i) \in Nat
        /\ Granted(m, n)' = Granted(m, i) + (IF r.wait = 0 THEN 1 ELSE 0)
    BY <1>1, <2>1, <2>2, OneMore
  <2>9. checks'[m].at = checks[m].at /\ checks[m].at \in Nat /\ checks[i].at \in Nat
    <3>1. checks[m] \in CheckRec /\ checks[i] \in CheckRec
      BY <1>2, <2>1, <2>2
    <3> QED BY <1>2, <2>1, <3>1 DEF CheckRec
  <2>10. b.tokens \in Nat
    BY <1>3, <2>6 DEF Bucket, Full
  <2> DEFINE g == Granted(m, i) am == checks[m].at ai == checks[i].at T == Tokens(l, k)
  <2>11. (now - am) * Rate = (ai - am) * Rate + (now - ai) * Rate
         /\ (ai - am) * Rate \in Int /\ (now - ai) * Rate \in Int
    <3>0. am \in Int /\ ai \in Int /\ now \in Int
      BY <1>3, <2>9
    <3> HIDE DEF am, ai
    <3>1. ai - am \in Int /\ now - ai \in Int /\ (ai - am) + (now - ai) = now - am
      BY <3>0
    <3>2. ((ai - am) + (now - ai)) * Rate = (ai - am) * Rate + (now - ai) * Rate
      BY <1>3, <3>1, Products
    <3> QED BY <1>3, <3>1, <3>2
  <2>12. (g + 1) * Unit = g * Unit + Unit /\ g * Unit \in Int
    <3> HIDE DEF g
    <3>1. g \in Int
      BY <2>8 DEF g
    <3> QED BY <1>3, <3>1
  <2>13. T <= b.tokens + (now - ai) * Rate
    BY <1>3, <2>6
  <2>14. T \in Int
    BY <1>3
  <2> HIDE DEF g, am, ai, T
  <2>15. g * Unit + T <= Full + (now - am) * Rate
    <3> DEFINE X == (ai - am) * Rate Y == (now - ai) * Rate Z == (now - am) * Rate G == g * Unit
    <3>1. G + b.tokens <= Full + X
      BY <2>7 DEF g, am, ai
    <3>2. Z = X + Y /\ X \in Int /\ Y \in Int /\ G \in Int /\ T <= b.tokens + Y
      BY <2>11, <2>12, <2>13
    <3> HIDE DEF X, Y, Z, G
    <3>3. G + T <= Full + Z
      BY <1>3, <2>10, <2>14, <3>1, <3>2
    <3> QED BY <3>3 DEF Z, G
  <2>16. CASE r.wait = 0
    <3>1. Granted(m, n)' * Unit = g * Unit + Unit /\ left = T - Unit
      BY <1>3, <1>4, <2>8, <2>12, <2>16 DEF g, T
    <3>2. (now - am) * Rate \in Int
      BY <2>11
    <3> QED BY <1>3, <2>9, <2>12, <2>14, <2>15, <3>1, <3>2 DEF am
  <2>17. CASE r.wait # 0
    <3>1. Granted(m, n)' * Unit = g * Unit /\ left = T
      BY <1>3, <1>4, <2>8, <2>17 DEF g, T
    <3> QED BY <2>9, <2>15, <3>1 DEF am
  <2> QED BY <2>16, <2>17
<1> QED BY <1>5, <1>6

\* Who waited as long as it was told is granted the next.
LEMMA WaitedEnough ==
    ASSUME RateAssumption, RateTypeOK, LimitInv, NEW l \in Limiters, NEW k \in Keys,
           Check(l, k), NEW n, n = Len(checks) + 1, NEW m \in DOMAIN checks,
           Same(m, n)', Mine(m, n)' = {m, n}, checks[m].wait > 0,
           now >= checks[m].at + checks[m].wait
    PROVE  Wait(l, k) = 0
<1> DEFINE r == Asked(l, k)
<1>1. r \in CheckRec /\ checks' = Append(checks, r)
  BY CheckFacts
<1>2. /\ checks \in Seq(CheckRec) /\ Len(checks) \in Nat /\ DOMAIN checks = 1..Len(checks)
      /\ \A j \in 1..Len(checks) : checks'[j] = checks[j]
      /\ checks'[n] = r
  BY <1>1, History DEF LimitInv
<1>3. r.limiter = l /\ r.key = k
  BY DEF Asked
<1> HIDE DEF r
<1>4. checks[m].limiter = l /\ checks[m].key = k
  BY <1>2, <1>3 DEF Same
<1>5. Latest(m)
  <2> SUFFICES ASSUME NEW j \in DOMAIN checks, j > m, Same(j, m) PROVE FALSE
    BY DEF Latest
  <2>1. j \in m..n /\ j # m /\ j # n
    BY <1>2
  <2>2. Same(j, m)'
    BY <1>2 DEF Same
  <2>3. j \in Mine(m, n)'
    BY <2>1, <2>2 DEF Mine
  <2> QED BY <2>1, <2>3
<1>6. /\ now \in Nat /\ BucketsOf(l) /\ Full \in Nat /\ Full >= Unit
      /\ Unit \in Nat /\ Rate \in Nat /\ Tokens(l, k) \in Int
  BY RateOf, FullNat, TokensFacts DEF RateAssumption
<1>7. CASE Forgotten(m)
  <2>1. Tokens(l, k) = Full
    BY <1>4, <1>6, <1>7, TokensFacts DEF Forgotten
  <2> QED BY <1>6, <2>1 DEF Wait
<1>8. CASE Remembered(m)
  <2>1. PICK b \in Bucket(now) :
              /\ LeftBy(m, b) /\ b.tokens + (now - checks[m].at) * Rate \in Int
              /\ Tokens(l, k) = IF Full <= b.tokens + (now - checks[m].at) * Rate THEN Full
                                ELSE b.tokens + (now - checks[m].at) * Rate
    BY <1>4, <1>8, Refilled
  <2>2. PICK w : w = RetryAfter(b.tokens)
    OBVIOUS
  <2>3. b.tokens \in Int /\ checks[m].at \in Int /\ checks[m].wait = w
    <3>1. checks[m] \in CheckRec
      BY <1>2
    <3>2. checks[m].at \in Nat
      BY <3>1 DEF CheckRec
    <3>3. b.tokens \in 0..Full
      BY <2>1 DEF Bucket, Full
    <3> QED BY <1>6, <2>1, <2>2, <3>2, <3>3 DEF LeftBy
  <2>4. w \in Nat /\ b.tokens + w * Rate >= Unit
    BY <2>2, <2>3, EnoughAfter
  <2> DEFINE d == now - checks[m].at
  <2>5. d \in Int /\ w <= d
    BY <1>6, <2>3, <2>4
  <2> HIDE DEF d
  <2>6. w * Rate <= d * Rate /\ w * Rate \in Int /\ d * Rate \in Int
    BY <1>6, <2>4, <2>5, Products
  <2>7. b.tokens + d * Rate >= Unit
    BY <1>6, <2>3, <2>4, <2>6
  <2>8. Tokens(l, k) >= Unit
    <3>1. Tokens(l, k) = IF Full <= b.tokens + d * Rate THEN Full ELSE b.tokens + d * Rate
      BY <2>1 DEF d
    <3> QED BY <1>6, <2>7, <3>1
  <2> QED BY <2>8 DEF Wait
<1> QED BY <1>5, <1>7, <1>8 DEF LimitInv

\* A check leaves the newest bucket.
LEMMA NewestStays ==
    ASSUME RateAssumption, RateTypeOK, LimitInv, NEW l \in Limiters, NEW k \in Keys,
           Check(l, k), NEW n, n = Len(checks) + 1
    PROVE  Remembered(n)'
<1> DEFINE r == Asked(l, k) t == Taken(l, k)
<1>1. r \in CheckRec /\ checks' = Append(checks, r) /\ Used(t, l, k) /\ buckets'[l] = t
  BY CheckFacts
<1>2. Len(checks') = n /\ checks'[n] = r /\ n \in Nat
  BY <1>1, History DEF LimitInv
<1>3. r.limiter = l /\ r.key = k /\ r.at = now /\ r.wait = Wait(l, k)
  BY DEF Asked
<1> HIDE DEF r, t
<1>4. PICK b : b = Left(l, k)
  OBVIOUS
<1>5. /\ b.key = k /\ b.last = now
      /\ Wait(l, k) > 0 => b.tokens < Unit /\ Wait(l, k) = RetryAfter(b.tokens)
  BY <1>4, RateOf, LeftFacts
<1>6. InLimit(n, b.tokens)'
  <2>1. PICK left : left = b.tokens
    OBVIOUS
  <2>2. InLimit(n, left)'
    BY <1>4, <2>1, NewestInLimit
  <2> QED BY <2>1, <2>2
<1>7. LeftBy(n, b)'
  BY <1>2, <1>3, <1>5, <1>6 DEF LeftBy
<1>8. PICK p : p = Len(t)
  OBVIOUS
<1>9. p \in DOMAIN t /\ t[p] = b
  BY <1>1, <1>4, <1>8 DEF Used
<1>10. Newer(t, p) = {}
  BY <1>1, <1>8 DEF Newer, Used
<1>11. Rivals(n, n)' = {}
  <2>1. n..n = {n}
    BY <1>2
  <2>2. {checks'[i].key : i \in {h \in n..n : checks'[h].limiter = checks'[n].limiter}}
        = {checks'[n].key}
    BY <2>1
  <2> QED BY <2>2 DEF Rivals
<1>12. LeftBy(n, buckets[l][p])'
  BY <1>1, <1>7, <1>9
<1>13. Newer(buckets[l], p)' = Rivals(n, Len(checks))'
  BY <1>1, <1>2, <1>10, <1>11
<1> QED BY <1>1, <1>2, <1>3, <1>9, <1>12, <1>13 DEF Remembered

\* So a check keeps the limit ...
LEMMA CheckLimit ==
    ASSUME RateAssumption, RateTypeOK, LimitInv, NEW l \in Limiters, NEW k \in Keys, Check(l, k)
    PROVE  LimitInv'
<1> DEFINE r == Asked(l, k)
<1>0. PICK n : n = Len(checks) + 1
  OBVIOUS
<1>1. r \in CheckRec /\ checks' = Append(checks, r)
  BY CheckFacts
<1>2. /\ checks \in Seq(CheckRec) /\ Len(checks) \in Nat /\ DOMAIN checks = 1..Len(checks)
      /\ \A j \in 1..Len(checks) : checks'[j] = checks[j]
      /\ checks'[n] = r /\ n \in Nat
      /\ checks' \in Seq(CheckRec) /\ DOMAIN checks' = 1..n
  BY <1>0, <1>1, History DEF LimitInv
<1>3. r.wait = Wait(l, k) /\ r.at = now
  BY DEF Asked
<1> HIDE DEF r
<1>4. \A i \in DOMAIN checks' : i \in DOMAIN checks \/ i = n
  BY <1>0, <1>2
<1>5. ASSUME NEW m \in DOMAIN checks'
      PROVE  \E i \in DOMAIN checks' : m <= i /\ Same(m, i)' /\ Latest(i)'
  <2>1. CASE Same(m, n)'
    <3>1. n \in DOMAIN checks' /\ m <= n
      BY <1>0, <1>2
    <3>2. Latest(n)'
      BY <1>2 DEF Latest
    <3> QED BY <2>1, <3>1, <3>2
  <2>2. CASE ~ Same(m, n)'
    <3>1. m \in DOMAIN checks
      BY <1>4, <2>2 DEF Same
    <3>2. PICK i \in DOMAIN checks : m <= i /\ Same(m, i) /\ Latest(i)
      BY <3>1 DEF LimitInv
    <3>3. Same(m, i)' /\ i \in DOMAIN checks'
      BY <1>0, <1>2, <3>1, <3>2 DEF Same
    <3>4. ASSUME NEW j \in DOMAIN checks', j > i PROVE ~ Same(j, i)'
      <4>1. CASE j = n
        BY <2>2, <3>3, <4>1 DEF Same
      <4>2. CASE j # n
        <5>1. j \in DOMAIN checks
          BY <1>4, <4>2
        <5>2. ~ Same(j, i)
          BY <3>2, <3>4, <5>1 DEF Latest
        <5> QED BY <1>2, <3>2, <5>1, <5>2 DEF Same
      <4> QED BY <4>1, <4>2
    <3> QED BY <3>2, <3>3, <3>4 DEF Latest
  <2> QED BY <2>1, <2>2
<1>6. ASSUME NEW i \in DOMAIN checks', Latest(i)' PROVE Remembered(i)' \/ Forgotten(i)'
  <2>1. CASE i = n
    <3>1. Remembered(n)'
      BY <1>0, NewestStays
    <3> QED BY <2>1, <3>1
  <2>2. CASE i # n
    <3>1. i \in DOMAIN checks
      BY <1>4, <2>2
    <3> QED BY <1>6, <3>1, OthersStay
  <2> QED BY <2>1, <2>2
<1>7. ASSUME NEW m \in DOMAIN checks', m < n, Same(m, n)', Kept(m, n)'
      PROVE  Granted(m, n)' * Unit <= Full + (checks'[n].at - checks'[m].at) * Rate
  <2>1. PICK left : left = Left(l, k).tokens
    OBVIOUS
  <2>2. InLimit(n, left)'
    BY <1>0, <2>1, NewestInLimit
  <2>3. Granted(m, n)' * Unit + left <= Full + (checks'[n].at - checks'[m].at) * Rate
    BY <1>2, <1>7, <2>2 DEF InLimit
  <2>4. left \in Nat
    <3>1. Left(l, k) \in Bucket(now) /\ Full \in Nat
      BY RateOf, LeftFacts, FullNat
    <3> QED BY <2>1, <3>1 DEF Bucket, Full
  <2>5. Granted(m, n)' * Unit \in Int
    <3>1. m \in DOMAIN checks
      BY <1>2, <1>4, <1>7
    <3>2. PICK i \in DOMAIN checks : FollowsLast(m, i, n)
      BY <1>0, <1>1, <1>7, <3>1, FromLast
    <3>3. Granted(m, n)' \in Int
      BY <1>0, <1>1, <3>1, <3>2, OneMore
    <3> QED BY <3>3 DEF RateAssumption
  <2>6. Full + (checks'[n].at - checks'[m].at) * Rate \in Int
    <3>1. checks'[m] \in CheckRec /\ checks'[n] \in CheckRec
      BY <1>2
    <3>2. checks'[m].at \in Int /\ checks'[n].at \in Int
      BY <3>1 DEF CheckRec
    <3> QED BY <3>2, FullNat DEF RateAssumption
  <2> QED BY <2>3, <2>4, <2>5, <2>6
<1>8. ASSUME NEW m \in DOMAIN checks', m < n, Same(m, n)', Mine(m, n)' = {m, n},
             checks'[m].wait > 0, checks'[n].at >= checks'[m].at + checks'[m].wait
      PROVE  checks'[n].wait = 0
  <2>1. m \in DOMAIN checks
    BY <1>2, <1>4, <1>8
  <2>2. Wait(l, k) = 0
    BY <1>0, <1>2, <1>3, <1>8, <2>1, WaitedEnough
  <2> QED BY <1>2, <1>3, <2>2
<1>9. LimitIsKept'
  <2> SUFFICES ASSUME NEW m \in DOMAIN checks', NEW o \in DOMAIN checks', m < o, Same(m, o)'
               PROVE  /\ Kept(m, o)' =>
                           Granted(m, o)' * Unit
                             <= Burst * Unit + (checks'[o].at - checks'[m].at) * Rate
                      /\ (Mine(m, o)' = {m, o} /\ checks'[m].wait > 0
                            /\ checks'[o].at >= checks'[m].at + checks'[m].wait)
                         => checks'[o].wait = 0
    BY DEF LimitIsKept, Granted
  <2>1. CASE o = n
    BY <1>7, <1>8, <2>1 DEF Full
  <2>2. CASE o # n
    <3>1. o \in DOMAIN checks /\ m \in DOMAIN checks
      BY <1>2, <1>4, <2>2
    <3>2. /\ Same(m, o)' <=> Same(m, o)
          /\ Mine(m, o)' = Mine(m, o)
          /\ Kept(m, o)' <=> Kept(m, o)
          /\ Granted(m, o)' = Granted(m, o)
          /\ checks'[m] = checks[m] /\ checks'[o] = checks[o]
      BY <1>1, <1>2, <3>1, Before
    <3>3. /\ Kept(m, o) =>
               Granted(m, o) * Unit <= Burst * Unit + (checks[o].at - checks[m].at) * Rate
          /\ (Mine(m, o) = {m, o} /\ checks[m].wait > 0
                /\ checks[o].at >= checks[m].at + checks[m].wait)
             => checks[o].wait = 0
      BY <3>1, <3>2 DEF LimitInv, LimitIsKept, Granted
    <3> QED BY <3>2, <3>3
  <2> QED BY <2>1, <2>2
<1> QED BY <1>2, <1>5, <1>6, <1>9 DEF LimitInv

\* ... and what is not a check does not touch it.
LEMMA LimitFrame ==
    ASSUME LimitInv, UNCHANGED <<buckets, checks>>
    PROVE  LimitInv'
<1>1. buckets' = buckets /\ checks' = checks
  OBVIOUS
<1>2. \A m, n : Same(m, n)' = Same(m, n) /\ Mine(m, n)' = Mine(m, n)
               /\ Rivals(m, n)' = Rivals(m, n)
  BY <1>1 DEF Same, Mine, Rivals
<1>3. \A m, n : Kept(m, n)' = Kept(m, n) /\ Granted(m, n)' = Granted(m, n)
  BY <1>1, <1>2 DEF Kept, Granted
<1>4. LimitIsKept'
  BY <1>1, <1>2, <1>3 DEF LimitInv, LimitIsKept, Granted
<1>5. \A i : Latest(i)' = Latest(i)
  BY <1>1, <1>2 DEF Latest
<1>6. \A i, b : LeftBy(i, b)' = LeftBy(i, b)
  BY <1>1, <1>2, <1>3 DEF LeftBy, InLimit
<1>7. ASSUME NEW i \in DOMAIN checks, Remembered(i) \/ Forgotten(i)
      PROVE  Remembered(i)' \/ Forgotten(i)'
  <2>1. CASE Remembered(i)
    <3>1. PICK p \in DOMAIN buckets[checks[i].limiter] :
            /\ LeftBy(i, buckets[checks[i].limiter][p])
            /\ Newer(buckets[checks[i].limiter], p) = Rivals(i, Len(checks))
      BY <2>1 DEF Remembered
    <3>2. PICK b : b = buckets[checks[i].limiter][p]
      OBVIOUS
    <3>3. LeftBy(i, b)'
      BY <1>6, <3>1, <3>2
    <3>4. LeftBy(i, buckets[checks[i].limiter][p])'
      BY <1>1, <3>2, <3>3
    <3>5. Newer(buckets[checks[i].limiter], p)' = Rivals(i, Len(checks))'
      BY <1>1, <1>2, <3>1
    <3> QED BY <1>1, <3>1, <3>4, <3>5 DEF Remembered
  <2>2. CASE Forgotten(i)
    BY <1>1, <1>2, <2>2 DEF Forgotten, Has
  <2> QED BY <1>7, <2>1, <2>2
<1> QED BY <1>1, <1>2, <1>4, <1>5, <1>7 DEF LimitInv

LEMMA LimitStep ==
    ASSUME RateAssumption, RateTypeOK, LimitInv, [Next]_vars
    PROVE  LimitInv'
<1>1. ASSUME NEW c \in Limiters, NEW k \in Keys, Issue(c, k) PROVE LimitInv'
  BY <1>1, CheckLimit DEF Issue
<1>2. (~ \E c \in Limiters : \E k \in Keys : Issue(c, k)) => UNCHANGED <<buckets, checks>>
  BY DEF Next, vars, rateVars, Tick, Verify, ConsumeHere, Insert, Prune, Raises, Acquire
<1> QED BY <1>1, <1>2, LimitFrame

\* What the proof knows of the last checks holds in every state.
LEMMA LimitAlways ==
    ASSUME RateAssumption, TicketsAssumption
    PROVE  Spec => []LimitInv
<1>1. Init => LimitInv
  <2> SUFFICES ASSUME Init PROVE LimitInv
    OBVIOUS
  <2>1. checks = <<>>
    BY DEF Init, RateInit
  <2>2. checks \in Seq(CheckRec) /\ DOMAIN checks = {}
    BY <2>1
  <2> QED BY <2>2 DEF LimitInv, LimitIsKept
<1>2. TicketsInv /\ LimitInv /\ [Next]_vars => LimitInv'
  BY LimitStep DEF TicketsInv
<1> QED BY <1>1, <1>2, TicketsAlways, PTL DEF Spec

\* A caller is granted a burst and what has flowed in since, and one that
\* waits as long as it was told is granted the next, for any rate, any burst,
\* any bound of keys and whatever the other callers ask.
THEOREM LimitsAreKept ==
    ASSUME RateAssumption, TicketsAssumption
    PROVE  Spec => []LimitIsKept
<1>1. LimitInv => LimitIsKept
  BY DEF LimitInv
<1> QED BY <1>1, LimitAlways, PTL

\* The limit without the exception for callers that were evicted.
LimitIsStrict ==
    \A m, n \in DOMAIN checks : m < n /\ Same(m, n) =>
        Cardinality({i \in Mine(m, n) : checks[i].wait = 0}) * Unit
           <= Burst * Unit + (checks[n].at - checks[m].at) * Rate

\* Where there are no more callers than a limiter may have buckets, the limit
\* has no exception: nobody gets more than a burst and what flowed in, whatever
\* the others ask.  This is so of the webhooks, whose keys are the providers,
\* and of the limiter that each WebSocket has for its one connection.
THEOREM FewCallersAreLimited ==
    ASSUME RateAssumption, TicketsAssumption,
           IsFiniteSet(Keys), Cardinality(Keys) <= MaxKeys
    PROVE  Spec => []LimitIsStrict
<1>1. ASSUME LimitInv PROVE LimitIsStrict
  <2>1. checks \in Seq(CheckRec) /\ LimitIsKept
    BY <1>1 DEF LimitInv
  <2>2. \A i \in DOMAIN checks : checks[i].key \in Keys
    <3> SUFFICES ASSUME NEW i \in DOMAIN checks PROVE checks[i].key \in Keys
      OBVIOUS
    <3>1. checks[i] \in CheckRec
      BY <2>1
    <3> QED BY <3>1 DEF CheckRec
  <2>3. \A m \in DOMAIN checks, n \in DOMAIN checks : m..n \subseteq DOMAIN checks
    BY <2>1
  <2>4. ASSUME NEW i \in DOMAIN checks, NEW j \in DOMAIN checks
        PROVE  Cardinality(Rivals(i, j)) < MaxKeys
    <3>1. PICK k : k \in Keys /\ k = checks[i].key
      BY <2>2
    <3>2. Rivals(i, j) \subseteq Keys \ {k}
      BY <2>2, <2>3, <3>1 DEF Rivals
    <3>3. IsFiniteSet(Keys \ {k}) /\ Cardinality(Keys \ {k}) = Cardinality(Keys) - 1
      <4>1. IsFiniteSet(Keys)
        OBVIOUS
      <4> QED BY <3>1, <4>1, FS_RemoveElement
    <3>4. /\ Cardinality(Rivals(i, j)) \in Nat /\ Cardinality(Keys) \in Nat
          /\ Cardinality(Rivals(i, j)) <= Cardinality(Keys \ {k})
      <4>1. /\ IsFiniteSet(Rivals(i, j))
            /\ Cardinality(Rivals(i, j)) <= Cardinality(Keys \ {k})
        BY <3>2, <3>3, FS_Subset
      <4> QED BY <4>1, FS_CardinalityType
    <3>5. MaxKeys \in Nat
      BY DEF RateAssumption
    <3> DEFINE r == Cardinality(Rivals(i, j)) q == Cardinality(Keys \ {k})
               n == Cardinality(Keys)
    <3>6. /\ r \in Nat /\ n \in Nat /\ q = n - 1 /\ r <= q /\ n <= MaxKeys
      BY <3>3, <3>4
    <3> HIDE DEF r, q, n
    <3>7. r < MaxKeys
      BY <3>5, <3>6
    <3> QED BY <3>7 DEF r
  <2>5. ASSUME NEW m \in DOMAIN checks, NEW n \in DOMAIN checks PROVE Kept(m, n)
    <3>1. Mine(m, n) \subseteq DOMAIN checks
      BY <2>3 DEF Mine
    <3> QED BY <2>4, <3>1 DEF Kept
  <2> QED BY <2>1, <2>5 DEF LimitIsKept, LimitIsStrict
<1> QED BY <1>1, LimitAlways, PTL

=============================================================================
