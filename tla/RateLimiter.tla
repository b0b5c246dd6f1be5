---------------------------- MODULE RateLimiter ----------------------------
(***************************************************************************)
(* TokenBucketLimiter (src/api/ratelimit.py): each limiter has a bucket of *)
(* tokens for every key it has seen lately, and drops the key that was     *)
(* used least recently when it has too many.  Tokens and time are integers *)
(* here: a token is Unit units, and a bucket gets Rate of them per tick.   *)
(***************************************************************************)
EXTENDS Integers, Sequences, SequencesExt, FiniteSets, FiniteSetsExt

CONSTANTS
    Limiters,   \* one per container, or one per connection
    Keys,       \* users, providers
    Burst, Rate, Unit,
    MaxKeys

ASSUME RateAssumption ==
    /\ Burst \in Nat \ {0} /\ MaxKeys \in Nat \ {0}
    /\ Rate \in Nat \ {0} /\ Unit \in Nat \ {0}

VARIABLES
    now,        \* time
    buckets,    \* of each limiter, the least recently used first
    checks      \* history: what was asked, and the seconds to wait (0: granted)

rateVars == <<now, buckets, checks>>

RateInit ==
    /\ now = 0
    /\ buckets = [l \in Limiters |-> <<>>]
    /\ checks = <<>>

\* Where the bucket of a key stands, if it has one, and what pop() leaves.
Has(l, k) == \E n \in DOMAIN buckets[l] : buckets[l][n].key = k
Place(l, k) == CHOOSE n \in DOMAIN buckets[l] : buckets[l][n].key = k
Others(l, k) == IF Has(l, k) THEN RemoveAt(buckets[l], Place(l, k)) ELSE buckets[l]

\* The units in the bucket of a key, which is full for a key that is new.
Tokens(l, k) ==
    IF Has(l, k)
    THEN LET b == buckets[l][Place(l, k)]
         IN  Min({Burst * Unit, b.tokens + (now - b.last) * Rate})
    ELSE Burst * Unit

\* retry_after_header: whole seconds, at least one.
RetryAfter(tokens) == Max({1, (Unit - tokens + Rate - 1) \div Rate})

Left(l, k) == [key |-> k, last |-> now,
               tokens |-> IF Tokens(l, k) >= Unit THEN Tokens(l, k) - Unit
                          ELSE Tokens(l, k)]

Trim(bs) == SubSeq(bs, 1 + Max({0, Len(bs) - MaxKeys}), Len(bs))

\* Mutant: a key that is used again keeps its place in the queue.
FirstInFirstOut(l, k) ==
    Trim(IF Has(l, k) THEN [buckets[l] EXCEPT ![Place(l, k)] = Left(l, k)]
         ELSE Append(buckets[l], Left(l, k)))

\* Mutant: no key is dropped.
Untrimmed(l, k) == Append(Others(l, k), Left(l, k))

Taken(l, k) == Trim(Append(Others(l, k), Left(l, k)))

Wait(l, k) == IF Tokens(l, k) >= Unit THEN 0 ELSE RetryAfter(Tokens(l, k))

Check(l, k) ==
    /\ buckets' = [buckets EXCEPT ![l] = Taken(l, k)]
    /\ checks' = Append(checks, [limiter |-> l, key |-> k, at |-> now, wait |-> Wait(l, k)])
    /\ UNCHANGED now

-----------------------------------------------------------------------------
(* Properties *)

RateTypeOK ==
    /\ now \in Nat
    /\ buckets \in [Limiters -> Seq([key : Keys, last : 0..now, tokens : 0..(Burst * Unit)])]
    /\ \A l \in Limiters :
          /\ Len(buckets[l]) <= MaxKeys
          /\ \A m, n \in DOMAIN buckets[l] : buckets[l][m].key = buckets[l][n].key => m = n

Same(m, n) == checks[m].limiter = checks[n].limiter /\ checks[m].key = checks[n].key

\* The checks of one caller from the m-th to the n-th.
Mine(m, n) == {i \in m..n : Same(i, m)}

\* The other callers its limiter has seen meanwhile.
Rivals(m, n) ==
    {checks[i].key : i \in {h \in m..n : checks[h].limiter = checks[m].limiter}} \ {checks[m].key}

\* Between any two of its checks there were too few others to evict it.
Kept(m, n) ==
    \A i, j \in Mine(m, n) :
        i < j /\ Mine(i, j) = {i, j} => Cardinality(Rivals(i, j)) < MaxKeys

\* A caller is granted a burst and what has flowed in since, never more, as
\* long as MaxKeys others do not come between two of its requests; whatever
\* others do, a caller that waits as long as it was told is granted the next.
LimitIsKept ==
    \A m, n \in DOMAIN checks : m < n /\ Same(m, n) =>
        /\ Kept(m, n) =>
              Cardinality({i \in Mine(m, n) : checks[i].wait = 0}) * Unit
                 <= Burst * Unit + (checks[n].at - checks[m].at) * Rate
        /\ (Mine(m, n) = {m, n} /\ checks[m].wait > 0
              /\ checks[n].at >= checks[m].at + checks[m].wait)
           => checks[n].wait = 0

=============================================================================
