------------------------- MODULE RateLimiterProofs -------------------------
(***************************************************************************)
(* The limiter's promises for any number of calls, keys, rates and threads *)
(* arbitrarily late: one limiter, and a bounded number of calls per key in *)
(* every window of time.                                                   *)
(***************************************************************************)
EXTENDS RateLimiter, TLAPS, SequenceTheorems

\* At most one limiter is ever made, and it is the one _singleton names.
AtMostOneMade == singleton \in {0, 1} /\ Len(limiters) = singleton

\* Who has a limiter has that one, and who is at its bucket has found it.
Holding ==
    \A c \in Calls :
        /\ mine[c] \in {0, singleton}
        /\ pc[c] \in {"bucket", "acquire"} => singleton = 1 /\ mine[c] = 1
        /\ pc[c] = "acquire" => limiters[1][Key(c)].rpm >= 1

\* What a bucket holds and has given out since its i-th grant fits into one
\* minute's worth and what accrued since that grant.
Accounted(b, g) ==
    /\ \A i \in 1 .. Len(g) :
         b.tokens + (Len(g) - i + 1) * Minute <= b.rpm * (Minute + b.refilled - g[i])
    /\ \A i, j \in 1 .. Len(g) :
         i <= j => (j - i + 1) * Minute <= b.rpm * (Minute + g[j] - g[i])

\* Nothing has been let through where there is no bucket.
Accounts ==
    \A k \in Keys :
        /\ singleton = 0 => grants[k] = <<>>
        /\ singleton = 1 =>
             /\ limiters[1][k].rpm = 0 => limiters[1][k] = NoBucket /\ grants[k] = <<>>
             /\ Accounted(limiters[1][k], grants[k])

IInv == TypeOK /\ AtMostOneMade /\ Holding /\ Accounts

-----------------------------------------------------------------------------
(* Arithmetic of a bucket.                                                 *)

LEMMA Accrual ==
    ASSUME NEW rpm \in Nat, NEW m \in Nat, NEW had \in Nat, NEW has \in Int,
           NEW then \in Nat, NEW now \in Nat, NEW at \in Nat, NEW n \in Int,
           had + n * m <= rpm * (m + then - at),
           has <= had + (now - then) * rpm
    PROVE  has + n * m <= rpm * (m + now - at)
<1>1. rpm * (m + now - at) = rpm * (m + then - at) + (now - then) * rpm
  OBVIOUS
<1> QED
  BY <1>1

LEMMA RefillBounds ==
    ASSUME NEW b \in BucketType, b.refilled <= clock, clock \in Nat,
           b.tokens <= Capacity(b)
    PROVE  /\ Refill(b) \in BucketType
           /\ Refill(b).rpm = b.rpm /\ Refill(b).refilled = clock
           /\ Refill(b).tokens <= b.tokens + (clock - b.refilled) * b.rpm
           /\ Refill(b).tokens <= b.rpm * Minute
<1>1. b.rpm \in Nat /\ b.tokens \in Nat /\ b.refilled \in Nat
  BY DEF BucketType
<1>2. Accrued(b) \in Nat /\ Capacity(b) \in Nat
  BY <1>1, RatesAssumption DEF Accrued, Capacity
<1>3. /\ AtMost(b.tokens + Accrued(b), Capacity(b)) \in Nat
      /\ AtMost(b.tokens + Accrued(b), Capacity(b)) <= b.tokens + Accrued(b)
      /\ AtMost(b.tokens + Accrued(b), Capacity(b)) <= Capacity(b)
  BY <1>1, <1>2 DEF AtMost
<1>4. /\ Refill(b) \in BucketType
      /\ Refill(b).rpm = b.rpm /\ Refill(b).refilled = clock
      /\ Refill(b).tokens = AtMost(b.tokens + Accrued(b), Capacity(b))
  BY <1>1, <1>3 DEF Refill, Holds, BucketType
<1> QED
  BY <1>3, <1>4 DEF Accrued, Capacity

LEMMA RpmPositive == ASSUME NEW hint \in Int PROVE Rpm(hint) \in Nat /\ Rpm(hint) >= 1
  BY RatesAssumption DEF Rpm, AtLeast

LEMMA NewBucketType ==
    ASSUME NEW hint \in Int, clock \in Nat
    PROVE  /\ NewBucket(hint) \in BucketType /\ NewBucket(hint).rpm >= 1
           /\ NewBucket(hint).tokens <= Capacity(NewBucket(hint))
           /\ NewBucket(hint).refilled <= clock
<1>1. Rpm(hint) \in Nat /\ Rpm(hint) >= 1
  BY RpmPositive
<1>2. Rpm(hint) * Minute \in Nat
  BY <1>1, RatesAssumption
<1> QED
  BY <1>1, <1>2 DEF NewBucket, BucketType, Capacity

\* The first half of an account, at the time of a refill.
LEMMA AccruedSince ==
    ASSUME NEW rpm \in Nat, NEW had \in Nat, NEW has \in Nat, NEW then \in Nat,
           NEW now \in Nat, NEW g \in Seq(Nat), has <= had + (now - then) * rpm,
           \A i \in 1 .. Len(g) :
             had + (Len(g) - i + 1) * Minute <= rpm * (Minute + then - g[i])
    PROVE  \A i \in 1 .. Len(g) :
             has + (Len(g) - i + 1) * Minute <= rpm * (Minute + now - g[i])
<1> TAKE i \in 1 .. Len(g)
<1> DEFINE q == Len(g) - i + 1
           at == g[i]
<1>1. q \in Int /\ at \in Nat /\ Minute \in Nat
  BY RatesAssumption
<1>2. had + q * Minute <= rpm * (Minute + then - at)
  OBVIOUS
<1> HIDE DEF q, at
<1>3. has + q * Minute <= rpm * (Minute + now - at)
  BY <1>1, <1>2, Accrual
<1> QED
  BY <1>3 DEF q, at

\* An account after one more call is let through.
LEMMA AccountGrows ==
    ASSUME NEW rpm \in Nat, NEW has \in Nat, NEW now \in Nat, NEW g \in Seq(Nat),
           Minute <= has, has <= rpm * Minute,
           \A i \in 1 .. Len(g) :
             has + (Len(g) - i + 1) * Minute <= rpm * (Minute + now - g[i])
    PROVE  LET h == Append(g, now) IN
           \A i \in 1 .. Len(h) :
             has - Minute + (Len(h) - i + 1) * Minute <= rpm * (Minute + now - h[i])
<1> DEFINE h == Append(g, now)
<1> SUFFICES ASSUME NEW i \in 1 .. Len(h)
             PROVE  has - Minute + (Len(h) - i + 1) * Minute
                      <= rpm * (Minute + now - h[i])
  OBVIOUS
<1>1. Minute \in Nat /\ Len(h) = Len(g) + 1 /\ Len(g) \in Nat
  BY RatesAssumption
<1>2. CASE i \in 1 .. Len(g)
  <2> DEFINE q == Len(g) - i + 1
             at == rpm * (Minute + now - g[i])
  <2>1. q \in Int /\ at \in Int /\ has + q * Minute <= at
    BY <1>1, <1>2
  <2>2. Len(h) - i + 1 = q + 1 /\ rpm * (Minute + now - h[i]) = at
    BY <1>1, <1>2
  <2> HIDE DEF q, at, h
  <2>3. has - Minute + (q + 1) * Minute = has + q * Minute
    BY <1>1, <2>1
  <2> QED
    BY <2>1, <2>2, <2>3
<1>3. CASE i = Len(g) + 1
  <2>1. Len(h) - i + 1 = 1 /\ h[i] = now
    BY <1>1, <1>3
  <2>2. has - Minute + 1 * Minute = has /\ Minute + now - now = Minute
    BY <1>1
  <2> QED
    BY <2>1, <2>2
<1> QED
  BY <1>1, <1>2, <1>3

\* Letting a call through keeps the account, and so does sending it to sleep.
LEMMA GrantAccounted ==
    ASSUME NEW b \in BucketType, NEW g \in Seq(Nat), Accounted(b, g),
           b.refilled <= clock, clock \in Nat, b.tokens <= Capacity(b),
           Refill(b).tokens >= Minute
    PROVE  Accounted(Spend(Refill(b)), Append(g, clock))
<1> DEFINE has == Refill(b).tokens
           h == Append(g, clock)
           rest == Spend(Refill(b))
<1>1. /\ has <= b.tokens + (clock - b.refilled) * b.rpm /\ has <= b.rpm * Minute
      /\ has \in Nat /\ b.rpm \in Nat /\ b.tokens \in Nat /\ b.refilled \in Nat
      /\ Minute \in Nat /\ Minute <= has
  BY RefillBounds, RatesAssumption DEF BucketType
<1>2. rest.rpm = b.rpm /\ rest.refilled = clock /\ rest.tokens = has - Minute
  BY RefillBounds DEF Spend, Holds
<1> HIDE DEF has, rest
<1>3. \A i \in 1 .. Len(g) :
        has + (Len(g) - i + 1) * Minute <= b.rpm * (Minute + clock - g[i])
  BY <1>1, AccruedSince DEF Accounted
<1>4. \A i \in 1 .. Len(h) :
        has - Minute + (Len(h) - i + 1) * Minute <= b.rpm * (Minute + clock - h[i])
  BY <1>1, <1>3, AccountGrows
<1>5. Len(h) = Len(g) + 1 /\ Len(g) \in Nat /\ h[Len(g) + 1] = clock
      /\ \A i \in 1 .. Len(g) : h[i] = g[i]
  OBVIOUS
<1> HIDE DEF h
<1>6. \A i, j \in 1 .. Len(h) :
        i <= j => (j - i + 1) * Minute <= b.rpm * (Minute + h[j] - h[i])
  <2> SUFFICES ASSUME NEW i \in 1 .. Len(h), NEW j \in 1 .. Len(h), i <= j
               PROVE  (j - i + 1) * Minute <= b.rpm * (Minute + h[j] - h[i])
    OBVIOUS
  <2>1. CASE j \in 1 .. Len(g)
    <3>1. i \in 1 .. Len(g)
      BY <1>5, <2>1
    <3> QED
      BY <1>5, <2>1, <3>1 DEF Accounted
  <2>2. CASE j = Len(h)
    <3> DEFINE spent == (j - i + 1) * Minute
               allowed == b.rpm * (Minute + clock - h[i])
    <3>1. has - Minute + spent <= allowed /\ h[j] = clock
      BY <1>4, <1>5, <2>2
    <3>2. h[i] \in Nat
      <4>1. h \in Seq(Nat)
        BY DEF h
      <4> QED
        BY <4>1
    <3>3. spent \in Int /\ allowed \in Int
      BY <1>1, <1>5, <3>2
    <3> HIDE DEF spent, allowed
    <3>4. spent <= allowed
      BY <1>1, <3>1, <3>3
    <3> QED
      BY <3>1, <3>4 DEF spent, allowed
  <2> QED
    BY <1>5, <2>1, <2>2
<1> QED
  BY <1>2, <1>4, <1>6 DEF Accounted, rest, h

LEMMA SleepAccounted ==
    ASSUME NEW b \in BucketType, NEW g \in Seq(Nat), Accounted(b, g),
           b.refilled <= clock, clock \in Nat, b.tokens <= Capacity(b)
    PROVE  Accounted(Refill(b), g)
<1>1. /\ Refill(b).rpm = b.rpm /\ Refill(b).refilled = clock
      /\ Refill(b).tokens <= b.tokens + (clock - b.refilled) * b.rpm
      /\ Refill(b).tokens \in Nat /\ b.rpm \in Nat /\ b.tokens \in Nat
      /\ b.refilled \in Nat
  BY RefillBounds DEF BucketType
<1>2. \A i \in 1 .. Len(g) :
        Refill(b).tokens + (Len(g) - i + 1) * Minute <= b.rpm * (Minute + clock - g[i])
  BY <1>1, AccruedSince DEF Accounted
<1> QED
  BY <1>1, <1>2 DEF Accounted

-----------------------------------------------------------------------------
(* The state.                                                              *)

Places == {"start", "create", "bucket", "acquire", "granted"}

LEMMA KeyType == ASSUME NEW c \in Calls PROVE Key(c) \in Keys /\ HintOf[ModelOf[c]] \in Int
  BY CallsAssumption, ModelsAssumption DEF Key

\* The only table there is, and what is known of its buckets.
LEMMA Table ==
    ASSUME IInv, singleton = 1
    PROVE  /\ limiters \in Seq([Keys -> BucketType]) /\ Len(limiters) = 1
           /\ limiters[1] \in [Keys -> BucketType]
           /\ \A k \in Keys : /\ limiters[1][k] \in BucketType
                              /\ limiters[1][k].tokens <= Capacity(limiters[1][k])
                              /\ limiters[1][k].refilled <= clock
<1>1. limiters \in Seq([Keys -> BucketType]) /\ Len(limiters) = 1
  BY DEF IInv, TypeOK, AtMostOneMade
<1>2. 1 \in DOMAIN limiters
  BY <1>1
<1>3. \A k \in Keys : /\ limiters[1][k].tokens <= Capacity(limiters[1][k])
                      /\ limiters[1][k].refilled <= clock
  BY <1>2 DEF IInv, TypeOK
<1>4. limiters[1] \in [Keys -> BucketType]
  BY <1>1, <1>2, ElementOfSeq
<1>5. \A k \in Keys : limiters[1][k] \in BucketType
  BY <1>4
<1> QED
  BY <1>1, <1>3, <1>4, <1>5

LEMMA PutInTable ==
    ASSUME IInv, singleton = 1, NEW c \in Calls, mine[c] = 1,
           NEW b \in BucketType, PutBucket(c, b)
    PROVE  /\ limiters' \in Seq([Keys -> BucketType]) /\ Len(limiters') = 1
           /\ limiters'[1][Key(c)] = b
           /\ \A k \in Keys \ {Key(c)} : limiters'[1][k] = limiters[1][k]
<1> DEFINE t == [limiters[1] EXCEPT ![Key(c)] = b]
<1>1. /\ limiters \in Seq([Keys -> BucketType]) /\ Len(limiters) = 1
      /\ limiters[1] \in [Keys -> BucketType] /\ Key(c) \in Keys
  BY Table, KeyType
<1>2. t \in [Keys -> BucketType] /\ t[Key(c)] = b
      /\ \A k \in Keys \ {Key(c)} : t[k] = limiters[1][k]
  BY <1>1
<1>3. limiters' = [limiters EXCEPT ![1] = t]
  BY DEF PutBucket
<1> HIDE DEF t
<1>4. limiters' \in Seq([Keys -> BucketType]) /\ Len(limiters') = 1 /\ limiters'[1] = t
  <2> DEFINE S == [Keys -> BucketType]
             new == [limiters EXCEPT ![1] = t]
  <2>1. 1 \in 1 .. Len(limiters) /\ limiters \in Seq(S) /\ t \in S
    BY <1>1, <1>2
  <2> HIDE DEF S
  <2>2. new \in Seq(S) /\ Len(new) = Len(limiters) /\ new[1] = t
    BY <2>1, ExceptSeq
  <2> QED
    BY <1>1, <1>3, <2>2 DEF S
<1> QED
  BY <1>2, <1>4

LEMMA InitInvariant == Init => IInv
<1> SUFFICES ASSUME Init PROVE IInv
  OBVIOUS
<1>1. /\ clock = 0 /\ singleton = 0 /\ limiters = <<>>
      /\ pc = [c \in Calls |-> "start"] /\ mine = [c \in Calls |-> 0]
      /\ due \in [Calls -> 0 .. MaxArrival] /\ grants = [k \in Keys |-> <<>>]
  BY DEF Init, NoLimiter
<1>2. limiters \in Seq([Keys -> BucketType]) /\ Len(limiters) = 0 /\ DOMAIN limiters = {}
  BY <1>1
<1>3. due \in [Calls -> Nat] /\ grants \in [Keys -> Seq(Nat)]
  BY <1>1, TimesAssumption
<1>4. TypeOK
  BY <1>1, <1>2, <1>3 DEF TypeOK
<1>5. AtMostOneMade /\ Holding /\ Accounts
  BY <1>1, <1>2 DEF AtMostOneMade, Holding, Accounts
<1> QED
  BY <1>4, <1>5 DEF IInv

LEMMA LookInvariant ==
    ASSUME IInv, NEW c \in Calls, LookForLimiter(c)
    PROVE  IInv'
<1>1. UNCHANGED <<clock, singleton, limiters, due, grants>>
  BY DEF LookForLimiter
<1>2. /\ pc \in [Calls -> Places] /\ mine \in [Calls -> 0 .. Len(limiters)]
      /\ singleton \in 0 .. Len(limiters) /\ singleton \in {0, 1}
  BY DEF IInv, TypeOK, Places, AtMostOneMade
<1>3. \/ /\ pc' = [pc EXCEPT ![c] = "create"] /\ mine' = mine
      \/ /\ pc' = [pc EXCEPT ![c] = "bucket"] /\ mine' = [mine EXCEPT ![c] = singleton]
         /\ singleton = 1
  BY <1>2 DEF LookForLimiter, GoTo, Use, NoLimiter
<1>4. pc' \in [Calls -> Places] /\ mine' \in [Calls -> 0 .. Len(limiters)]
  BY <1>2, <1>3 DEF Places
<1>5. TypeOK'
  BY <1>1, <1>4 DEF IInv, TypeOK, Places
<1>6. Holding'
  <2> SUFFICES ASSUME NEW d \in Calls
               PROVE  /\ mine'[d] \in {0, singleton}
                      /\ pc'[d] \in {"bucket", "acquire"} => singleton = 1 /\ mine'[d] = 1
                      /\ pc'[d] = "acquire" => limiters[1][Key(d)].rpm >= 1
    BY <1>1 DEF Holding
  <2>1. CASE d = c
    BY <1>2, <1>3, <2>1 DEF IInv, Holding
  <2>2. CASE d # c
    BY <1>2, <1>3, <2>2 DEF IInv, Holding
  <2> QED
    BY <2>1, <2>2
<1> QED
  BY <1>1, <1>5, <1>6 DEF IInv, AtMostOneMade, Accounts

LEMMA CreateInvariant ==
    ASSUME IInv, NEW c \in Calls, CreateLimiter(c)
    PROVE  IInv'
<1> DEFINE empty == [k \in Keys |-> NoBucket]
<1>1. UNCHANGED <<clock, due, grants>> /\ pc' = [pc EXCEPT ![c] = "bucket"]
      /\ mine' = [mine EXCEPT ![c] = singleton']
  BY DEF CreateLimiter, Use, GoTo
<1>2. /\ pc \in [Calls -> Places] /\ mine \in [Calls -> 0 .. Len(limiters)]
      /\ singleton \in {0, 1} /\ Len(limiters) = singleton
      /\ limiters \in Seq([Keys -> BucketType])
  BY DEF IInv, TypeOK, Places, AtMostOneMade
<1>3. empty \in [Keys -> BucketType]
  BY DEF NoBucket, BucketType
<1>4. CASE singleton = 1
  <2>1. limiters' = limiters /\ singleton' = 1
    BY <1>4 DEF CreateLimiter, Missing, NoLimiter
  <2>2. pc' \in [Calls -> Places] /\ mine' \in [Calls -> 0 .. Len(limiters')]
    <3>1. singleton' \in 0 .. Len(limiters)
      BY <1>2, <1>4, <2>1
    <3> QED
      BY <1>1, <1>2, <2>1, <3>1 DEF Places
  <2>3. TypeOK'
    BY <1>1, <1>4, <2>1, <2>2 DEF IInv, TypeOK, Places
  <2>4. Holding'
    <3> SUFFICES ASSUME NEW d \in Calls
                 PROVE  /\ mine'[d] \in {0, 1}
                        /\ pc'[d] \in {"bucket", "acquire"} => mine'[d] = 1
                        /\ pc'[d] = "acquire" => limiters[1][Key(d)].rpm >= 1
      BY <2>1 DEF Holding
    <3>1. CASE d = c
      BY <1>1, <1>2, <2>1, <3>1
    <3>2. CASE d # c
      BY <1>1, <1>2, <1>4, <3>2 DEF IInv, Holding
    <3> QED
      BY <3>1, <3>2
  <2> QED
    BY <1>1, <1>4, <2>1, <2>3, <2>4 DEF IInv, AtMostOneMade, Accounts
<1>5. CASE singleton = 0
  <2> HIDE DEF empty
  <2>1. limiters' = Append(limiters, empty) /\ singleton' = Len(limiters')
    BY <1>5 DEF CreateLimiter, Missing, NoLimiter, empty
  <2>2. limiters' \in Seq([Keys -> BucketType]) /\ Len(limiters') = 1
        /\ limiters'[1] = empty /\ singleton' = 1 /\ DOMAIN limiters' = {1}
    BY <1>2, <1>3, <1>5, <2>1
  <2>3. \A k \in Keys : empty[k] = NoBucket
    BY DEF empty
  <2>4. NoBucket.tokens <= Capacity(NoBucket) /\ NoBucket.refilled <= clock
        /\ NoBucket.rpm = 0
    <3>1. NoBucket.rpm = 0 /\ NoBucket.tokens = 0 /\ NoBucket.refilled = 0
      BY DEF NoBucket
    <3>2. Capacity(NoBucket) = 0
      BY <3>1, RatesAssumption DEF Capacity
    <3> QED
      BY <3>1, <3>2 DEF IInv, TypeOK
  <2>5. pc' \in [Calls -> Places] /\ mine' \in [Calls -> 0 .. Len(limiters')]
    BY <1>1, <1>2, <1>5, <2>2 DEF Places
  <2>6. \A i \in DOMAIN limiters', k \in Keys :
          limiters'[i][k].tokens <= Capacity(limiters'[i][k])
          /\ limiters'[i][k].refilled <= clock
    BY <2>2, <2>3, <2>4
  <2>7. TypeOK'
    <3>1. singleton' \in 0 .. Len(limiters')
      BY <2>2
    <3> QED
      BY <1>1, <2>2, <2>5, <2>6, <3>1 DEF IInv, TypeOK, Places, Capacity
  <2>8. Holding'
    <3> SUFFICES ASSUME NEW d \in Calls
                 PROVE  /\ mine'[d] \in {0, 1}
                        /\ pc'[d] \in {"bucket", "acquire"} => mine'[d] = 1
                        /\ pc'[d] # "acquire"
      BY <2>2 DEF Holding
    <3>1. CASE d = c
      BY <1>1, <1>2, <2>2, <3>1
    <3>2. CASE d # c
      BY <1>1, <1>2, <1>5, <3>2 DEF IInv, Holding
    <3> QED
      BY <3>1, <3>2
  <2>9. Accounts'
    <3>1. \A k \in Keys : grants[k] = <<>>
      BY <1>5 DEF IInv, Accounts
    <3>2. \A b : Accounted(b, <<>>)
      BY DEF Accounted
    <3> QED
      BY <1>1, <2>2, <2>3, <3>1, <3>2 DEF Accounts
  <2> QED
    BY <2>2, <2>7, <2>8, <2>9 DEF IInv, AtMostOneMade
<1> QED
  BY <1>2, <1>4, <1>5

\* What a step that only replaces the bucket of c's key must show of it.
LEMMA PutInvariant ==
    ASSUME IInv, NEW c \in Calls, singleton = 1, mine[c] = 1,
           NEW b \in BucketType, PutBucket(c, b),
           UNCHANGED <<clock, singleton, mine>>,
           b.rpm >= 1, b.tokens <= Capacity(b), b.refilled <= clock,
           due' \in [Calls -> Nat],
           NEW next \in {"acquire", "granted"}, pc' = [pc EXCEPT ![c] = next],
           NEW g \in Seq(Nat), grants' = [grants EXCEPT ![Key(c)] = g],
           Accounted(b, g)
    PROVE  IInv'
<1>1. /\ limiters' \in Seq([Keys -> BucketType]) /\ Len(limiters') = 1
      /\ limiters'[1][Key(c)] = b
      /\ \A k \in Keys \ {Key(c)} : limiters'[1][k] = limiters[1][k]
  BY PutInTable
<1>2. /\ pc \in [Calls -> Places] /\ mine \in [Calls -> 0 .. Len(limiters)]
      /\ grants \in [Keys -> Seq(Nat)] /\ Len(limiters) = 1 /\ Key(c) \in Keys
  BY Table, KeyType DEF IInv, TypeOK, Places
<1>3. \A k \in Keys : limiters'[1][k].tokens <= Capacity(limiters'[1][k])
                      /\ limiters'[1][k].refilled <= clock
  <2> TAKE k \in Keys
  <2>1. CASE k = Key(c)
    BY <1>1, <2>1
  <2>2. CASE k # Key(c)
    BY <1>1, <2>2, Table
  <2> QED
    BY <2>1, <2>2
<1>4. TypeOK'
  <2>1. pc' \in [Calls -> Places] /\ grants' \in [Keys -> Seq(Nat)]
    BY <1>2 DEF Places
  <2>2. DOMAIN limiters' = {1}
    BY <1>1
  <2>3. \A i \in DOMAIN limiters', k \in Keys :
          limiters'[i][k].tokens <= Capacity(limiters'[i][k])
          /\ limiters'[i][k].refilled <= clock
    BY <1>3, <2>2
  <2>4. mine' \in [Calls -> 0 .. Len(limiters')] /\ singleton' \in 0 .. Len(limiters')
    BY <1>1, <1>2 DEF IInv, TypeOK
  <2> QED
    BY <1>1, <2>1, <2>3, <2>4 DEF IInv, TypeOK, Places, Capacity
<1>5. Holding'
  <2> SUFFICES ASSUME NEW d \in Calls
               PROVE  /\ mine[d] \in {0, 1}
                      /\ pc'[d] \in {"bucket", "acquire"} => mine[d] = 1
                      /\ pc'[d] = "acquire" => limiters'[1][Key(d)].rpm >= 1
    BY DEF Holding
  <2>1. mine[d] \in {0, 1} /\ Key(d) \in Keys
    BY KeyType DEF IInv, Holding
  <2>2. CASE d = c
    BY <1>1, <2>2
  <2>3. CASE d # c
    <3>1. pc'[d] = pc[d]
      BY <1>2, <2>3
    <3>2. CASE Key(d) = Key(c)
      BY <1>1, <2>1, <3>1, <3>2 DEF IInv, Holding
    <3>3. CASE Key(d) # Key(c)
      <4>1. limiters'[1][Key(d)] = limiters[1][Key(d)]
        BY <1>1, <2>1, <3>3
      <4> QED
        BY <2>1, <3>1, <4>1 DEF IInv, Holding
    <3> QED
      BY <3>2, <3>3
  <2> QED
    BY <2>1, <2>2, <2>3
<1>6. Accounts'
  <2> SUFFICES ASSUME NEW k \in Keys
               PROVE  /\ limiters'[1][k].rpm = 0 =>
                           limiters'[1][k] = NoBucket /\ grants'[k] = <<>>
                      /\ Accounted(limiters'[1][k], grants'[k])
    BY DEF Accounts
  <2>1. CASE k = Key(c)
    <3>1. limiters'[1][k] = b /\ grants'[k] = g
      BY <1>1, <1>2, <2>1
    <3>2. b.rpm # 0
      BY DEF BucketType
    <3> QED
      BY <3>1, <3>2
  <2>2. CASE k # Key(c)
    <3>1. limiters'[1][k] = limiters[1][k] /\ grants'[k] = grants[k]
      BY <1>1, <1>2, <2>2
    <3> QED
      BY <3>1 DEF IInv, Accounts
  <2> QED
    BY <2>1, <2>2
<1> QED
  BY <1>1, <1>4, <1>5, <1>6 DEF IInv, AtMostOneMade

\* A bucket that was never made is the only one without a rate.
LEMMA FindInvariant ==
    ASSUME IInv, NEW c \in Calls, FindBucket(c)
    PROVE  IInv'
<1>1. /\ pc[c] = "bucket" /\ pc' = [pc EXCEPT ![c] = "acquire"]
      /\ UNCHANGED <<clock, singleton, mine, due, grants>>
  BY DEF FindBucket, GoTo
<1>2. /\ singleton = 1 /\ mine[c] = 1 /\ Key(c) \in Keys /\ HintOf[ModelOf[c]] \in Int
      /\ clock \in Nat /\ due \in [Calls -> Nat] /\ grants \in [Keys -> Seq(Nat)]
      /\ pc \in [Calls -> Places] /\ Bucket(c) = limiters[1][Key(c)]
  BY <1>1, KeyType DEF IInv, Holding, TypeOK, Places, Bucket
<1> DEFINE b == NewBucket(HintOf[ModelOf[c]])
           g == grants[Key(c)]
<1>3. g \in Seq(Nat) /\ grants' = [grants EXCEPT ![Key(c)] = g]
  BY <1>1, <1>2
<1>4. CASE Bucket(c) = NoBucket
  <2>1. PutBucket(c, b)
    BY <1>4 DEF FindBucket
  <2>2. b \in BucketType /\ b.rpm >= 1 /\ b.tokens <= Capacity(b) /\ b.refilled <= clock
    BY <1>2, NewBucketType
  <2>3. g = <<>>
    <3>1. limiters[1][Key(c)].rpm = 0
      BY <1>2, <1>4 DEF NoBucket
    <3> QED
      BY <1>2, <3>1 DEF IInv, Accounts
  <2>4. Accounted(b, g)
    BY <2>3 DEF Accounted
  <2> HIDE DEF b, g
  <2> QED
    BY <1>1, <1>2, <1>3, <2>1, <2>2, <2>4, PutInvariant
<1>5. CASE Bucket(c) # NoBucket
  <2>1. limiters' = limiters
    BY <1>5 DEF FindBucket
  <2>2. limiters[1][Key(c)].rpm >= 1
    <3>1. limiters[1][Key(c)].rpm # 0
      BY <1>2, <1>5 DEF IInv, Accounts
    <3>2. limiters[1][Key(c)].rpm \in Nat
      BY <1>2, Table DEF BucketType
    <3> QED
      BY <3>1, <3>2
  <2>3. TypeOK'
    <3>1. pc' \in [Calls -> Places]
      BY <1>1, <1>2 DEF Places
    <3> QED
      BY <1>1, <2>1, <3>1 DEF IInv, TypeOK, Places
  <2>4. Holding'
    <3> SUFFICES ASSUME NEW d \in Calls
                 PROVE  /\ mine[d] \in {0, 1}
                        /\ pc'[d] \in {"bucket", "acquire"} => mine[d] = 1
                        /\ pc'[d] = "acquire" => limiters[1][Key(d)].rpm >= 1
      BY <1>1, <1>2, <2>1 DEF Holding
    <3>1. CASE d = c
      BY <1>2, <2>2, <3>1
    <3>2. CASE d # c
      BY <1>1, <1>2, <3>2 DEF IInv, Holding
    <3> QED
      BY <3>1, <3>2
  <2> QED
    BY <1>1, <2>1, <2>3, <2>4 DEF IInv, AtMostOneMade, Accounts
<1> QED
  BY <1>4, <1>5

LEMMA WaitType ==
    ASSUME NEW b \in BucketType, b.rpm >= 1, b.tokens < Minute
    PROVE  Wait(b) \in Nat
<1>1. b.rpm \in Nat /\ b.tokens \in Nat /\ Minute \in Nat
  BY RatesAssumption DEF BucketType
<1>2. \A r, x \in Nat : r >= 1 => x \div r \in Nat
  OBVIOUS
<1>3. Minute - b.tokens + b.rpm - 1 \in Nat
  BY <1>1
<1> QED
  BY <1>1, <1>2, <1>3 DEF Wait

LEMMA AcquireInvariant ==
    ASSUME IInv, NEW c \in Calls, Acquire(c)
    PROVE  IInv'
<1> DEFINE old == Bucket(c)
           b == Refill(Bucket(c))
           g == grants[Key(c)]
<1>1. pc[c] = "acquire" /\ UNCHANGED <<clock, singleton, mine>>
  BY DEF Acquire
<1>2. /\ singleton = 1 /\ mine[c] = 1 /\ Key(c) \in Keys
      /\ clock \in Nat /\ due \in [Calls -> Nat] /\ grants \in [Keys -> Seq(Nat)]
      /\ pc \in [Calls -> Places] /\ old = limiters[1][Key(c)] /\ old.rpm >= 1
  BY <1>1, KeyType DEF IInv, Holding, TypeOK, Places, Bucket
<1>3. /\ old \in BucketType /\ old.tokens <= Capacity(old) /\ old.refilled <= clock
  BY <1>2, Table
<1>4. g \in Seq(Nat) /\ Accounted(old, g)
  BY <1>2 DEF IInv, Accounts
<1>5. /\ b \in BucketType /\ b.rpm = old.rpm /\ b.refilled = clock
      /\ b.tokens <= Capacity(b)
  BY <1>2, <1>3, RefillBounds DEF Capacity
<1>6. CASE b.tokens >= Minute
  <2>1. /\ PutBucket(c, Spend(b)) /\ due' = due
        /\ grants' = [grants EXCEPT ![Key(c)] = Append(g, clock)]
        /\ pc' = [pc EXCEPT ![c] = "granted"]
    BY <1>6 DEF Acquire, GoTo
  <2>2. Accounted(Spend(b), Append(g, clock))
    BY <1>2, <1>3, <1>4, <1>6, GrantAccounted
  <2>3. /\ Spend(b) \in BucketType /\ Spend(b).rpm >= 1 /\ Spend(b).refilled <= clock
        /\ Spend(b).tokens <= Capacity(Spend(b))
    <3>1. b.rpm \in Nat /\ b.tokens \in Nat /\ Minute \in Nat /\ b.rpm * Minute \in Nat
      BY <1>5, RatesAssumption DEF BucketType
    <3>2. /\ Spend(b).rpm = b.rpm /\ Spend(b).tokens = b.tokens - Minute
          /\ Spend(b).refilled = clock
          /\ Spend(b) = [rpm |-> b.rpm, tokens |-> b.tokens - Minute, refilled |-> clock]
      BY DEF Spend, Holds
    <3>3. b.tokens <= b.rpm * Minute
      BY <1>5 DEF Capacity
    <3> HIDE DEF b
    <3> QED
      BY <1>2, <1>5, <1>6, <3>1, <3>2, <3>3 DEF BucketType, Capacity
  <2>4. Append(g, clock) \in Seq(Nat) /\ due' \in [Calls -> Nat]
    BY <1>2, <1>4, <2>1
  <2> DEFINE spent == Spend(b)
             longer == Append(g, clock)
  <2> HIDE DEF spent, longer
  <2>5. /\ spent \in BucketType /\ spent.rpm >= 1 /\ spent.refilled <= clock
        /\ spent.tokens <= Capacity(spent) /\ PutBucket(c, spent)
        /\ longer \in Seq(Nat) /\ Accounted(spent, longer)
        /\ grants' = [grants EXCEPT ![Key(c)] = longer]
    BY <2>1, <2>2, <2>3, <2>4 DEF spent, longer
  <2> QED
    BY <1>1, <1>2, <2>1, <2>4, <2>5, PutInvariant
<1>7. CASE ~(b.tokens >= Minute)
  <2>1. /\ PutBucket(c, b) /\ due' = [due EXCEPT ![c] = clock + Wait(b)]
        /\ UNCHANGED <<grants, pc>>
    BY <1>7 DEF Acquire
  <2>2. Accounted(b, g)
    BY <1>2, <1>3, <1>4, SleepAccounted
  <2>3. due' \in [Calls -> Nat]
    <3>1. b.tokens < Minute
      BY <1>5, <1>7, RatesAssumption DEF BucketType
    <3>2. Wait(b) \in Nat
      BY <1>2, <1>5, <3>1, WaitType
    <3> QED
      BY <1>2, <2>1, <3>2
  <2>4. pc' = [pc EXCEPT ![c] = "acquire"] /\ grants' = [grants EXCEPT ![Key(c)] = g]
    BY <1>1, <1>2, <2>1
  <2>5. b.rpm >= 1 /\ b.refilled <= clock
    BY <1>2, <1>5
  <2> HIDE DEF b, g
  <2> QED
    BY <1>1, <1>2, <1>4, <1>5, <2>1, <2>2, <2>3, <2>4, <2>5, PutInvariant
<1> QED
  BY <1>6, <1>7

LEMMA TickInvariant == ASSUME IInv, Tick PROVE IInv'
<1>1. clock \in Nat /\ clock' = clock + 1
      /\ UNCHANGED <<singleton, limiters, pc, mine, due, grants>>
  BY DEF Tick, IInv, TypeOK
<1>2. \A i \in DOMAIN limiters, k \in Keys : limiters[i][k].refilled <= clock + 1
  <2> TAKE i \in DOMAIN limiters, k \in Keys
  <2>1. limiters[i][k].refilled <= clock /\ limiters[i] \in [Keys -> BucketType]
    BY DEF IInv, TypeOK
  <2>2. limiters[i][k].refilled \in Nat
    BY <2>1 DEF BucketType
  <2> QED
    BY <1>1, <2>1, <2>2
<1>3. TypeOK'
  BY <1>1, <1>2 DEF IInv, TypeOK
<1> QED
  BY <1>1, <1>3 DEF IInv, AtMostOneMade, Holding, Accounts

LEMMA NextInvariant == IInv /\ [Next]_vars => IInv'
<1> SUFFICES ASSUME IInv, [Next]_vars PROVE IInv'
  OBVIOUS
<1>1. CASE \E c \in Calls : Step(c)
  BY <1>1, LookInvariant, CreateInvariant, FindInvariant, AcquireInvariant DEF Step
<1>2. CASE Tick
  BY <1>2, TickInvariant
<1>3. CASE Done \/ UNCHANGED vars
  BY <1>3 DEF Done, vars, IInv, TypeOK, AtMostOneMade, Holding, Accounts
<1> QED
  BY <1>1, <1>2, <1>3 DEF Next

THEOREM Inductive == Spec => []IInv
  BY InitInvariant, NextInvariant, PTL DEF Spec

\* The limiter's state keeps its types, and no bucket overflows.
THEOREM TypeCorrect == Spec => []TypeOK
<1>1. IInv => TypeOK
  BY DEF IInv
<1> QED
  BY <1>1, Inductive, PTL

\* However many threads race for the first get_limiter, they share one limiter.
THEOREM OneLimiterOnly == Spec => []OneLimiter
<1>1. IInv => OneLimiter
  BY DEF IInv, Holding, OneLimiter, NoLimiter
<1> QED
  BY <1>1, Inductive, PTL

\* The number of calls let through on a key in any window of time is bounded by
\* a minute's worth and what accrues in the window, for every rate, any number
\* of threads and any delay of each.
THEOREM Paced == Spec => []WindowBound
<1>1. IInv => WindowBound
  <2> SUFFICES ASSUME IInv, NEW k \in Keys, NEW i \in DOMAIN grants[k],
                      NEW j \in DOMAIN grants[k], i <= j
               PROVE  (j - i + 1) * Minute
                        <= Rate(k) * (Minute + grants[k][j] - grants[k][i])
    BY DEF WindowBound
  <2>1. grants[k] \in Seq(Nat) /\ grants[k] # <<>>
    BY DEF IInv, TypeOK
  <2>2. singleton = 1
    BY <2>1 DEF IInv, AtMostOneMade, Accounts
  <2>3. DOMAIN grants[k] = 1 .. Len(grants[k])
    BY <2>1
  <2> QED
    BY <2>2, <2>3 DEF IInv, Accounts, Accounted, Rate
<1> QED
  BY <1>1, Inductive, PTL

-----------------------------------------------------------------------------
(* Nothing is lost either: the bucket is the bound, and not below it.      *)

\* A bucket is full, or holds all that the bound over the calls from some grant
\* on still leaves.
Exact(b, g) ==
    \/ b.tokens = Capacity(b)
    \/ \E i \in 1 .. Len(g) :
         b.tokens + (Len(g) - i + 1) * Minute = b.rpm * (Minute + b.refilled - g[i])

AllExact == singleton = 1 => \A k \in Keys : Exact(limiters[1][k], grants[k])

LEMMA ExactAccrual ==
    ASSUME NEW rpm \in Nat, NEW m \in Nat, NEW had \in Nat, NEW then \in Nat,
           NEW now \in Nat, NEW at \in Nat, NEW n \in Int,
           had + n * m = rpm * (m + then - at)
    PROVE  had + (now - then) * rpm + n * m = rpm * (m + now - at)
<1>1. rpm * (m + now - at) = rpm * (m + then - at) + (now - then) * rpm
  OBVIOUS
<1> QED
  BY <1>1

LEMMA RefillExact ==
    ASSUME NEW b \in BucketType, NEW g \in Seq(Nat), Exact(b, g),
           b.refilled <= clock, clock \in Nat
    PROVE  Exact(Refill(b), g)
<1>1. /\ b.rpm \in Nat /\ b.tokens \in Nat /\ b.refilled \in Nat
      /\ Capacity(b) \in Nat /\ Accrued(b) \in Nat
      /\ Accrued(b) = (clock - b.refilled) * b.rpm
  BY RatesAssumption DEF BucketType, Capacity, Accrued
<1>2. /\ Refill(b).rpm = b.rpm /\ Refill(b).refilled = clock
      /\ Refill(b).tokens = AtMost(b.tokens + Accrued(b), Capacity(b))
      /\ Capacity(Refill(b)) = Capacity(b)
  BY DEF Refill, Holds, Capacity
<1>3. CASE Refill(b).tokens = Capacity(b)
  BY <1>2, <1>3 DEF Exact
<1>4. CASE Refill(b).tokens # Capacity(b)
  <2>1. Refill(b).tokens = b.tokens + Accrued(b) /\ b.tokens # Capacity(b)
    BY <1>1, <1>2, <1>4 DEF AtMost
  <2>2. PICK i \in 1 .. Len(g) :
          b.tokens + (Len(g) - i + 1) * Minute = b.rpm * (Minute + b.refilled - g[i])
    BY <2>1 DEF Exact
  <2> DEFINE q == Len(g) - i + 1
             at == g[i]
             had == b.tokens
             rpm == b.rpm
             then == b.refilled
  <2>3. /\ q \in Int /\ at \in Nat /\ Minute \in Nat
        /\ had \in Nat /\ rpm \in Nat /\ then \in Nat
    BY <1>1, RatesAssumption
  <2>4. had + q * Minute = rpm * (Minute + then - at)
    BY <2>2
  <2> HIDE DEF q, at, had, rpm, then
  <2>5. had + (clock - then) * rpm + q * Minute = rpm * (Minute + clock - at)
    BY <2>3, <2>4, ExactAccrual
  <2>6. Refill(b).tokens + (Len(g) - i + 1) * Minute
          = Refill(b).rpm * (Minute + Refill(b).refilled - g[i])
    BY <1>1, <1>2, <2>1, <2>5 DEF q, at, had, rpm, then
  <2> QED
    BY <2>6 DEF Exact
<1> QED
  BY <1>3, <1>4

\* A call let through takes what it takes from every account.
LEMMA GrantExact ==
    ASSUME NEW b \in BucketType, NEW g \in Seq(Nat), Exact(b, g),
           b.refilled = clock, clock \in Nat
    PROVE  Exact(Spend(b), Append(g, clock))
<1> DEFINE h == Append(g, clock)
<1>1. /\ b.rpm \in Nat /\ b.tokens \in Nat /\ Minute \in Nat
      /\ Len(h) = Len(g) + 1 /\ Len(g) \in Nat
      /\ h[Len(g) + 1] = clock /\ \A i \in 1 .. Len(g) : h[i] = g[i]
      /\ \A i \in 1 .. Len(g) : g[i] \in Nat
  BY RatesAssumption DEF BucketType
<1>2. Spend(b).rpm = b.rpm /\ Spend(b).refilled = clock
      /\ Spend(b).tokens = b.tokens - Minute
  BY DEF Spend, Holds
<1> HIDE DEF h
<1>3. SUFFICES \E i \in 1 .. Len(h) :
          b.tokens - Minute + (Len(h) - i + 1) * Minute
            = b.rpm * (Minute + clock - h[i])
  BY <1>2 DEF Exact, h
<1>4. CASE b.tokens = Capacity(b)
  <2>0. Len(g) + 1 \in 1 .. Len(h)
    BY <1>1
  <2>1. b.tokens = b.rpm * Minute
    BY <1>4 DEF Capacity
  <2>2. Len(h) - (Len(g) + 1) + 1 = 1 /\ Minute + clock - clock = Minute
    BY <1>1
  <2>3. b.tokens - Minute + 1 * Minute = b.tokens
    BY <1>1
  <2> QED
    BY <1>1, <2>0, <2>1, <2>2, <2>3
<1>5. CASE b.tokens # Capacity(b)
  <2>1. PICK i \in 1 .. Len(g) :
          b.tokens + (Len(g) - i + 1) * Minute = b.rpm * (Minute + clock - g[i])
    BY <1>5 DEF Exact
  <2> DEFINE q == Len(g) - i + 1
  <2>2. i \in 1 .. Len(h) /\ q \in Int /\ Len(h) - i + 1 = q + 1 /\ h[i] = g[i]
    BY <1>1
  <2>3. b.tokens + q * Minute = b.rpm * (Minute + clock - h[i])
    BY <2>1, <2>2
  <2> HIDE DEF q
  <2>4. b.tokens - Minute + (q + 1) * Minute = b.tokens + q * Minute
    BY <1>1, <2>2
  <2> QED
    BY <2>2, <2>3, <2>4
<1> QED
  BY <1>4, <1>5

\* The sleep lasts until the tick the token is whole in, and not one longer.
LEMMA DivBounds ==
    ASSUME NEW n \in Nat, n >= 1, NEW a \in Nat
    PROVE  (a \div n) \in Nat /\ (a \div n) * n <= a /\ a < ((a \div n) + 1) * n
  OBVIOUS

LEMMA WaitExact ==
    ASSUME NEW b \in BucketType, b.rpm >= 1, b.tokens < Minute
    PROVE  /\ Wait(b) \in Nat /\ Wait(b) >= 1
           /\ Minute <= b.tokens + Wait(b) * b.rpm
           /\ b.tokens + (Wait(b) - 1) * b.rpm < Minute
<1> DEFINE a == Minute - b.tokens + b.rpm - 1
           w == a \div b.rpm
           r == b.rpm
           t == b.tokens
<1>1. r \in Nat /\ r >= 1 /\ t \in Nat /\ Minute \in Nat /\ a \in Nat /\ a >= r
      /\ a = Minute - t + r - 1
  BY RatesAssumption DEF BucketType
<1>2. w \in Nat /\ w * r <= a /\ a < (w + 1) * r
  BY <1>1, DivBounds
<1> HIDE DEF a, w, r, t
<1>3. (w + 1) * r = w * r + r /\ (w - 1) * r = w * r - r
  BY <1>1, <1>2
<1>4. w * r \in Int
  BY <1>1, <1>2
<1>5. Minute <= t + w * r /\ t + (w - 1) * r < Minute
  BY <1>1, <1>2, <1>3, <1>4
<1>6. w >= 1
  <2>1. CASE w = 0
    BY <1>1, <1>2, <2>1
  <2> QED
    BY <1>2, <2>1
<1>7. Wait(b) = w
  BY DEF Wait, w, a
<1> QED
  BY <1>2, <1>5, <1>6, <1>7 DEF r, t

LEMMA InitExact == Init => AllExact
  BY DEF Init, NoLimiter, AllExact

\* Only the bucket of c's key changes.
LEMMA PutExact ==
    ASSUME IInv, AllExact, NEW c \in Calls, singleton = 1, mine[c] = 1,
           NEW b \in BucketType, PutBucket(c, b),
           NEW g \in Seq(Nat), grants' = [grants EXCEPT ![Key(c)] = g],
           Exact(b, g)
    PROVE  AllExact'
<1> SUFFICES ASSUME NEW k \in Keys PROVE Exact(limiters'[1][k], grants'[k])
  BY DEF AllExact
<1>1. grants \in [Keys -> Seq(Nat)] /\ Key(c) \in Keys
  BY KeyType DEF IInv, TypeOK
<1>2. limiters'[1][Key(c)] = b
      /\ \A q \in Keys \ {Key(c)} : limiters'[1][q] = limiters[1][q]
  BY PutInTable
<1>3. CASE k = Key(c)
  BY <1>1, <1>2, <1>3
<1>4. CASE k # Key(c)
  <2>1. limiters'[1][k] = limiters[1][k] /\ grants'[k] = grants[k]
    BY <1>1, <1>2, <1>4
  <2> QED
    BY <2>1 DEF AllExact
<1> QED
  BY <1>3, <1>4

LEMMA CreateExact == ASSUME IInv, AllExact, NEW c \in Calls, CreateLimiter(c) PROVE AllExact'
<1> DEFINE empty == [k \in Keys |-> NoBucket]
<1>1. singleton \in {0, 1} /\ Len(limiters) = singleton /\ grants' = grants
      /\ limiters \in Seq([Keys -> BucketType])
  BY DEF IInv, TypeOK, AtMostOneMade, CreateLimiter
<1>2. CASE singleton = 1
  <2>1. limiters' = limiters /\ singleton' = 1
    BY <1>2 DEF CreateLimiter, Missing, NoLimiter
  <2> QED
    BY <1>1, <1>2, <2>1 DEF AllExact
<1>3. CASE singleton = 0
  <2>1. limiters' = Append(limiters, empty)
    BY <1>3 DEF CreateLimiter, Missing, NoLimiter
  <2>2. empty \in [Keys -> BucketType]
    BY DEF NoBucket, BucketType
  <2> HIDE DEF empty
  <2>3. limiters'[1] = empty
    BY <1>1, <1>3, <2>1, <2>2
  <2>4. NoBucket.tokens = Capacity(NoBucket)
    BY RatesAssumption DEF NoBucket, Capacity
  <2>5. \A k \in Keys : limiters'[1][k] = NoBucket
    BY <2>3 DEF empty
  <2> QED
    BY <2>4, <2>5 DEF AllExact, Exact
<1> QED
  BY <1>1, <1>2, <1>3

LEMMA FindExact == ASSUME IInv, AllExact, NEW c \in Calls, FindBucket(c) PROVE AllExact'
<1>1. /\ pc[c] = "bucket" /\ UNCHANGED <<clock, singleton, mine, due, grants>>
  BY DEF FindBucket
<1>2. /\ singleton = 1 /\ mine[c] = 1 /\ Key(c) \in Keys /\ HintOf[ModelOf[c]] \in Int
      /\ clock \in Nat /\ grants \in [Keys -> Seq(Nat)]
  BY <1>1, KeyType DEF IInv, Holding, TypeOK
<1> DEFINE b == NewBucket(HintOf[ModelOf[c]])
           g == grants[Key(c)]
<1>3. CASE Bucket(c) = NoBucket
  <2>1. PutBucket(c, b)
    BY <1>3 DEF FindBucket
  <2>2. b \in BucketType
    BY <1>2, NewBucketType
  <2>3. b.tokens = Capacity(b)
    BY DEF NewBucket, Capacity
  <2>4. g \in Seq(Nat) /\ grants' = [grants EXCEPT ![Key(c)] = g]
    BY <1>1, <1>2
  <2>5. Exact(b, g)
    BY <2>3 DEF Exact
  <2> HIDE DEF b, g
  <2> QED
    BY <1>2, <2>1, <2>2, <2>4, <2>5, PutExact
<1>4. CASE Bucket(c) # NoBucket
  <2>1. limiters' = limiters
    BY <1>4 DEF FindBucket
  <2> QED
    BY <1>1, <2>1 DEF AllExact
<1> QED
  BY <1>3, <1>4

\* What a call at its bucket finds there, once refilled.
LEMMA AtTheBucket ==
    ASSUME IInv, AllExact, NEW c \in Calls, pc[c] = "acquire"
    PROVE  LET b == Refill(Bucket(c)) IN
           /\ singleton = 1 /\ mine[c] = 1 /\ Key(c) \in Keys /\ clock \in Nat
           /\ grants[Key(c)] \in Seq(Nat)
           /\ b \in BucketType /\ b.refilled = clock
           /\ b.rpm = Rate(Key(c)) /\ b.rpm >= 1
           /\ Accounted(b, grants[Key(c)]) /\ Exact(b, grants[Key(c)])
<1> DEFINE old == Bucket(c)
           g == grants[Key(c)]
<1>1. /\ singleton = 1 /\ mine[c] = 1 /\ Key(c) \in Keys /\ clock \in Nat
      /\ g \in Seq(Nat) /\ old = limiters[1][Key(c)] /\ old.rpm >= 1
  BY KeyType DEF IInv, Holding, TypeOK, Bucket
<1>2. old \in BucketType /\ old.tokens <= Capacity(old) /\ old.refilled <= clock
  BY <1>1, Table
<1>3. Accounted(old, g) /\ Exact(old, g)
  BY <1>1 DEF IInv, Accounts, AllExact
<1>4. old.rpm = Rate(Key(c))
  BY <1>1 DEF Rate
<1> HIDE DEF old, g
<1>5. Accounted(Refill(old), g) /\ Exact(Refill(old), g)
  BY <1>1, <1>2, <1>3, SleepAccounted, RefillExact
<1>6. Refill(old) \in BucketType /\ Refill(old).rpm = old.rpm
      /\ Refill(old).refilled = clock
  BY <1>1, <1>2, RefillBounds
<1> QED
  BY <1>1, <1>4, <1>5, <1>6 DEF old, g

LEMMA AcquireExact == ASSUME IInv, AllExact, NEW c \in Calls, Acquire(c) PROVE AllExact'
<1> DEFINE b == Refill(Bucket(c))
           g == grants[Key(c)]
<1>1. pc[c] = "acquire"
  BY DEF Acquire
<1>2. /\ singleton = 1 /\ mine[c] = 1 /\ Key(c) \in Keys /\ clock \in Nat
      /\ g \in Seq(Nat) /\ b \in BucketType /\ b.refilled = clock /\ Exact(b, g)
      /\ grants \in [Keys -> Seq(Nat)]
  BY <1>1, AtTheBucket DEF IInv, TypeOK
<1>3. CASE b.tokens >= Minute
  <2> DEFINE spent == Spend(b)
             longer == Append(g, clock)
  <2>1. PutBucket(c, spent) /\ grants' = [grants EXCEPT ![Key(c)] = longer]
    BY <1>3 DEF Acquire
  <2>2. Exact(spent, longer) /\ longer \in Seq(Nat)
    BY <1>2, GrantExact
  <2>3. spent \in BucketType
    <3>1. spent = [rpm |-> b.rpm, tokens |-> b.tokens - Minute, refilled |-> clock]
      BY DEF Spend, Holds
    <3>2. b.rpm \in Nat /\ b.tokens \in Nat /\ Minute \in Nat
      BY <1>2, RatesAssumption DEF BucketType
    <3> HIDE DEF b, spent
    <3> QED
      BY <1>2, <1>3, <3>1, <3>2 DEF BucketType
  <2> HIDE DEF spent, longer
  <2> QED
    BY <1>2, <2>1, <2>2, <2>3, PutExact
<1>4. CASE ~(b.tokens >= Minute)
  <2>1. PutBucket(c, b) /\ grants' = grants
    BY <1>4 DEF Acquire
  <2>2. grants' = [grants EXCEPT ![Key(c)] = g]
    BY <1>2, <2>1
  <2> HIDE DEF b, g
  <2> QED
    BY <1>2, <2>1, <2>2, PutExact
<1> QED
  BY <1>3, <1>4

LEMMA NextExact == IInv /\ AllExact /\ [Next]_vars => AllExact'
<1> SUFFICES ASSUME IInv, AllExact, [Next]_vars PROVE AllExact'
  OBVIOUS
<1>1. ASSUME NEW c \in Calls, Step(c) PROVE AllExact'
  <2>1. CASE LookForLimiter(c)
    BY <2>1 DEF LookForLimiter, AllExact
  <2> QED
    BY <1>1, <2>1, CreateExact, FindExact, AcquireExact DEF Step
<1>2. CASE Tick
  BY <1>2 DEF Tick, AllExact
<1>3. CASE Done \/ UNCHANGED vars
  BY <1>3 DEF Done, vars, AllExact
<1> QED
  BY <1>1, <1>2, <1>3 DEF Next

-----------------------------------------------------------------------------
(* What a call that is put to sleep may conclude.                          *)

\* Everything the bound asks is there once a token is.
LEMMA FitsLater ==
    ASSUME NEW rpm \in Nat, NEW m \in Nat, NEW has \in Nat, NEW now \in Nat,
           NEW at \in Nat, NEW n \in Int, NEW w \in Nat,
           has + n * m <= rpm * (m + now - at), m <= has + w * rpm
    PROVE  (n + 1) * m <= rpm * (m + (now + w) - at)
<1>1. rpm * (m + (now + w) - at) = rpm * (m + now - at) + w * rpm
  OBVIOUS
<1>2. (n + 1) * m = n * m + m
  OBVIOUS
<1>3. n * m \in Int /\ w * rpm \in Int /\ rpm * (m + now - at) \in Int
  OBVIOUS
<1> DEFINE x == n * m
           y == w * rpm
           z == rpm * (m + now - at)
<1>4. ASSUME x \in Int, y \in Int, z \in Int, has + x <= z, m <= has + y
      PROVE  x + m <= z + y
  <2> HIDE DEF x, y, z
  <2> QED
    BY <1>4
<1> QED
  BY <1>1, <1>2, <1>3, <1>4

LEMMA DoesNotFitBefore ==
    ASSUME NEW rpm \in Nat, NEW m \in Nat, NEW has \in Nat, NEW now \in Nat,
           NEW at \in Nat, NEW n \in Int, NEW w \in Int,
           has + n * m = rpm * (m + now - at), has + w * rpm < m
    PROVE  ~((n + 1) * m <= rpm * (m + (now + w) - at))
<1>1. rpm * (m + (now + w) - at) = rpm * (m + now - at) + w * rpm
  OBVIOUS
<1>2. (n + 1) * m = n * m + m
  OBVIOUS
<1>3. n * m \in Int /\ w * rpm \in Int /\ rpm * (m + now - at) \in Int
  OBVIOUS
<1> DEFINE x == n * m
           y == w * rpm
           z == rpm * (m + now - at)
<1>4. ASSUME x \in Int, y \in Int, z \in Int, has + x = z, has + y < m
      PROVE  ~(x + m <= z + y)
  <2> HIDE DEF x, y, z
  <2> QED
    BY <1>4
<1> QED
  BY <1>1, <1>2, <1>3, <1>4

LEMMA SleepIsExact ==
    ASSUME IInv, AllExact, NEW c \in Calls, Acquire(c),
           NEW d \in Calls, due'[d] # due[d]
    PROVE  /\ Fits(Key(d), due'[d])
           /\ clock < due'[d] /\ ~Fits(Key(d), due'[d] - 1)
<1> DEFINE b == Refill(Bucket(c))
           g == grants[Key(c)]
           w == Wait(b)
<1>1. /\ pc[c] = "acquire" /\ due \in [Calls -> Nat]
      /\ \/ due' = due
         \/ /\ ~(b.tokens >= Minute)
            /\ due' = [due EXCEPT ![c] = clock + Wait(b)]
  BY DEF Acquire, IInv, TypeOK
<1>2. d = c /\ ~(b.tokens >= Minute) /\ due'[c] = clock + w
  <2> HIDE DEF b, w
  <2>1. ~(b.tokens >= Minute) /\ due' = [due EXCEPT ![c] = clock + Wait(b)]
    BY <1>1
  <2>2. d = c
    BY <1>1, <2>1
  <2> QED
    BY <1>1, <2>1, <2>2 DEF w
<1>3. /\ g \in Seq(Nat) /\ b \in BucketType /\ b.refilled = clock /\ clock \in Nat
      /\ b.rpm = Rate(Key(c)) /\ b.rpm >= 1 /\ Accounted(b, g) /\ Exact(b, g)
  BY <1>1, AtTheBucket
<1>4. /\ b.rpm \in Nat /\ b.tokens \in Nat /\ Minute \in Nat /\ Minute >= 1
      /\ b.tokens < Minute /\ Len(g) \in Nat
      /\ DOMAIN g = 1 .. Len(g) /\ \A i \in 1 .. Len(g) : g[i] \in Nat
  <2> HIDE DEF b, g
  <2> QED
    BY <1>2, <1>3, RatesAssumption DEF BucketType
<1>5. /\ w \in Nat /\ w >= 1 /\ Minute <= b.tokens + w * b.rpm
      /\ b.tokens + (w - 1) * b.rpm < Minute
  <2> HIDE DEF b
  <2> QED
    BY <1>3, <1>4, WaitExact DEF w
<1>6. Fits(Key(c), clock + w)
  <2> SUFFICES ASSUME NEW i \in 1 .. Len(g)
               PROVE  (Len(g) - i + 2) * Minute
                        <= b.rpm * (Minute + (clock + w) - g[i])
    BY <1>3, <1>4 DEF Fits
  <2> DEFINE n == Len(g) - i + 1
  <2>1. /\ b.tokens + n * Minute <= b.rpm * (Minute + clock - g[i])
        /\ n \in Int /\ Len(g) - i + 2 = n + 1 /\ g[i] \in Nat
    BY <1>3, <1>4 DEF Accounted
  <2> HIDE DEF b, g, w, n
  <2>2. (n + 1) * Minute <= b.rpm * (Minute + (clock + w) - g[i])
    BY <1>3, <1>4, <1>5, <2>1, FitsLater
  <2> QED
    BY <2>1, <2>2
<1>7. ~Fits(Key(c), (clock + w) - 1)
  <2>1. b.tokens # Capacity(b)
    <3>1. b.rpm * Minute >= Minute
      <4> HIDE DEF b
      <4> QED
        BY <1>3, <1>4
    <3> HIDE DEF b
    <3> QED
      BY <1>4, <3>1 DEF Capacity
  <2>2. PICK i \in 1 .. Len(g) :
          b.tokens + (Len(g) - i + 1) * Minute = b.rpm * (Minute + b.refilled - g[i])
    BY <1>3, <2>1 DEF Exact
  <2> DEFINE n == Len(g) - i + 1
             v == w - 1
  <2>3. /\ b.tokens + n * Minute = b.rpm * (Minute + clock - g[i])
        /\ n \in Int /\ Len(g) - i + 2 = n + 1 /\ g[i] \in Nat
    BY <1>3, <1>4, <2>2
  <2>4. v \in Int /\ b.tokens + v * b.rpm < Minute /\ (clock + w) - 1 = clock + v
    BY <1>3, <1>5
  <2> HIDE DEF b, w, n, v
  <2>5. ~((n + 1) * Minute <= b.rpm * (Minute + (clock + v) - g[i]))
    <3> HIDE DEF g
    <3> QED
      BY <1>3, <1>4, <2>3, <2>4, DoesNotFitBefore
  <2> QED
    BY <1>3, <1>4, <2>3, <2>4, <2>5 DEF Fits
<1>8. clock < clock + w
  BY <1>3, <1>5
<1> QED
  <2>1. due'[d] = clock + w
    BY <1>2
  <2>2. Key(d) = Key(c)
    BY <1>2
  <2> HIDE DEF w, b, g
  <2>3. Fits(Key(d), due'[d]) /\ clock < due'[d]
    BY <1>6, <1>8, <2>1, <2>2, Zenon
  <2>4. ~Fits(Key(d), due'[d] - 1)
    BY <1>7, <2>1, <2>2, Zenon
  <2> QED
    BY <2>3, <2>4

\* The limiter holds nobody up for nothing: a call sleeps only if letting it
\* through would break the bound, and until the first tick at which it would not.
THEOREM NobodyHeldUp == Spec => SleepsUntilItFits
<1> DEFINE Exactly == \A c \in Calls :
                        due'[c] # due[c] =>
                          /\ Fits(Key(c), due'[c])
                          /\ clock < due'[c] /\ ~Fits(Key(c), due'[c] - 1)
<1>1. IInv /\ AllExact /\ [Next]_vars => [Exactly]_vars
  <2> SUFFICES ASSUME IInv, AllExact, Next, NEW d \in Calls, due'[d] # due[d]
               PROVE  /\ Fits(Key(d), due'[d])
                      /\ clock < due'[d] /\ ~Fits(Key(d), due'[d] - 1)
    OBVIOUS
  <2>1. ~Tick /\ ~Done
    BY DEF Tick, Done, vars
  <2>2. PICK c \in Calls : Step(c)
    BY <2>1 DEF Next
  <2>3. Acquire(c)
    BY <2>2 DEF Step, LookForLimiter, CreateLimiter, FindBucket
  <2> QED
    BY <2>3, SleepIsExact
<1>2. Spec => [](IInv /\ AllExact)
  BY InitInvariant, InitExact, NextInvariant, NextExact, PTL DEF Spec
<1>3. Spec => [][Exactly]_vars
  BY <1>1, <1>2, PTL DEF Spec
<1> QED
  BY <1>3 DEF SleepsUntilItFits
=============================================================================
