------------------------------ MODULE CollectProofs ------------------------------
(* TLAPS proofs about RateLimiter and about Collect, which uses it: the limiter    *)
(* for every burst, refill rate, TTL and set of keys that keeps LimiterAssumption, *)
(* the endpoints for every set of visits and listed sites that keeps Collect's.    *)
EXTENDS Collect, FoldProofs, TLAPS

-----------------------------------------------------------------------------
(* The limiter.  The heart of the argument is that a bucket which has idled past   *)
(* its TTL is full: forgetting it changes no level.                                *)

(* What a bucket owes at most: the clock was never set back further than MaxBack.  *)
Owes == \A k \in DOMAIN buckets :
          /\ buckets[k].lastRefillMs = buckets[k].lastAccessMs
          /\ buckets[k].tokens >= - back
          /\ buckets[k].tokens + (now - buckets[k].lastRefillMs) >= - back

(* What was admitted and what is left came from the burst and the window's time. *)
Accounted == \A k \in Keys : admitted[k] * PerToken + Level(k) <= Full + elapsed

IInv == TypeOK /\ Owes /\ IdleIsForgotten /\ Accounted /\ WindowIsBounded

-----------------------------------------------------------------------------
(* The constants: a full bucket is a natural number of ticks. *)
LEMMA FullNat == Full \in Nat
  BY LimiterAssumption, SMT DEF LimiterAssumption, Full

(* A bucket's worth is an integer that never exceeds a full bucket. *)
LEMMA RefilledType ==
  ASSUME NEW b \in Bucket, now \in Int
  PROVE  Refilled(b) \in Int /\ Refilled(b) <= Full
  BY FullNat, SMT DEF Refilled, Bucket

(* The same for the worth of every key, tracked or not. *)
LEMMA LevelType ==
  ASSUME TypeOK, NEW k \in Keys
  PROVE  Level(k) \in Int /\ Level(k) <= Full
<1>1. CASE k \in DOMAIN buckets
  <2>1. buckets[k] \in Bucket /\ now \in Int
    BY <1>1, SMT DEF TypeOK
  <2> QED BY <1>1, <2>1, RefilledType, SMT DEF Level
<1>2. CASE k \notin DOMAIN buckets
  BY <1>2, FullNat, SMT DEF Level
<1> QED BY <1>1, <1>2

(* #sweep only removes buckets that are full again: this is what LimiterAssumption *)
(* is for.                                                                         *)
LEMMA SweptIsFull ==
  ASSUME TypeOK, Owes, NEW k \in Keys, NEW j \in DOMAIN buckets, j \notin Swept(k)
  PROVE  Refilled(buckets[j]) = Full
<1>1. /\ buckets[j] \in Bucket /\ now \in Int /\ back \in 0..MaxBack
  BY SMT DEF TypeOK
<1>2. buckets[j].tokens \in Int /\ buckets[j].lastRefillMs \in Int
      /\ buckets[j].lastAccessMs \in Int
  BY <1>1, SMT DEF Bucket
<1>3. now - buckets[j].lastAccessMs > Ttl
  BY <1>1, <1>2, LimiterAssumption, SMT DEF Swept, LimiterAssumption
<1>4. buckets[j].tokens >= - back /\ buckets[j].lastRefillMs = buckets[j].lastAccessMs
  BY SMT DEF Owes
<1>5. Ttl >= Full + MaxBack /\ Ttl \in Nat /\ MaxBack \in Nat
  BY LimiterAssumption, SMT DEF LimiterAssumption, Full
<1>6. buckets[j].tokens + (now - buckets[j].lastRefillMs) >= Full
  BY <1>1, <1>2, <1>3, <1>4, <1>5, FullNat, SMT
<1> QED BY <1>1, <1>2, <1>6, FullNat, SMT DEF Refilled

(* What consume() refills is what the key's bucket was worth, swept out or not. *)
LEMMA FoundIsLevel ==
  ASSUME TypeOK, Owes, NEW k \in Keys
  PROVE  Refilled(Found(k)) = Level(k)
<1>0. now \in Int
  BY DEF TypeOK
<1>1. CASE k \in Swept(k)
  BY <1>1, SMT DEF Found, Level, Swept
<1>2. CASE k \notin Swept(k)
  <2>1. Refilled(Fresh) = Full
    BY <1>0, FullNat, SMT DEF Refilled, Fresh
  <2>2. CASE k \in DOMAIN buckets
    BY <1>2, <2>1, <2>2, SweptIsFull, SMT DEF Found, Level
  <2>3. CASE k \notin DOMAIN buckets
    BY <1>2, <2>1, <2>3, SMT DEF Found, Level
  <2> QED BY <2>2, <2>3
<1> QED BY <1>1, <1>2

(* What consume() leaves in the map. *)
LEMMA PutBuckets ==
  ASSUME TypeOK, NEW k \in Keys, NEW t \in Int, Put(k, t)
  PROVE  /\ DOMAIN buckets' = Swept(k) \union {k}
         /\ Swept(k) \subseteq DOMAIN buckets /\ DOMAIN buckets' \subseteq Keys
         /\ buckets'[k] = [tokens |-> t, lastRefillMs |-> now, lastAccessMs |-> now]
         /\ \A j \in Swept(k) \ {k} : buckets'[j] = buckets[j]
         /\ buckets' \in [DOMAIN buckets' -> Bucket]
<1>1. /\ DOMAIN buckets \subseteq Keys /\ now \in Int
      /\ \A j \in DOMAIN buckets : buckets[j] \in Bucket
  BY DEF TypeOK
<1>2. Swept(k) \subseteq DOMAIN buckets
  BY DEF Swept
<1>3. [tokens |-> t, lastRefillMs |-> now, lastAccessMs |-> now] \in Bucket
  BY <1>1 DEF Bucket
<1> DEFINE b == [tokens |-> t, lastRefillMs |-> now, lastAccessMs |-> now]
<1>4. buckets' = [j \in Swept(k) \union {k} |-> IF j = k THEN b ELSE buckets[j]]
  BY DEF Put
<1> HIDE DEF b
<1>5. b \in Bucket
  BY <1>3 DEF b
<1>6. /\ DOMAIN buckets' = Swept(k) \union {k} /\ buckets'[k] = b
      /\ \A j \in Swept(k) \ {k} : buckets'[j] = buckets[j]
  BY <1>4
<1>7. \A j \in Swept(k) \union {k} : (IF j = k THEN b ELSE buckets[j]) \in Bucket
  BY <1>1, <1>2, <1>5
<1>8. buckets' \in [Swept(k) \union {k} -> Bucket]
  BY <1>4, <1>7
<1>9. buckets' \in [DOMAIN buckets' -> Bucket] /\ DOMAIN buckets' \subseteq Keys
  BY <1>1, <1>2, <1>6, <1>8
<1> QED BY <1>2, <1>6, <1>9 DEF b

(* A call moves the level of its own key and of no other. *)
LEMMA PutLevels ==
  ASSUME TypeOK, Owes, NEW k \in Keys, NEW t \in Int, t <= Full, Put(k, t), now' = now
  PROVE  Level(k)' = t /\ \A j \in Keys \ {k} : Level(j)' = Level(j)
<1>1. now \in Int
  BY DEF TypeOK
<1>2. Level(k)' = t
  <2>2. t + (now' - now) = t
    BY <1>1
  <2>3. Level(k)' = IF t + (now' - now) > Full THEN Full ELSE t + (now' - now)
    <3>1. k \in DOMAIN buckets'
      BY PutBuckets
    <3>2. buckets'[k] = [tokens |-> t, lastRefillMs |-> now, lastAccessMs |-> now]
      BY PutBuckets
    <3>3. buckets'[k].tokens = t /\ buckets'[k].lastRefillMs = now
      BY <3>2
    <3> QED BY <3>1, <3>3 DEF Level, Refilled, Full
  <2> QED BY <2>3, <2>2, FullNat
<1>3. ASSUME NEW j \in Keys \ {k}  PROVE Level(j)' = Level(j)
  <2>1. CASE j \in Swept(k)
    <3>1. j \in DOMAIN buckets /\ j \in DOMAIN buckets' /\ buckets'[j] = buckets[j]
      BY <1>3, <2>1, PutBuckets
    <3> QED BY <3>1 DEF Level, Refilled, Full
  <2>2. CASE j \notin Swept(k) /\ j \in DOMAIN buckets
    <3>1. j \notin DOMAIN buckets' /\ Refilled(buckets[j]) = Full
      BY <1>3, <2>2, PutBuckets, SweptIsFull
    <3> QED BY <2>2, <3>1 DEF Level, Full
  <2>3. CASE j \notin DOMAIN buckets
    <3>1. j \notin DOMAIN buckets'
      BY <1>3, <2>3, PutBuckets
    <3> QED BY <2>3, <3>1 DEF Level, Full
  <2> QED BY <2>1, <2>2, <2>3
<1> QED BY <1>2, <1>3

(* The levels between calls: a tick adds at most one unit, a set-back takes one. *)
LEMMA TickLevels ==
  ASSUME TypeOK, NEW k \in Keys, buckets' = buckets, now' = now + 1
  PROVE  Level(k)' = IF Level(k) + 1 > Full THEN Full ELSE Level(k) + 1
<1>1. CASE k \in DOMAIN buckets
  <2>1. buckets[k] \in Bucket /\ now \in Int
    BY <1>1 DEF TypeOK
  <2> DEFINE t == buckets[k].tokens  r == buckets[k].lastRefillMs
  <2>2. t \in Int /\ r \in Int
    BY <2>1 DEF Bucket
  <2>3. Level(k) = IF t + (now - r) > Full THEN Full ELSE t + (now - r)
    BY <1>1 DEF Level, Refilled
  <2>4. Level(k)' = IF t + (now + 1 - r) > Full THEN Full ELSE t + (now + 1 - r)
    <3>1. Level(k)' = IF t + (now' - r) > Full THEN Full ELSE t + (now' - r)
      BY <1>1 DEF Level, Refilled, Full
    <3>2. now' = now + 1
      OBVIOUS
    <3> QED BY <3>1, <3>2, <2>1, <2>2
  <2> DEFINE n == t + (now - r)
  <2>5. n \in Int /\ t + (now + 1 - r) = n + 1
    BY <2>1, <2>2
  <2>6. Level(k) = IF n > Full THEN Full ELSE n
    BY <2>3
  <2>7. Level(k)' = IF n + 1 > Full THEN Full ELSE n + 1
    BY <2>4, <2>5
  <2> HIDE DEF n
  <2> QED BY <2>5, <2>6, <2>7, FullNat
<1>2. CASE k \notin DOMAIN buckets
  BY <1>2, FullNat DEF Level, Full
<1> QED BY <1>1, <1>2

(* Setting the clock back takes what the clock lost, or less from a full bucket. *)
LEMMA SetBackLevels ==
  ASSUME TypeOK, NEW k \in Keys, buckets' = buckets, now' = now - 1
  PROVE  Level(k) - 1 <= Level(k)' /\ Level(k)' <= Level(k) /\ Level(k)' \in Int
<1>1. CASE k \in DOMAIN buckets
  <2>typed. buckets[k] \in Bucket /\ now \in Int
    BY <1>1 DEF TypeOK
  <2> DEFINE t == buckets[k].tokens  r == buckets[k].lastRefillMs
  <2>known. t \in Int /\ r \in Int
    BY <2>typed DEF Bucket
  <2>before. Level(k) = IF t + (now - r) > Full THEN Full ELSE t + (now - r)
    BY <1>1 DEF Level, Refilled
  <2>after. Level(k)' = IF t + (now - 1 - r) > Full THEN Full ELSE t + (now - 1 - r)
    BY <1>1 DEF Level, Refilled, Full
  <2> HIDE DEF t, r
  <2> QED BY <2>typed, <2>known, <2>before, <2>after, FullNat
<1>2. CASE k \notin DOMAIN buckets
  BY <1>2, FullNat DEF Level, Full
<1> QED BY <1>1, <1>2

(* One more admitted call is one more token. *)
LEMMA OneMoreToken ==
  ASSUME NEW n \in Nat PROVE (n + 1) * PerToken = n * PerToken + PerToken
  BY LimiterAssumption DEF LimiterAssumption

-----------------------------------------------------------------------------
(* The inductive invariant. *)

(* A new limiter tracks nothing and owes nothing. *)
LEMMA InitIInv == Init => IInv
<1> SUFFICES ASSUME Init PROVE IInv
  OBVIOUS
<1>1. DOMAIN buckets = {} /\ buckets \in [DOMAIN buckets -> Bucket]
  BY DEF Init
<1>2. TypeOK
  BY <1>1, LimiterAssumption DEF Init, TypeOK, NoCalls, LimiterAssumption
<1>3. Owes /\ IdleIsForgotten
  BY <1>1 DEF Owes, IdleIsForgotten
<1>4. \A k \in Keys : Level(k) = Full /\ admitted[k] = 0
  BY <1>1 DEF Level, Init, NoCalls
<1>5. 0 * PerToken = 0 /\ elapsed = 0
  BY LimiterAssumption DEF LimiterAssumption, Init
<1>6. Accounted /\ WindowIsBounded
  BY <1>4, <1>5, FullNat DEF Accounted, WindowIsBounded
<1> QED BY <1>2, <1>3, <1>6 DEF IInv

(* A call keeps the map well-typed and swept, and no bucket owes more than before. *)
LEMMA PutKeeps ==
  ASSUME IInv, NEW k \in Keys, NEW t \in Int, t <= Full, t >= - back, Put(k, t),
         now' = now, back' = back, sweptAt' = now
  PROVE  /\ DOMAIN buckets' \subseteq Keys /\ buckets' \in [DOMAIN buckets' -> Bucket]
         /\ \A j \in DOMAIN buckets' : buckets'[j].tokens <= Full
         /\ Owes' /\ IdleIsForgotten'
<1>0. TypeOK /\ Owes
  BY DEF IInv
<1>1. now \in Int /\ back \in Nat /\ Ttl \in Nat
  BY <1>0, LimiterAssumption DEF TypeOK, LimiterAssumption
<1>2. DOMAIN buckets' \subseteq Keys /\ buckets' \in [DOMAIN buckets' -> Bucket]
  BY <1>0, PutBuckets
<1>3. ASSUME NEW j \in DOMAIN buckets'
      PROVE  /\ buckets'[j].tokens <= Full
             /\ buckets'[j].lastRefillMs = buckets'[j].lastAccessMs
             /\ buckets'[j].tokens >= - back
             /\ buckets'[j].tokens + (now - buckets'[j].lastRefillMs) >= - back
             /\ now - buckets'[j].lastAccessMs <= Ttl
  <2>1. CASE j = k
    <3>1. buckets'[j] = [tokens |-> t, lastRefillMs |-> now, lastAccessMs |-> now]
      BY <1>0, <2>1, PutBuckets
    <3>2. buckets'[j].tokens = t /\ buckets'[j].lastRefillMs = now
          /\ buckets'[j].lastAccessMs = now
      BY <3>1
    <3> QED BY <3>2, <1>1
  <2>2. CASE j # k
    <3>1. j \in Swept(k) /\ j \in DOMAIN buckets /\ buckets'[j] = buckets[j]
      BY <1>0, <1>3, <2>2, PutBuckets
    <3>2. now - buckets[j].lastAccessMs <= Ttl
      BY <3>1 DEF Swept
    <3>3. buckets[j].tokens <= Full
      BY <1>0, <3>1 DEF TypeOK
    <3>4. /\ buckets[j].lastRefillMs = buckets[j].lastAccessMs
          /\ buckets[j].tokens >= - back
          /\ buckets[j].tokens + (now - buckets[j].lastRefillMs) >= - back
      BY <1>0, <3>1 DEF Owes
    <3> QED BY <3>1, <3>2, <3>3, <3>4
  <2> QED BY <2>1, <2>2
<1>4. Owes'
  BY <1>3 DEF Owes
<1>5. IdleIsForgotten'
  BY <1>3 DEF IdleIsForgotten
<1> QED BY <1>2, <1>3, <1>4, <1>5

(* A call either spends a whole token and is admitted, or spends nothing. *)
LEMMA ConsumeCases ==
  ASSUME IInv, NEW k \in Keys, Consume(k)
  PROVE  /\ \A j \in Keys \ {k} : Level(j)' = Level(j)
         /\ \/ /\ Level(k) >= PerToken
               /\ Level(k)' = Level(k) - PerToken
               /\ admitted' = [admitted EXCEPT ![k] = @ + 1]
               /\ refused' = refused
            \/ /\ Level(k) < PerToken
               /\ Level(k)' = Level(k)
               /\ refused' = [refused EXCEPT ![k] = @ + 1]
               /\ admitted' = admitted
         /\ elapsed' = elapsed
         /\ DOMAIN buckets' \subseteq Keys /\ buckets' \in [DOMAIN buckets' -> Bucket]
         /\ \A j \in DOMAIN buckets' : buckets'[j].tokens <= Full
         /\ Owes' /\ IdleIsForgotten'
<1>0. TypeOK /\ Owes
  BY DEF IInv
<1>1. Level(k) \in Int /\ Level(k) <= Full /\ PerToken \in Nat \ {0} /\ back \in Nat
  BY <1>0, LevelType, LimiterAssumption DEF LimiterAssumption, TypeOK
<1>2. Refilled(Found(k)) = Level(k)
  BY <1>0, FoundIsLevel
<1>3. now' = now /\ back' = back /\ sweptAt' = now /\ elapsed' = elapsed
  BY DEF Consume
<1>4. Level(k) >= - back
  <2>1. CASE k \in DOMAIN buckets
    <3>1. buckets[k].tokens + (now - buckets[k].lastRefillMs) >= - back
      BY <1>0, <2>1 DEF Owes
    <3> QED BY <2>1, <3>1, <1>1, FullNat DEF Level, Refilled
  <2>2. CASE k \notin DOMAIN buckets
    BY <2>2, <1>1, FullNat DEF Level
  <2> QED BY <2>1, <2>2
<1>5. CASE /\ TokenLeft(Refilled(Found(k)))
           /\ Put(k, Refilled(Found(k)) - PerToken)
           /\ admitted' = [admitted EXCEPT ![k] = @ + 1]
           /\ UNCHANGED refused
  <2> DEFINE t == Level(k) - PerToken
  <2>1. Level(k) >= PerToken /\ Put(k, t)
    BY <1>2, <1>5 DEF TokenLeft
  <2>2. t \in Int /\ t <= Full /\ t >= - back
    BY <1>1, <2>1, FullNat
  <2> HIDE DEF t
  <2>3. Level(k)' = t /\ \A j \in Keys \ {k} : Level(j)' = Level(j)
    BY <1>0, <1>3, <2>1, <2>2, PutLevels
  <2>4. /\ DOMAIN buckets' \subseteq Keys /\ buckets' \in [DOMAIN buckets' -> Bucket]
        /\ \A j \in DOMAIN buckets' : buckets'[j].tokens <= Full
        /\ Owes' /\ IdleIsForgotten'
    BY <1>3, <2>1, <2>2, PutKeeps
  <2> QED BY <1>3, <1>5, <2>1, <2>3, <2>4 DEF t
<1>6. CASE /\ ~ TokenLeft(Refilled(Found(k)))
           /\ Put(k, Refilled(Found(k)))
           /\ refused' = [refused EXCEPT ![k] = @ + 1]
           /\ UNCHANGED admitted
  <2>1. Level(k) < PerToken /\ Put(k, Level(k))
    BY <1>1, <1>2, <1>6 DEF TokenLeft
  <2>2. Level(k)' = Level(k) /\ \A j \in Keys \ {k} : Level(j)' = Level(j)
    BY <1>0, <1>1, <1>3, <2>1, PutLevels
  <2>3. /\ DOMAIN buckets' \subseteq Keys /\ buckets' \in [DOMAIN buckets' -> Bucket]
        /\ \A j \in DOMAIN buckets' : buckets'[j].tokens <= Full
        /\ Owes' /\ IdleIsForgotten'
    BY <1>1, <1>3, <1>4, <2>1, PutKeeps
  <2> QED BY <1>3, <1>6, <2>1, <2>2, <2>3
<1> QED BY <1>5, <1>6 DEF Consume

(* A call keeps every account balanced. *)
LEMMA ConsumeIInv ==
  ASSUME IInv, NEW k \in Keys, Consume(k)
  PROVE  IInv'
<1>0. TypeOK /\ Accounted /\ WindowIsBounded /\ PerToken \in Nat \ {0}
  BY LimiterAssumption DEF IInv, LimiterAssumption
<1>1. now' = now /\ back' = back /\ sweptAt' = now /\ elapsed' = elapsed
  BY DEF Consume
<1>2. admitted' \in [Keys -> Nat] /\ refused' \in [Keys -> Nat]
  BY <1>0, ConsumeCases DEF TypeOK
<1>3. TypeOK'
  BY <1>0, <1>1, <1>2, ConsumeCases DEF TypeOK, Full, Bucket
<1>4. ASSUME NEW j \in Keys
      PROVE  /\ admitted'[j] * PerToken + Level(j)' <= Full + elapsed
             /\ admitted'[j] * PerToken <= Full + elapsed
  <2>0. /\ admitted[j] \in Nat /\ elapsed \in Nat /\ Level(j) \in Int
        /\ admitted[j] * PerToken + Level(j) <= Full + elapsed
        /\ admitted[j] * PerToken <= Full + elapsed
        /\ admitted[j] * PerToken \in Nat
    BY <1>0, LevelType DEF TypeOK, Accounted, WindowIsBounded
  <2>1. CASE admitted'[j] = admitted[j] /\ Level(j)' = Level(j)
    BY <2>0, <2>1
  <2>2. CASE /\ j = k /\ admitted'[j] = admitted[j] + 1
             /\ Level(j) >= PerToken /\ Level(j)' = Level(j) - PerToken
    <3> DEFINE m == admitted[j] * PerToken
    <3>1. admitted'[j] * PerToken = m + PerToken
      BY <2>0, <2>2, OneMoreToken
    <3> HIDE DEF m
    <3>2. m \in Nat /\ m + Level(j) <= Full + elapsed
      BY <2>0 DEF m
    <3> QED BY <1>0, <2>0, <2>2, <3>1, <3>2, FullNat
  <2>3. \/ admitted'[j] = admitted[j] /\ Level(j)' = Level(j)
        \/ /\ j = k /\ admitted'[j] = admitted[j] + 1
           /\ Level(j) >= PerToken /\ Level(j)' = Level(j) - PerToken
    BY <1>0, ConsumeCases DEF TypeOK
  <2> QED BY <2>1, <2>2, <2>3
<1>5. Accounted' /\ WindowIsBounded'
  BY <1>1, <1>4 DEF Accounted, WindowIsBounded, Full
<1> QED BY <1>3, <1>5, ConsumeCases DEF IInv

(* Time restores no more than it lets pass. *)
LEMMA TickIInv ==
  ASSUME IInv, Tick
  PROVE  IInv'
<1>0. TypeOK /\ Owes /\ IdleIsForgotten /\ Accounted /\ WindowIsBounded
      /\ PerToken \in Nat \ {0} /\ now \in Int /\ elapsed \in Nat /\ back \in Nat
  BY LimiterAssumption DEF IInv, LimiterAssumption, TypeOK
<1>1. TypeOK'
  BY <1>0 DEF Tick, TypeOK, Full, Bucket
<1>2. Owes'
  <2>0. buckets' = buckets /\ now' = now + 1 /\ back' = back
    BY DEF Tick
  <2> SUFFICES ASSUME NEW k \in DOMAIN buckets
               PROVE  /\ buckets[k].lastRefillMs = buckets[k].lastAccessMs
                      /\ buckets[k].tokens >= - back
                      /\ buckets[k].tokens + (now' - buckets[k].lastRefillMs) >= - back
    BY <2>0 DEF Owes
  <2>1. buckets[k] \in Bucket
    BY <1>0 DEF TypeOK
  <2>2. buckets[k].tokens \in Int /\ buckets[k].lastRefillMs \in Int
    BY <2>1 DEF Bucket
  <2>3. /\ buckets[k].lastRefillMs = buckets[k].lastAccessMs
        /\ buckets[k].tokens >= - back
        /\ buckets[k].tokens + (now - buckets[k].lastRefillMs) >= - back
    BY <1>0 DEF Owes
  <2> QED BY <1>0, <2>0, <2>2, <2>3
<1>3. IdleIsForgotten'
  BY <1>0 DEF Tick, IdleIsForgotten
<1>4. ASSUME NEW k \in Keys
      PROVE  /\ admitted[k] * PerToken + Level(k)' <= Full + (elapsed + 1)
             /\ admitted[k] * PerToken <= Full + (elapsed + 1)
  <2> DEFINE m == admitted[k] * PerToken
  <2>1. m \in Nat /\ m + Level(k) <= Full + elapsed /\ m <= Full + elapsed
    BY <1>0 DEF TypeOK, Accounted, WindowIsBounded
  <2>2. Level(k) \in Int /\ Level(k) <= Full
    BY <1>0, LevelType
  <2>3. Level(k)' = IF Level(k) + 1 > Full THEN Full ELSE Level(k) + 1
    BY <1>0, TickLevels DEF Tick
  <2> HIDE DEF m
  <2>4. m + Level(k)' <= Full + (elapsed + 1) /\ m <= Full + (elapsed + 1)
    BY <1>0, <2>1, <2>2, <2>3, FullNat
  <2> QED BY <2>4 DEF m
<1>5. Accounted' /\ WindowIsBounded'
  BY <1>4 DEF Tick, Accounted, WindowIsBounded, Full
<1> QED BY <1>1, <1>2, <1>3, <1>5 DEF IInv

(* A clock set back restores nothing. *)
LEMMA SetBackIInv ==
  ASSUME IInv, SetBack
  PROVE  IInv'
<1>0. TypeOK /\ Owes /\ IdleIsForgotten /\ Accounted /\ WindowIsBounded
      /\ PerToken \in Nat \ {0} /\ now \in Int /\ elapsed \in Nat
      /\ back \in Nat /\ MaxBack \in Nat
  BY LimiterAssumption DEF IInv, LimiterAssumption, TypeOK
<1>1. TypeOK'
  BY <1>0 DEF SetBack, observer, TypeOK, Full, Bucket
<1>2. Owes'
  <2> SUFFICES ASSUME NEW k \in DOMAIN buckets
               PROVE  /\ buckets[k].lastRefillMs = buckets[k].lastAccessMs
                      /\ buckets[k].tokens >= - (back + 1)
                      /\ buckets[k].tokens + (now - 1 - buckets[k].lastRefillMs) >= - (back + 1)
    BY DEF SetBack, Owes
  <2>1. buckets[k] \in Bucket
    BY <1>0 DEF TypeOK
  <2>2. buckets[k].tokens \in Int /\ buckets[k].lastRefillMs \in Int
    BY <2>1 DEF Bucket
  <2>3. /\ buckets[k].lastRefillMs = buckets[k].lastAccessMs
        /\ buckets[k].tokens >= - back
        /\ buckets[k].tokens + (now - buckets[k].lastRefillMs) >= - back
    BY <1>0 DEF Owes
  <2> QED BY <1>0, <2>2, <2>3
<1>3. IdleIsForgotten'
  BY <1>0 DEF SetBack, IdleIsForgotten
<1>4. ASSUME NEW k \in Keys
      PROVE  admitted[k] * PerToken + Level(k)' <= Full + elapsed
  <2> DEFINE m == admitted[k] * PerToken
  <2>1. m \in Nat /\ m + Level(k) <= Full + elapsed
    BY <1>0 DEF TypeOK, Accounted
  <2>2. Level(k) \in Int /\ Level(k)' \in Int /\ Level(k)' <= Level(k)
    BY <1>0, LevelType, SetBackLevels DEF SetBack
  <2> HIDE DEF m
  <2>3. m + Level(k)' <= Full + elapsed
    BY <1>0, <2>1, <2>2, FullNat
  <2> QED BY <2>3 DEF m
<1>5. UNCHANGED <<admitted, elapsed>> /\ Full' = Full
  BY DEF SetBack, observer, Full
<1>6. Accounted' /\ WindowIsBounded'
  BY <1>0, <1>4, <1>5 DEF Accounted, WindowIsBounded
<1> QED BY <1>1, <1>2, <1>3, <1>6 DEF IInv

(* The account balances whenever the observer starts counting. *)
LEMMA ObserveIInv ==
  ASSUME IInv, Observe
  PROVE  IInv'
<1>0. TypeOK /\ Owes /\ IdleIsForgotten /\ PerToken \in Nat \ {0}
  BY LimiterAssumption DEF IInv, LimiterAssumption
<1>1. TypeOK'
  BY <1>0 DEF Observe, NoCalls, TypeOK, Full, Bucket
<1>2. Owes' /\ IdleIsForgotten'
  BY <1>0 DEF Observe, Owes, IdleIsForgotten
<1>3. \A k \in Keys : Level(k)' = Level(k)
  BY DEF Observe, Level, Refilled, Full
<1>4. \A k \in Keys : admitted'[k] = 0
  BY DEF Observe, NoCalls
<1>5. elapsed' = 0 /\ 0 * PerToken = 0
  BY <1>0 DEF Observe
<1>6. Accounted' /\ WindowIsBounded'
  BY <1>0, <1>3, <1>4, <1>5, FullNat, LevelType DEF Accounted, WindowIsBounded, Full
<1> QED BY <1>1, <1>2, <1>6 DEF IInv

(* Nothing changes when nothing happens. *)
LEMMA StutterIInv ==
  ASSUME IInv, UNCHANGED vars
  PROVE  IInv'
BY DEF vars, observer, IInv, TypeOK, Owes, IdleIsForgotten, Accounted, WindowIsBounded,
       Level, Refilled, Full, Bucket

(* The invariant is inductive. *)
LEMMA NextIInv == IInv /\ [Next]_vars => IInv'
<1> SUFFICES ASSUME IInv, [Next]_vars PROVE IInv'
  OBVIOUS
<1>1. ASSUME NEW k \in Keys, Consume(k) PROVE IInv'
  BY <1>1, ConsumeIInv
<1>2. CASE Tick           BY <1>2, TickIInv
<1>3. CASE SetBack        BY <1>3, SetBackIInv
<1>4. CASE Observe        BY <1>4, ObserveIInv
<1>5. CASE UNCHANGED vars BY <1>5, StutterIInv
<1> QED BY <1>1, <1>2, <1>3, <1>4, <1>5 DEF Next

(* The map stays well-typed and swept, and the account of every key balances. *)
THEOREM LimiterInvariant == Spec => []IInv
BY InitIInv, NextIInv, PTL DEF Spec

(* consume() keeps #buckets well-typed, no bucket above its capacity. *)
THEOREM LimiterTypeCorrect == Spec => []TypeOK
<1>1. IInv => TypeOK
  BY DEF IInv
<1> QED BY <1>1, LimiterInvariant, PTL

(* In no window is a key admitted more than its burst plus what the time restores. *)
THEOREM AdmissionIsBounded == Spec => []WindowIsBounded
<1>1. IInv => WindowIsBounded
  BY DEF IInv
<1> QED BY <1>1, LimiterInvariant, PTL

(* After each call no tracked bucket has idled past its TTL. *)
THEOREM MapIsSwept == Spec => []IdleIsForgotten
<1>1. IInv => IdleIsForgotten
  BY DEF IInv
<1> QED BY <1>1, LimiterInvariant, PTL

-----------------------------------------------------------------------------
(* The refinement: what a caller sees is a bucket that is never forgotten. *)

(* A new limiter shows every key a full bucket. *)
LEMMA InitBucketed == Init => Bucketed!Init
<1> SUFFICES ASSUME Init PROVE Bucketed!Init
  OBVIOUS
<1>1. \A k \in Keys : Level(k) = Full
  BY DEF Init, Level
<1>2. [k \in Keys |-> Level(k)] = [k \in Keys |-> Full]
  BY <1>1
<1> QED BY <1>2 DEF Init, NoCalls, Bucketed!Init, Bucketed!Start, Bucketed!Full, Full

(* A call is an admission from, or a refusal by, the bucket that is never forgotten. *)
LEMMA ConsumeBucketed ==
  ASSUME IInv, NEW k \in Keys, Consume(k)
  PROVE  Bucketed!Admit(k) \/ Bucketed!Refuse(k)
<1> DEFINE lv == [j \in Keys |-> Level(j)]
           lvNext == [j \in Keys |-> Level(j)']
<1>1. lv[k] = Level(k)
  OBVIOUS
<1>2. CASE /\ Level(k) >= PerToken /\ Level(k)' = Level(k) - PerToken
           /\ admitted' = [admitted EXCEPT ![k] = @ + 1]
           /\ refused' = refused
  <2>1. lvNext = [lv EXCEPT ![k] = lv[k] - PerToken]
    BY <1>2, ConsumeCases
  <2>2. elapsed' = elapsed
    BY ConsumeCases
  <2> QED BY <1>1, <1>2, <2>1, <2>2 DEF Bucketed!Admit
<1>3. CASE /\ Level(k) < PerToken /\ Level(k)' = Level(k)
           /\ refused' = [refused EXCEPT ![k] = @ + 1]
           /\ admitted' = admitted
  <2>1. lvNext = lv
    BY <1>3, ConsumeCases
  <2>2. elapsed' = elapsed
    BY ConsumeCases
  <2> QED BY <1>1, <1>3, <2>1, <2>2 DEF Bucketed!Refuse
<1> QED BY <1>2, <1>3, ConsumeCases

(* Every step is a step of the bucket that is never forgotten, or none. *)
LEMMA NextBucketed == IInv /\ [Next]_vars => [Bucketed!Next]_(Bucketed!bucketVars)
<1> SUFFICES ASSUME IInv, [Next]_vars PROVE [Bucketed!Next]_(Bucketed!bucketVars)
  OBVIOUS
<1>0. TypeOK
  BY DEF IInv
<1>1. ASSUME NEW k \in Keys, Consume(k) PROVE Bucketed!Next
  BY <1>1, ConsumeBucketed DEF Bucketed!Next
<1>2. CASE Tick
  <2>1. \A k \in Keys : Level(k)' = Bucketed!Capped(Level(k) + 1)
    BY <1>0, <1>2, TickLevels DEF Tick, Bucketed!Capped, Bucketed!Full, Full
  <2>2. Bucketed!Refill
    BY <1>2, <2>1 DEF Tick, Bucketed!Refill
  <2> QED BY <2>2 DEF Bucketed!Next
<1>3. CASE SetBack
  <2>1. \A k \in Keys : /\ Level(k)' \in Int
                        /\ Level(k) - 1 <= Level(k)' /\ Level(k)' <= Level(k)
    BY <1>0, <1>3, SetBackLevels DEF SetBack
  <2>2. Bucketed!Lapse
    BY <1>3, <2>1 DEF SetBack, observer, Bucketed!Lapse
  <2> QED BY <2>2 DEF Bucketed!Next
<1>4. CASE Observe
  <2>1. \A k \in Keys : Level(k)' = Level(k)
    BY <1>4 DEF Observe, Level, Refilled, Full
  <2>2. Bucketed!Observe
    BY <1>4, <2>1 DEF Observe, NoCalls, Bucketed!Observe
  <2> QED BY <2>2 DEF Bucketed!Next
<1>5. CASE UNCHANGED vars
  <2>1. \A k \in Keys : Level(k)' = Level(k)
    BY <1>5 DEF vars, Level, Refilled, Full
  <2> QED BY <1>5, <2>1 DEF vars, observer, Bucketed!bucketVars
<1> QED BY <1>1, <1>2, <1>3, <1>4, <1>5 DEF Next

(* Every verdict of the lazy, swept map is the verdict of a bucket that refills    *)
(* all the time and is never forgotten.                                            *)
THEOREM LimiterImplementsBucket == Spec => BucketSpec
BY InitBucketed, NextBucketed, LimiterInvariant, PTL DEF Spec, BucketSpec, Bucketed!Spec

-----------------------------------------------------------------------------
(* The endpoints use the limiter as it is specified: whatever a request goes on to *)
(* do, its call of the limiter is one of RateLimiter's steps, and what is proved   *)
(* of the limiter alone holds of the endpoints.                                    *)

(* Every step of the endpoints is a step of the limiter or leaves it alone: a      *)
(* request without a site header, and every flush, never reach it.                 *)
THEOREM CollectUsesLimiter == CollectSpec => Spec
<1>1. CollectInit => Init
  BY DEF CollectInit
<1>2. [CollectNext]_<<vars, collectVars>> => [Next]_vars
  <2> SUFFICES ASSUME [CollectNext]_<<vars, collectVars>> PROVE [Next]_vars
    OBVIOUS
  <2>collect. ASSUME NEW v \in Visits, Collect(v) PROVE [Next]_vars
    <3> DEFINE request == Request(v)
    <3>1. CASE UNCHANGED vars
      BY <3>1
    <3>2. CASE resolveSiteHeader(request) # NULL /\ Consume(Key(request))
      <4>1. Key(request) \in Keys
        BY <3>2, CollectAssumption
      <4>2. Next
        BY <3>2, <4>1 DEF Next
      <4> QED BY <4>2
    <3> QED BY <2>collect, <3>1, <3>2 DEF Collect
  <2>flush. CASE Flush
    BY <2>flush DEF Flush
  <2>clock. CASE Tick \/ SetBack \/ Observe
    BY <2>clock DEF Next
  <2>stutter. CASE UNCHANGED <<vars, collectVars>>
    BY <2>stutter
  <2> QED BY <2>collect, <2>flush, <2>clock, <2>stutter DEF CollectNext
<1> QED BY <1>1, <1>2, PTL DEF CollectSpec, Spec

(* The two collect endpoints together never let a key have more than its burst and *)
(* what time restores, forget idle keys, and answer every call as a bucket that is *)
(* never forgotten would.                                                          *)
THEOREM CollectIsLimited ==
  CollectSpec => [](WindowIsBounded /\ IdleIsForgotten) /\ BucketSpec
BY CollectUsesLimiter, AdmissionIsBounded, MapIsSwept, LimiterImplementsBucket, PTL

-----------------------------------------------------------------------------
(* What becomes of a visit, whatever the limiter says. *)

\* The visits whose site the server is told.
Told == {v \in Visits : resolveSiteHeader(Request(v)) # NULL}

EventOf(v) == TrackedEvent(RecordEventInput(Request(v)))
SiteOf(v) == [host |-> v.page.host, www |-> 0]
Events == {EventOf(v) : v \in Measured \cap Told}

\* Whatever is left out of a header, it names the host of the page.
LEMMA HeaderOfVisit ==
  ASSUME NEW v \in Told
  PROVE  LET header == resolveSiteHeader(Request(v)) IN
         /\ header.host = v.page.host /\ header.www = v.page.www
         /\ header.path = IF v.via = "pixel" /\ v.policy = "full" THEN v.page.path ELSE Home
<1>1. /\ v.via \in {"beacon", "pixel"} /\ v.policy \in {"none", "origin", "full"}
      /\ v.page \in [host : {v.page.host}, www : Nat, dot : BOOLEAN, path : {v.page.path}]
      /\ NULL \notin {v.page, Origin(v.page)}
  BY VisitsAssumption DEF Told
<1>2. /\ Origin(v.page).host = v.page.host /\ Origin(v.page).www = v.page.www
      /\ Origin(v.page).path = Home
  BY <1>1 DEF Origin
<1>3. resolveSiteHeader(Request(v)) # NULL
  BY DEF Told
<1>4. /\ Request(v).origin = IF v.via = "beacon" THEN Origin(v.page) ELSE NULL
      /\ v.policy = "none" => Request(v).referer = NULL
      /\ v.policy = "origin" => Request(v).referer = Origin(v.page)
      /\ v.policy = "full" => Request(v).referer = v.page
  BY DEF Request
<1>5. CASE v.via = "beacon"
  BY <1>1, <1>2, <1>4, <1>5 DEF resolveSiteHeader
<1>6. CASE v.via = "pixel"
  BY <1>1, <1>2, <1>3, <1>4, <1>6 DEF resolveSiteHeader
<1> QED BY <1>1, <1>5, <1>6

\* What the routes make of a visit: its own client, and a page view for a pixel.
LEMMA InputOfVisit ==
  ASSUME NEW v \in Told
  PROVE  LET input == RecordEventInput(Request(v)) IN
         /\ input.site = resolveSiteHeader(Request(v)) /\ input.ip = v.client
         /\ input.type = IF v.via = "pixel" THEN "pageview" ELSE v.type
         /\ input.path = IF v.via = "pixel" /\ v.policy = "origin" THEN Home ELSE v.page.path
         /\ v.via = "beacon" => input.referrer = v.from
<1>1. /\ v.via \in {"beacon", "pixel"} /\ v.policy \in {"none", "origin", "full"}
      /\ v.page \in [host : {v.page.host}, www : Nat, dot : BOOLEAN, path : {v.page.path}]
      /\ NULL \notin {v.page, Origin(v.page), Body(v)} /\ v.client # NULL
  BY VisitsAssumption DEF Told
<1>2. resolveSiteHeader(Request(v)) # NULL /\ TrustedProxy \in BOOLEAN
  BY SitesAssumption DEF Told
<1>3. /\ Request(v).origin = IF v.via = "beacon" THEN Origin(v.page) ELSE NULL
      /\ Request(v).body = IF v.via = "beacon" THEN Body(v) ELSE NULL
      /\ v.policy = "none" => Request(v).referer = NULL
      /\ v.policy = "origin" => Request(v).referer = Origin(v.page)
      /\ v.policy = "full" => Request(v).referer = v.page
  BY DEF Request
<1>4. resolveClientIp(Request(v)) = v.client
  BY <1>1, <1>2 DEF resolveClientIp, Request
<1>5. Body(v).type = v.type /\ Body(v).path = v.page.path /\ Body(v).referrer = v.from
  BY DEF Body
<1>6. Origin(v.page).path = Home
  BY <1>1 DEF Origin
<1>7. CASE v.via = "beacon"
  BY <1>1, <1>3, <1>4, <1>5, <1>7 DEF RecordEventInput
<1>8. CASE v.via = "pixel"
  <2>1. v.policy # "none"
    BY <1>2, <1>3, <1>8 DEF resolveSiteHeader
  <2> QED BY <1>1, <1>3, <1>4, <1>6, <1>8, <2>1 DEF RecordEventInput, pathFromReferer
<1> QED BY <1>1, <1>7, <1>8

\* The configured sites, however they are spelt, without "www.".
LEMMA AllowedSites ==
  ASSUME NEW site
  PROVE  site \in allowedSites <=>
           /\ site # NULL
           /\ \E s \in Sites : /\ s.host \notin IpLiterals /\ [host |-> s.host, www |-> 0] # NULL
                               /\ site = [host |-> s.host, www |-> 0]
<1>1. ASSUME NEW s \in Sites, s.host \notin IpLiterals
      PROVE  createSiteId(s) = [host |-> s.host, www |-> 0]
  BY <1>1, SitesAssumption DEF createSiteId, StripWww
<1>2. ASSUME NEW s \in Sites, s.host \in IpLiterals
      PROVE  createSiteId(s) = NULL
  BY <1>2 DEF createSiteId
<1>3. ASSUME NEW s \in Sites, s.host \notin IpLiterals
      PROVE  createSiteId(SiteAddress([host |-> s.host, www |-> 0])) = [host |-> s.host, www |-> 0]
  BY <1>3, SitesAssumption DEF createSiteId, SiteAddress, StripWww
<1>4. \A id \in parseSites :
        \E s \in Sites : s.host \notin IpLiterals /\ id = [host |-> s.host, www |-> 0] /\ id # NULL
  BY <1>1, <1>2 DEF parseSites
<1>5. ASSUME NEW s \in Sites, s.host \notin IpLiterals, [host |-> s.host, www |-> 0] # NULL
      PROVE  [host |-> s.host, www |-> 0] \in parseSites
  BY <1>1, <1>5 DEF parseSites
<1>6. ASSUME site \in allowedSites
      PROVE  /\ site # NULL
             /\ \E s \in Sites : /\ s.host \notin IpLiterals /\ [host |-> s.host, www |-> 0] # NULL
                                 /\ site = [host |-> s.host, www |-> 0]
  <2>1. PICK id \in parseSites : site = createSiteId(SiteAddress(id)) /\ site # NULL
    BY <1>6 DEF allowedSites
  <2> QED BY <1>3, <1>4, <2>1
<1>7. ASSUME NEW s \in Sites, s.host \notin IpLiterals, [host |-> s.host, www |-> 0] # NULL
      PROVE  [host |-> s.host, www |-> 0] \in allowedSites
  BY <1>3, <1>5, <1>7 DEF allowedSites
<1> QED BY <1>6, <1>7

\* The site of a visit is an allowed one exactly when its page is on a listed site.
LEMMA SiteOfVisit ==
  ASSUME NEW v \in Told
  PROVE  LET site == createSiteId(resolveSiteHeader(Request(v))) IN
         /\ site \in allowedSites <=>
              /\ \E s \in Sites : SameSite(s, v.page)
              /\ v.page.host \notin IpLiterals
              /\ v.via = "pixel" /\ v.policy = "full" => v.page.path \notin DottedPaths
         /\ site \in allowedSites => site = SiteOf(v) /\ v.page.www \in {0, 1}
<1> DEFINE header == resolveSiteHeader(Request(v))
           site == createSiteId(header)
           dotted == v.via = "pixel" /\ v.policy = "full" /\ v.page.path \in DottedPaths
<1>1. /\ header.host = v.page.host /\ header.www = v.page.www
      /\ header.path = IF v.via = "pixel" /\ v.policy = "full" THEN v.page.path ELSE Home
  BY HeaderOfVisit
<1>2. v.page.www \in Nat /\ SiteOf(v) # NULL
  BY VisitsAssumption DEF Told, SiteOf
<1>3. Home \notin DottedPaths /\ \A s \in Sites : s.www \in {0, 1}
  BY SitesAssumption
<1>4. site = IF dotted \/ v.page.host \in IpLiterals THEN NULL
             ELSE [host |-> v.page.host, www |-> StripWww(v.page.www)]
  <2> HIDE DEF header
  <2> QED BY <1>1, <1>3 DEF createSiteId
<1>5. StripWww(v.page.www) = 0 <=> v.page.www \in {0, 1}
  BY <1>2 DEF StripWww
<1>6. ASSUME site \in allowedSites
      PROVE  /\ \E s \in Sites : SameSite(s, v.page)
             /\ v.page.host \notin IpLiterals /\ ~ dotted
             /\ site = SiteOf(v) /\ v.page.www \in {0, 1}
  <2>1. PICK s \in Sites : site = [host |-> s.host, www |-> 0] /\ site # NULL
    <3> HIDE DEF site
    <3> QED BY <1>6, AllowedSites
  <2>2. ~ dotted /\ v.page.host \notin IpLiterals
    BY <1>4, <2>1
  <2>3. site = [host |-> v.page.host, www |-> StripWww(v.page.www)]
    BY <1>4, <2>2
  <2>4. s.host = v.page.host /\ StripWww(v.page.www) = 0
    <3> HIDE DEF site
    <3>1. site.host = s.host /\ site.www = 0
      BY <2>1
    <3>2. site.host = v.page.host /\ site.www = StripWww(v.page.www)
      BY <2>3
    <3> QED BY <3>1, <3>2
  <2> HIDE DEF site, dotted
  <2> QED BY <1>3, <1>5, <2>2, <2>3, <2>4 DEF SameSite, SiteOf
<1>7. ASSUME NEW s \in Sites, SameSite(s, v.page), v.page.host \notin IpLiterals, ~ dotted
      PROVE  site \in allowedSites
  <2>1. site = SiteOf(v) /\ s.host = v.page.host
    BY <1>4, <1>5, <1>7 DEF SameSite, SiteOf
  <2> HIDE DEF site
  <2> QED BY <1>2, <1>7, <2>1, AllowedSites DEF SiteOf
<1>8. /\ site \in allowedSites <=>
           /\ \E s \in Sites : SameSite(s, v.page)
           /\ v.page.host \notin IpLiterals
           /\ ~ dotted
      /\ site \in allowedSites => site = SiteOf(v) /\ v.page.www \in {0, 1}
  <2> HIDE DEF site, dotted
  <2> QED BY <1>6, <1>7
<1> QED BY <1>8

\* A measured visit is recorded as one event, any other as none.
LEMMA RecordedVisit ==
  ASSUME NEW v \in Told
  PROVE  Recorded(Request(v)) = IF v \in Measured THEN <<EventOf(v)>> ELSE <<>>
<1> DEFINE input == RecordEventInput(Request(v))
           site == createSiteId(resolveSiteHeader(Request(v)))
<1>1. v \in Visits /\ v.via \in {"beacon", "pixel"} /\ NULL \notin EventTypes
  BY VisitsAssumption DEF Told
<1>2. input.site = resolveSiteHeader(Request(v))
  BY InputOfVisit
<1>3. input.type = IF v.via = "pixel" THEN "pageview" ELSE v.type
  BY InputOfVisit
<1>4. site \in allowedSites <=>
        /\ \E s \in Sites : SameSite(s, v.page)
        /\ v.page.host \notin IpLiterals
        /\ v.via = "pixel" /\ v.policy = "full" => v.page.path \notin DottedPaths
  BY SiteOfVisit
<1>5. input.type \in EventTypes <=> (v.via = "beacon" => v.type \in EventTypes)
  <2> HIDE DEF input
  <2> QED BY <1>1, <1>3 DEF EventTypes
<1>6. (input.type # NULL /\ site \in allowedSites /\ input.type \in EventTypes) <=> v \in Measured
  <2> HIDE DEF input, site
  <2> QED BY <1>1, <1>4, <1>5 DEF Measured, IsMeasured
<1>7. Recorded(Request(v)) =
        IF input.type # NULL /\ site \in allowedSites /\ input.type \in EventTypes
        THEN <<EventOf(v)>> ELSE <<>>
  BY <1>2 DEF Recorded, EventOf
<1> HIDE DEF input, site
<1> QED BY <1>6, <1>7
\* Two tables that fit: a site has one row and some event, an event its own site.
Tables ==
  {db \in [sites : Seq(allowedSites), rows : Seq([site : Nat, event : Events])] :
     /\ \A m, n \in DOMAIN db.sites : db.sites[m] = db.sites[n] => m = n
     /\ \A i \in DOMAIN db.rows : /\ db.rows[i].site \in DOMAIN db.sites
                                  /\ db.sites[db.rows[i].site] = db.rows[i].event.site
     /\ \A n \in DOMAIN db.sites : \E i \in DOMAIN db.rows : db.rows[i].site = n}

\* What waits for a flush is what the measured of the heard visits became.
CollectIInv ==
  /\ heard \in Seq(Told)
  /\ LET measured == SelectIn(heard, Measured) IN
     /\ pending \in Seq(Events) /\ Len(pending) = Len(measured)
     /\ \A i \in DOMAIN pending : pending[i] = EventOf(measured[i])
  /\ [sites |-> sites, rows |-> rows] \in Tables

\* A measured visit's event: its own client, site and path, and where it came from.
LEMMA EventOfVisit ==
  ASSUME NEW v \in Measured \cap Told
  PROVE  LET event == EventOf(v) IN
         /\ event.site = SiteOf(v) /\ SiteOf(v) \in allowedSites /\ v.page.www \in {0, 1}
         /\ event.visitor = <<event.site, v.client>>
         /\ event.path = IF v.via = "pixel" /\ v.policy = "origin" THEN Home ELSE v.page.path
         /\ event.type = IF v.via = "pixel" THEN "pageview" ELSE v.type
         /\ v.via = "beacon" /\ v.from # NULL /\ v.page.path \notin DOMAIN Campaigns =>
              (event.source.kind = "internal" <=> SameSite(v.page, v.from) /\ ~ v.from.dot)
<1> DEFINE input == RecordEventInput(Request(v))
           event == EventOf(v)
<1>1. /\ input.site = resolveSiteHeader(Request(v)) /\ input.ip = v.client
      /\ input.type = IF v.via = "pixel" THEN "pageview" ELSE v.type
      /\ input.path = IF v.via = "pixel" /\ v.policy = "origin" THEN Home ELSE v.page.path
      /\ v.via = "beacon" => input.referrer = v.from
  BY InputOfVisit
<1>2. createSiteId(input.site) = SiteOf(v) /\ SiteOf(v) \in allowedSites /\ v.page.www \in {0, 1}
  <2> DEFINE site == createSiteId(resolveSiteHeader(Request(v)))
  <2>1. /\ site \in allowedSites <=>
             /\ \E s \in Sites : SameSite(s, v.page)
             /\ v.page.host \notin IpLiterals
             /\ v.via = "pixel" /\ v.policy = "full" => v.page.path \notin DottedPaths
        /\ site \in allowedSites => site = SiteOf(v) /\ v.page.www \in {0, 1}
    BY SiteOfVisit
  <2>2. site \in allowedSites
    <3> HIDE DEF site
    <3> QED BY <2>1 DEF Measured, IsMeasured
  <2>3. createSiteId(input.site) = site
    BY <1>1
  <2> HIDE DEF site
  <2> QED BY <2>1, <2>2, <2>3
<1>3. /\ event.site = SiteOf(v) /\ event.visitor = <<SiteOf(v), input.ip>>
      /\ event.type = input.type /\ event.path = input.path
      /\ event.source = resolveReferrerSource(input.referrer, SiteOf(v), extractUtmSource(input.path))
  <2> HIDE DEF input
  <2>1. EventOf(v) = TrackedEvent(input)
    BY DEF EventOf, input
  <2> QED BY <1>2, <2>1 DEF TrackedEvent
<1>4. ASSUME v.via = "beacon", v.from # NULL, v.page.path \notin DOMAIN Campaigns
      PROVE  event.source.kind = "internal" <=> SameSite(v.page, v.from) /\ ~ v.from.dot
  <2>1. extractUtmSource(input.path) = NULL /\ input.referrer = v.from
    <3> HIDE DEF input
    <3> QED BY <1>1, <1>4 DEF extractUtmSource
  <2>2. v.from.www \in Nat
    BY <1>4, VisitsAssumption DEF Told
  <2>3. SiteOf(v).host = v.page.host /\ SiteOf(v).www = 0
    BY DEF SiteOf
  <2>4. event.source =
          IF v.from.host = v.page.host /\ StripWww(v.from.www) = 0 /\ ~ v.from.dot
          THEN Source("internal", NULL) ELSE classifyKnownHost(v.from)
    <3> HIDE DEF event
    <3> QED BY <1>3, <1>4, <2>1, <2>3 DEF resolveReferrerSource
  <2>5. StripWww(v.from.www) = 0 <=> v.from.www \in {0, 1}
    BY <2>2 DEF StripWww
  <2>6. classifyKnownHost(v.from).kind # "internal" /\ Source("internal", NULL).kind = "internal"
    BY DEF classifyKnownHost, Source
  <2> HIDE DEF event
  <2> QED BY <1>2, <2>4, <2>5, <2>6 DEF SameSite
<1> HIDE DEF input
<1>5. /\ event.site = SiteOf(v) /\ SiteOf(v) \in allowedSites /\ v.page.www \in {0, 1}
      /\ event.visitor = <<event.site, v.client>>
      /\ event.path = IF v.via = "pixel" /\ v.policy = "origin" THEN Home ELSE v.page.path
      /\ event.type = IF v.via = "pixel" THEN "pageview" ELSE v.type
  <2> HIDE DEF event
  <2> QED BY <1>1, <1>2, <1>3
<1> QED BY <1>4, <1>5

\* A visit that is given a token is heard, and its event waits for the next flush.
LEMMA CollectCollectIInv ==
  ASSUME CollectIInv, NEW v \in Visits, Collect(v)
  PROVE  CollectIInv'
<1> DEFINE request == Request(v)
           measured == SelectIn(heard, Measured)
<1>1. [sites |-> sites, rows |-> rows]' = [sites |-> sites, rows |-> rows]
  BY DEF Collect
<1>2. CASE UNCHANGED <<pending, heard>>
  BY <1>1, <1>2 DEF CollectIInv
<1>3. CASE /\ resolveSiteHeader(request) # NULL
           /\ pending' = pending \o Recorded(request) /\ heard' = Append(heard, v)
  <2>1. v \in Told /\ Recorded(request) = IF v \in Measured THEN <<EventOf(v)>> ELSE <<>>
    BY <1>3, RecordedVisit DEF Told
  <2>2. heard \in Seq(Told) /\ heard' \in Seq(Told)
    BY <1>3, <2>1 DEF CollectIInv
  <2>3. measured \in Seq(Told \cap Measured)
    BY <2>2, SelectInType
  <2>4. measured' = IF v \in Measured THEN Append(measured, v) ELSE measured
    BY <1>3, <2>1, <2>2, SelectInAppend
  <2>5. /\ pending \in Seq(Events) /\ Len(pending) = Len(measured)
        /\ \A i \in DOMAIN pending : pending[i] = EventOf(measured[i])
    BY DEF CollectIInv
  <2>6. CASE v \in Measured
    <3>1. EventOf(v) \in Events
      BY <2>1, <2>6 DEF Events
    <3>2. pending' = Append(pending, EventOf(v)) /\ measured' = Append(measured, v)
      BY <1>3, <2>1, <2>4, <2>5, <2>6, <3>1
    <3> HIDE DEF measured
    <3>3. /\ pending' \in Seq(Events) /\ Len(pending') = Len(measured')
          /\ \A i \in DOMAIN pending' : pending'[i] = EventOf(measured'[i])
      BY <2>3, <2>5, <3>1, <3>2
    <3> QED BY <1>1, <2>2, <3>3 DEF CollectIInv, measured
  <2>7. CASE v \notin Measured
    <3>1. pending' = pending /\ measured' = measured
      BY <1>3, <2>1, <2>4, <2>5, <2>7
    <3> QED BY <1>1, <2>2, <2>5, <3>1 DEF CollectIInv
  <2> QED BY <2>6, <2>7
<1> QED BY <1>2, <1>3 DEF Collect

\* A site's first event brings its row, any other finds it.
LEMMA InsertedKeeps ==
  ASSUME NEW db \in Tables, NEW event \in Events
  PROVE  Inserted(db, event) \in Tables
<1> DEFINE old == db.sites
           recs == db.rows
           table == Registered(old, event.site)
           id == CHOOSE n \in DOMAIN table : table[n] = event.site
           row == [site |-> id, event |-> event]
           all == Append(recs, row)
           next == [sites |-> table, rows |-> all]
<1>1. /\ old \in Seq(allowedSites) /\ recs \in Seq([site : Nat, event : Events])
      /\ \A m, n \in DOMAIN old : old[m] = old[n] => m = n
      /\ \A i \in DOMAIN recs : /\ recs[i].site \in DOMAIN old
                                /\ old[recs[i].site] = recs[i].event.site
      /\ \A n \in DOMAIN old : \E i \in DOMAIN recs : recs[i].site = n
  BY DEF Tables
<1>2. event.site \in allowedSites
  <2>1. PICK v \in Measured \cap Told : event = EventOf(v)
    BY DEF Events
  <2> QED BY <2>1, EventOfVisit
<1> HIDE DEF old, recs
<1>3. /\ table \in Seq(allowedSites)
      /\ \A n \in DOMAIN old : n \in DOMAIN table /\ table[n] = old[n]
      /\ \E n \in DOMAIN table : table[n] = event.site
      /\ \A n \in DOMAIN table : n \in DOMAIN old \/ table[n] = event.site
      /\ \A m, n \in DOMAIN table : table[m] = table[n] => m = n
  <2>1. CASE \E n \in DOMAIN old : old[n] = event.site
    <3>1. table = old
      BY <2>1 DEF Registered
    <3> HIDE DEF table
    <3> QED BY <1>1, <2>1, <3>1
  <2>2. CASE ~ \E n \in DOMAIN old : old[n] = event.site
    <3>1. table = Append(old, event.site)
      BY <2>2 DEF Registered
    <3> HIDE DEF table
    <3>2. /\ Len(old) \in Nat /\ DOMAIN old = 1..Len(old)
          /\ table \in Seq(allowedSites) /\ DOMAIN table = 1..(Len(old) + 1)
          /\ table[Len(old) + 1] = event.site
          /\ \A n \in DOMAIN old : n \in DOMAIN table /\ table[n] = old[n]
      BY <1>1, <1>2, <3>1, AppendedLast
    <3>3. \A n \in DOMAIN table : n \in DOMAIN old \/ n = Len(old) + 1
      BY <3>2
    <3>4. \A m, n \in DOMAIN table : table[m] = table[n] => m = n
      BY <1>1, <2>2, <3>2, <3>3
    <3> QED BY <3>2, <3>3, <3>4
  <2> QED BY <2>1, <2>2
<1> HIDE DEF table
<1>4. id \in DOMAIN table /\ table[id] = event.site /\ id \in Nat
  BY <1>3
<1> HIDE DEF id
<1>5. /\ row \in [site : Nat, event : Events] /\ row.site = id /\ row.event = event
      /\ all \in Seq([site : Nat, event : Events])
  BY <1>1, <1>4
<1> HIDE DEF row
<1>6. /\ Len(recs) \in Nat /\ DOMAIN recs = 1..Len(recs)
      /\ DOMAIN all = 1..(Len(recs) + 1) /\ all[Len(recs) + 1] = row
      /\ \A i \in DOMAIN recs : all[i] = recs[i]
  BY <1>1, <1>5, AppendedLast, SMTT(30)
<1> HIDE DEF all
<1>7. \A i \in DOMAIN all : all[i].site \in DOMAIN table /\ table[all[i].site] = all[i].event.site
  <2> SUFFICES ASSUME NEW i \in DOMAIN all
               PROVE  all[i].site \in DOMAIN table /\ table[all[i].site] = all[i].event.site
    OBVIOUS
  <2>1. CASE i \in DOMAIN recs
    <3>1. all[i] = recs[i] /\ recs[i].site \in DOMAIN old /\ old[recs[i].site] = recs[i].event.site
      BY <1>1, <1>6, <2>1
    <3>2. table[recs[i].site] = old[recs[i].site] /\ recs[i].site \in DOMAIN table
      BY <1>3, <3>1
    <3> QED BY <3>1, <3>2
  <2>2. CASE i = Len(recs) + 1
    BY <1>4, <1>5, <1>6, <2>2
  <2> QED BY <1>6, <2>1, <2>2
<1>8. \A n \in DOMAIN table : \E i \in DOMAIN all : all[i].site = n
  <2> SUFFICES ASSUME NEW n \in DOMAIN table PROVE \E i \in DOMAIN all : all[i].site = n
    OBVIOUS
  <2>1. CASE n \in DOMAIN old
    <3>1. PICK i \in DOMAIN recs : recs[i].site = n
      BY <1>1, <2>1
    <3> QED BY <1>6, <3>1
  <2>2. CASE table[n] = event.site
    <3>1. n = id
      BY <1>3, <1>4, <2>2
    <3> QED BY <1>5, <1>6, <3>1
  <2> QED BY <1>3, <2>1, <2>2
<1>9. /\ next \in [sites : Seq(allowedSites), rows : Seq([site : Nat, event : Events])]
      /\ next.sites = table /\ next.rows = all
  BY <1>3, <1>5
<1> HIDE DEF next
<1>10. /\ \A m, n \in DOMAIN next.sites : next.sites[m] = next.sites[n] => m = n
       /\ \A i \in DOMAIN next.rows : /\ next.rows[i].site \in DOMAIN next.sites
                                      /\ next.sites[next.rows[i].site] = next.rows[i].event.site
       /\ \A n \in DOMAIN next.sites : \E i \in DOMAIN next.rows : next.rows[i].site = n
  BY <1>3, <1>7, <1>8, <1>9
<1>11. next \in Tables
  BY <1>9, <1>10 DEF Tables
<1> QED BY <1>11 DEF Inserted, next, all, row, id, table, old, recs
\* Tables that fit still do after a batch of events, inserted one after the other.
LEMMA SavedKeeps ==
  ASSUME NEW base \in Tables, NEW s \in Seq(Events)
  PROVE  FoldLeft(Inserted, base, s) \in Tables
<1> DEFINE n == Len(s)
           step == [i \in 1..n |-> [db \in Tables |-> Inserted(db, s[i])]]
           Fold(g) == [S \in SUBSET (1..n) |->
                         IF S = {} THEN base ELSE Inserted(g[S \ {Max(S)}], s[Max(S)])]
           f == CHOOSE g : g = Fold(g)
           W == {i \in 0..n : f[1..i] \in Tables}
<1>1. n \in Nat /\ DOMAIN s = 1..n /\ \A i \in 1..n : s[i] \in Events
  OBVIOUS
<1>2. FoldLeft(Inserted, base, s) = f[1..n]
  BY <1>1 DEF FoldLeft, MapThenFoldSet
<1>3. \E g : g = Fold(g)
  <2>1. IsLeftFoldable(n, Tables, base, step)
    BY <1>1, InsertedKeeps DEF IsLeftFoldable
  <2>2. PICK g \in [SUBSET (1..n) -> Tables] : IsLeftFold(g, n, base, step)
    <3> HIDE DEF step, n
    <3> QED BY <2>1, FoldLeftExists
  <2>3. ASSUME NEW S \in SUBSET (1..n), S # {}
        PROVE  step[Max(S)][g[S \ {Max(S)}]] = Fold(g)[S]
    <3>1. Max(S) \in 1..n /\ g[S \ {Max(S)}] \in Tables
      BY <1>1, <2>2, <2>3, MaxOfIndices
    <3> QED BY <2>3, <3>1
  <2>4. g = Fold(g)
    <3> HIDE DEF step, n
    <3> QED BY <2>2, <2>3 DEF IsLeftFold
  <2> QED BY <2>4
<1>4. f = Fold(f)
  <2> HIDE DEF Fold
  <2> QED BY <1>3
<1>5. 0 \in W
  <2>1. f[{}] = base /\ 1..0 = {} /\ 0 \in 0..n
    <3> HIDE DEF f
    <3> QED BY <1>1, <1>4
  <2> HIDE DEF f
  <2> QED BY <2>1
<1>6. ASSUME NEW i \in 1..n, i - 1 \in W PROVE i \in W
  <2>1. /\ 1..i \in SUBSET (1..n) /\ 1..i # {} /\ i \in 0..n
        /\ Max(1..i) = i /\ (1..i) \ {i} = 1..(i - 1)
    BY <1>1, MaxOfIndices
  <2>2. f[1..i] = Inserted(f[1..(i - 1)], s[i])
    <3> HIDE DEF f, n
    <3> QED BY <1>4, <2>1
  <2>3. f[1..(i - 1)] \in Tables /\ s[i] \in Events
    BY <1>1, <1>6
  <2>4. f[1..i] \in Tables
    <3> HIDE DEF f
    <3> QED BY <2>2, <2>3, InsertedKeeps
  <2> QED BY <2>1, <2>4
<1>7. n \in W
  <2> HIDE DEF W, n
  <2>1. 0..n \subseteq W
    BY <1>1, <1>5, <1>6, PrefixInduction
  <2> QED BY <1>1, <2>1
<1> QED BY <1>2, <1>7

\* A flush empties what waits, and stores the batch or leaves the tables alone.
LEMMA FlushCollectIInv ==
  ASSUME CollectIInv, Flush
  PROVE  CollectIInv'
<1>1. /\ heard' = <<>> /\ pending' = <<>> /\ SelectIn(<<>>, Measured) = <<>>
      /\ <<>> \in Seq(Told) /\ <<>> \in Seq(Events)
  BY SelectInEmpty DEF Flush
<1>2. [sites |-> sites, rows |-> rows]' \in Tables
  <2>1. CASE sites' = saveBatch.sites /\ rows' = saveBatch.rows
    <3>1. saveBatch \in Tables
      BY SavedKeeps DEF CollectIInv, saveBatch
    <3>2. saveBatch = [sites |-> saveBatch.sites, rows |-> saveBatch.rows]
      <4> HIDE DEF saveBatch
      <4> QED BY <3>1 DEF Tables
    <3> QED BY <2>1, <3>1, <3>2
  <2>2. CASE UNCHANGED <<sites, rows>>
    BY <2>2 DEF CollectIInv
  <2> QED BY <2>1, <2>2 DEF Flush, RolledBack
<1> QED BY <1>1, <1>2 DEF CollectIInv

\* Nothing is heard at the start.
LEMMA InitCollectIInv == CollectInit => CollectIInv
<1> SUFFICES ASSUME CollectInit PROVE CollectIInv
  OBVIOUS
<1>1. /\ heard = <<>> /\ pending = <<>> /\ sites = <<>> /\ rows = <<>>
      /\ SelectIn(<<>>, Measured) = <<>>
  BY SelectInEmpty DEF CollectInit
<1>2. [sites |-> <<>>, rows |-> <<>>] \in Tables
  BY DEF Tables
<1> QED BY <1>1, <1>2 DEF CollectIInv

(* The invariant behind the three properties, for any visits and listed sites: the *)
(* events that wait are those of the measured visits, in order, and the tables fit.*)
THEOREM CollectInvariant == CollectSpec => []CollectIInv
<1>1. CollectIInv /\ [CollectNext]_<<vars, collectVars>> => CollectIInv'
  <2> SUFFICES ASSUME CollectIInv, [CollectNext]_<<vars, collectVars>> PROVE CollectIInv'
    OBVIOUS
  <2>1. ASSUME NEW v \in Visits, Collect(v) PROVE CollectIInv'
    BY <2>1, CollectCollectIInv
  <2>2. CASE Flush
    BY <2>2, FlushCollectIInv
  <2>3. CASE UNCHANGED collectVars
    BY <2>3 DEF collectVars, CollectIInv
  <2> QED BY <2>1, <2>2, <2>3 DEF CollectNext
<1> QED BY <1>1, InitCollectIInv, PTL DEF CollectSpec

(* Exactly the visits that are given a token and are on a listed site are recorded,*)
(* once and in order, each with its own client, site and path.                     *)
THEOREM VisitsRecorded == CollectSpec => []VisitsAreRecorded
<1>1. CollectIInv => VisitsAreRecorded
  <2> SUFFICES ASSUME CollectIInv PROVE VisitsAreRecorded
    OBVIOUS
  <2> DEFINE measured == SelectIn(heard, Measured)
  <2>1. measured \in Seq(Told \cap Measured)
    BY SelectInType DEF CollectIInv
  <2>2. /\ pending \in Seq(Events) /\ Len(pending) = Len(measured)
        /\ \A i \in DOMAIN pending : pending[i] = EventOf(measured[i])
    BY DEF CollectIInv
  <2> HIDE DEF measured
  <2>3. ASSUME NEW i \in DOMAIN pending
        PROVE  /\ pending[i].visitor = <<pending[i].site, measured[i].client>>
               /\ SameSite(measured[i].page, pending[i].site) /\ pending[i].site.www = 0
               /\ pending[i].path = IF measured[i].via = "pixel" /\ measured[i].policy = "origin"
                                    THEN Home ELSE measured[i].page.path
               /\ pending[i].type = IF measured[i].via = "pixel" THEN "pageview"
                                    ELSE measured[i].type
    <3>1. measured[i] \in Measured \cap Told
      BY <2>1, <2>2
    <3> DEFINE v == measured[i]
    <3> HIDE DEF v
    <3>2. /\ EventOf(v).site = SiteOf(v) /\ v.page.www \in {0, 1}
          /\ EventOf(v).visitor = <<EventOf(v).site, v.client>>
          /\ EventOf(v).path = IF v.via = "pixel" /\ v.policy = "origin" THEN Home ELSE v.page.path
          /\ EventOf(v).type = IF v.via = "pixel" THEN "pageview" ELSE v.type
      BY <3>1, EventOfVisit DEF v
    <3>3. SameSite(v.page, SiteOf(v)) /\ SiteOf(v).www = 0
      BY <3>2 DEF SameSite, SiteOf
    <3>4. pending[i] = EventOf(v)
      BY <2>2 DEF v
    <3>5. /\ pending[i].visitor = <<pending[i].site, v.client>>
          /\ SameSite(v.page, pending[i].site) /\ pending[i].site.www = 0
          /\ pending[i].path = IF v.via = "pixel" /\ v.policy = "origin" THEN Home ELSE v.page.path
          /\ pending[i].type = IF v.via = "pixel" THEN "pageview" ELSE v.type
      BY <3>2, <3>3, <3>4
    <3> QED BY <3>5 DEF v
  <2> QED BY <2>2, <2>3 DEF VisitsAreRecorded, measured
<1> QED BY <1>1, CollectInvariant, PTL

(* Clicks within a site are internal under whatever mix of "www." and bare names,  *)
(* and no others are.                                                              *)
THEOREM OwnPagesInternal == CollectSpec => []OwnPagesAreInternal
<1>1. CollectIInv => OwnPagesAreInternal
  <2> SUFFICES ASSUME CollectIInv PROVE OwnPagesAreInternal
    OBVIOUS
  <2> DEFINE measured == SelectIn(heard, Measured)
  <2>1. measured \in Seq(Told \cap Measured)
    BY SelectInType DEF CollectIInv
  <2>2. /\ pending \in Seq(Events) /\ Len(pending) = Len(measured)
        /\ \A i \in DOMAIN pending : pending[i] = EventOf(measured[i])
    BY DEF CollectIInv
  <2> HIDE DEF measured
  <2>3. ASSUME NEW i \in DOMAIN pending, NEW v, v = measured[i],
               v.via = "beacon" /\ v.from # NULL /\ v.page.path \notin DOMAIN Campaigns
        PROVE  pending[i].source.kind = "internal" <=> SameSite(v.page, v.from) /\ ~ v.from.dot
    <3>1. v \in Measured \cap Told /\ pending[i] = EventOf(v)
      BY <2>1, <2>2, <2>3
    <3> QED BY <2>3, <3>1, EventOfVisit
  <2> QED BY <2>3 DEF OwnPagesAreInternal, measured
<1> QED BY <1>1, CollectInvariant, PTL

(* A site has one row, an event its own site, and no site is without an event,     *)
(* whatever batches fail.                                                          *)
THEOREM SitesMatch == CollectSpec => []SitesMatchEvents
<1>1. CollectIInv => SitesMatchEvents
  <2> SUFFICES ASSUME CollectIInv PROVE SitesMatchEvents
    OBVIOUS
  <2> DEFINE db == [sites |-> sites, rows |-> rows]
  <2>1. db.sites = sites /\ db.rows = rows
    OBVIOUS
  <2>2. db \in Tables
    BY DEF CollectIInv
  <2> HIDE DEF db
  <2>3. /\ \A m, n \in DOMAIN db.sites : db.sites[m] = db.sites[n] => m = n
        /\ \A i \in DOMAIN db.rows : db.sites[db.rows[i].site] = db.rows[i].event.site
        /\ \A n \in DOMAIN db.sites : \E i \in DOMAIN db.rows : db.rows[i].site = n
    BY <2>2 DEF Tables
  <2> QED BY <2>1, <2>3 DEF SitesMatchEvents
<1> QED BY <1>1, CollectInvariant, PTL
=============================================================================
