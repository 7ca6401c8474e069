------------------------------- MODULE RateLimiter -------------------------------
(* TokenBucketRateLimiter: the map of buckets that the collect routes and the two  *)
(* login routes consult before they do any work.  A bucket is refilled only when   *)
(* its key calls, and a call first sweeps out the buckets that have idled longer   *)
(* than the TTL.  consume() is synchronous, so a call is one step; the clock is    *)
(* Date.now(), which may be set back.  Tokens are counted in ticks of refill:      *)
(* PerToken ticks earn one (the code's 1 / refillPerMs).                           *)
EXTENDS Integers

CONSTANTS Keys,      \* (site, hash of the ip) pairs
          Capacity,  \* burst size, in tokens
          PerToken,  \* ticks that restore one token
          Ttl,       \* ticks an idle bucket survives
          MaxBack    \* how far the clock may be set back, in all

CONSTANTS MaxNow, MaxCalls  \* bounds

\* The shipped limiters refill in one minute and keep a bucket for ten: an idle bucket
\* is full again, by a margin of nine minutes of clock set-backs, before it is swept.
ASSUME LimiterAssumption ==
  /\ Capacity \in Nat /\ PerToken \in Nat \ {0} /\ Ttl \in Nat /\ MaxBack \in Nat
  /\ MaxNow \in Nat /\ MaxCalls \in Nat
  /\ Ttl >= Capacity * PerToken + MaxBack

VARIABLES
  buckets,   \* #buckets: only the keys it tracks
  now,       \* the clock
  back,      \* how far the clock has been set back (history)
  sweptAt,   \* the reading of the clock at the latest call (history)
  admitted,  \* calls allowed, refused and time passed in the observed window (history)
  refused,
  elapsed

observer == <<admitted, refused, elapsed>>
vars == <<buckets, now, back, sweptAt, admitted, refused, elapsed>>

Full == Capacity * PerToken
Bucket == [tokens : Int, lastRefillMs : Int, lastAccessMs : Int]

\* A bucket that holds more than the capacity would admit a longer burst.
TypeOK ==
  /\ DOMAIN buckets \subseteq Keys /\ buckets \in [DOMAIN buckets -> Bucket]
  /\ \A k \in DOMAIN buckets : buckets[k].tokens <= Full
  /\ now \in Int /\ sweptAt \in Int /\ back \in 0..MaxBack
  /\ admitted \in [Keys -> Nat] /\ refused \in [Keys -> Nat] /\ elapsed \in Nat

Fresh == [tokens |-> Full, lastRefillMs |-> now, lastAccessMs |-> now]
NoCalls == [k \in Keys |-> 0]

Init ==
  /\ buckets = [k \in {} |-> Fresh] /\ now = 0 /\ back = 0 /\ sweptAt = 0
  /\ admitted = NoCalls /\ refused = NoCalls /\ elapsed = 0

\* Deliberate fault: nothing is swept.
NeverSwept(k) == DOMAIN buckets
\* The keys that #sweep leaves in the map; the caller's own bucket may go too.
Swept(k) == {j \in DOMAIN buckets : now - buckets[j].lastAccessMs <= Ttl}

Found(k) == IF k \in Swept(k) THEN buckets[k] ELSE Fresh

\* Deliberate fault: no cap on what an idle bucket collects.
Uncapped(bucket) == bucket.tokens + (now - bucket.lastRefillMs)
Refilled(bucket) ==
  LET tokens == bucket.tokens + (now - bucket.lastRefillMs)
  IN  IF tokens > Full THEN Full ELSE tokens

\* Deliberate fault: any positive balance buys a call.
AnyTokenLeft(tokens) == tokens > 0
\* Deliberate fault: the last token is never spent.
SpareTokenLeft(tokens) == tokens > PerToken
TokenLeft(tokens) == tokens >= PerToken

Put(k, tokens) ==
  buckets' = [j \in Swept(k) \union {k} |->
                IF j = k THEN [tokens |-> tokens, lastRefillMs |-> now, lastAccessMs |-> now]
                         ELSE buckets[j]]

Consume(k) ==
  /\ admitted[k] + refused[k] < MaxCalls
  /\ LET tokens == Refilled(Found(k)) IN
     \/ /\ TokenLeft(tokens)
        /\ Put(k, tokens - PerToken)
        /\ admitted' = [admitted EXCEPT ![k] = @ + 1]
        /\ UNCHANGED refused
     \/ /\ ~ TokenLeft(tokens)
        /\ Put(k, tokens)
        /\ refused' = [refused EXCEPT ![k] = @ + 1]
        /\ UNCHANGED admitted
  /\ sweptAt' = now
  /\ UNCHANGED <<now, back, elapsed>>

Tick == /\ now < MaxNow
        /\ now' = now + 1 /\ elapsed' = elapsed + 1
        /\ UNCHANGED <<buckets, back, sweptAt, admitted, refused>>

SetBack == /\ back < MaxBack
           /\ now' = now - 1 /\ back' = back + 1
           /\ UNCHANGED <<buckets, sweptAt, observer>>

\* Not a step of the code: an observer may start counting at any moment.
Observe == /\ admitted' = NoCalls /\ refused' = NoCalls /\ elapsed' = 0
           /\ UNCHANGED <<buckets, now, back, sweptAt>>

Next == \/ \E k \in Keys : Consume(k)
        \/ Tick \/ SetBack \/ Observe

Spec == Init /\ [][Next]_vars
-----------------------------------------------------------------------------
(* Properties *)

\* What a key's bucket is worth now, refilled or not, tracked or not.
Level(k) == IF k \in DOMAIN buckets THEN Refilled(buckets[k]) ELSE Full

(* Lazy refills and sweeps are invisible: every verdict is the one a bucket that   *)
(* refills all the time and is never forgotten would give.  Sweeping a bucket must *)
(* never hand its key a new burst, nor may a call disturb another key.             *)
Bucketed == INSTANCE TokenBucket WITH level <- [k \in Keys |-> Level(k)]
BucketSpec == Bucketed!Spec

(* In no window, wherever it begins, is a key admitted more than its burst and     *)
(* what the window's time restores.                                                *)
WindowIsBounded == \A k \in Keys : admitted[k] * PerToken <= Full + elapsed

(* Right after a call the map holds no bucket idle for longer than the TTL, so a   *)
(* flood of distinct addresses is forgotten once it ends.                          *)
IdleIsForgotten == \A k \in DOMAIN buckets : sweptAt - buckets[k].lastAccessMs <= Ttl
=============================================================================
