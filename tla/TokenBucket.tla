------------------------------- MODULE TokenBucket -------------------------------
(* What a rate limiter promises its callers, whatever it keeps in memory: each key *)
(* has a bucket that refills as time passes and never holds more than Full, a call *)
(* is admitted exactly when the key's bucket holds a whole token, and no key's     *)
(* calls touch another's bucket.  One unit of level is one tick of refill; a token *)
(* is worth PerToken units.                                                        *)
EXTENDS Integers

CONSTANTS Keys, Capacity, PerToken

Full == Capacity * PerToken

VARIABLES level,     \* what each key's bucket holds now
          admitted,  \* calls let through in the observed window
          refused,   \* calls turned away in the observed window
          elapsed    \* how far the clock has advanced in the observed window

bucketVars == <<level, admitted, refused, elapsed>>

Start == admitted = [k \in Keys |-> 0] /\ refused = [k \in Keys |-> 0] /\ elapsed = 0
Init == level = [k \in Keys |-> Full] /\ Start

Admit(k) == /\ level[k] >= PerToken
            /\ level' = [level EXCEPT ![k] = @ - PerToken]
            /\ admitted' = [admitted EXCEPT ![k] = @ + 1]
            /\ UNCHANGED <<refused, elapsed>>

Refuse(k) == /\ level[k] < PerToken
             /\ refused' = [refused EXCEPT ![k] = @ + 1]
             /\ UNCHANGED <<level, admitted, elapsed>>

Capped(n) == IF n > Full THEN Full ELSE n

Refill == /\ level' = [k \in Keys |-> Capped(level[k] + 1)]
          /\ elapsed' = elapsed + 1
          /\ UNCHANGED <<admitted, refused>>

\* The clock is set back: a bucket may lose as much as the clock did, and gains nothing.
Lapse == /\ level' \in [Keys -> Int]
         /\ \A k \in Keys : level[k] - 1 <= level'[k] /\ level'[k] <= level[k]
         /\ UNCHANGED <<admitted, refused, elapsed>>

\* The observer begins a new window.
Observe == /\ admitted' = [k \in Keys |-> 0] /\ refused' = [k \in Keys |-> 0]
           /\ elapsed' = 0
           /\ UNCHANGED level

Next == \/ \E k \in Keys : Admit(k) \/ Refuse(k)
        \/ Refill \/ Lapse \/ Observe

Spec == Init /\ [][Next]_bucketVars
=============================================================================
