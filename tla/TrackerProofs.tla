------------------------------ MODULE TrackerProofs ------------------------------
(* TLAPS proofs about Tracker, for any pages, any order of the browser's calls and   *)
(* any rate of the clock: what is sent is nobody's, names its page, has each         *)
(* milestone once, and ends every view with the time it was visible.  The argument   *)
(* is about the log of sent events: what a handler appends, and what that leaves of  *)
(* the counts the properties read from it.                                           *)
EXTENDS Tracker, FoldProofs

-----------------------------------------------------------------------------------
(* Arithmetic. *)

\* Division by k leaves a rest below k.
LEMMA DivNat ==
  ASSUME NEW x \in Nat, NEW k \in Nat \ {0}
  PROVE  x \div k \in Nat /\ k * (x \div k) <= x /\ x < k * (x \div k) + k
OBVIOUS

\* A multiple of k below the next but one is at most the next.
LEMMA MultipleBelow ==
  ASSUME NEW p \in Nat, NEW q \in Nat, NEW k \in Nat \ {0}, k * p < k * q + k
  PROVE  p <= q
<1> SUFFICES ASSUME q + 1 <= p PROVE FALSE
  OBVIOUS
<1>1. k * (q + 1) <= k * p
  OBVIOUS
<1> QED BY <1>1

\* More time never rounds to fewer seconds.
LEMMA RoundMonotone ==
  ASSUME NEW a \in Nat, NEW b \in Nat, a <= b, NEW d \in Nat \ {0}
  PROVE  Round(a, d) \in Nat /\ Round(a, d) <= Round(b, d)
<1> DEFINE x == 2 * a + d
           y == 2 * b + d
           k == 2 * d
<1>1. x \in Nat /\ y \in Nat /\ k \in Nat \ {0} /\ x <= y
  OBVIOUS
<1> HIDE DEF x, y, k
<1>2. x \div k \in Nat /\ k * (x \div k) <= x /\ y \div k \in Nat /\ y < k * (y \div k) + k
  BY <1>1, DivNat
<1>3. k * (x \div k) < k * (y \div k) + k
  BY <1>1, <1>2
<1>4. x \div k <= y \div k
  BY <1>1, <1>2, <1>3, MultipleBelow
<1> QED BY <1>2, <1>4 DEF Round, x, y, k

\* The greater of two numbers.
LEMMA MaxOfTwo ==
  ASSUME NEW a \in Int, NEW b \in Int
  PROVE  Max({a, b}) = IF a >= b THEN a ELSE b
<1> DEFINE m == IF a >= b THEN a ELSE b
<1>1. m \in {a, b} /\ \A x \in {a, b} : m >= x
  OBVIOUS
<1>2. \A n \in {a, b} : (\A x \in {a, b} : n >= x) => n = m
  OBVIOUS
<1> QED BY <1>1, <1>2 DEF Max

-----------------------------------------------------------------------------------
(* The log: an event belongs to the page view reported last before it. *)

\* A path without anything that looks like an identifier, or a parameter but a campaign's.
CleanPath == {p \in Path : /\ p.params \subseteq ALLOWED_QUERY_PARAMS
                           /\ \A k \in DOMAIN p.segments : p.segments[k].looks = "plain"}
Entry == {e \in Payload : e.path \in CleanPath}
Log == Seq(Entry)

ViewIn(s, i) == Cardinality({j \in 1..i : s[j].type = "pageview"})
ReportsIn(s, v, type) == {i \in DOMAIN s : ViewIn(s, i) = v /\ s[i].type = type}
LastIn(s, v) ==
  LET r == ReportsIn(s, v, "engagement") IN IF r = {} THEN 0 ELSE s[Max(r)].value
Milestones == {SCROLL_MILESTONES[k] : k \in DOMAIN SCROLL_MILESTONES}
TimesIn(s, v, m) == Cardinality({i \in ReportsIn(s, v, "scroll") : s[i].value = m})

\* A handler's events on one page.
IsBatch(b, path) == b \in Log /\ \A k \in DOMAIN b : b[k].path = path /\ b[k].type # "pageview"
Batched(s, b, path, t) == s \in Log /\ IsBatch(b, path) /\ t = s \o b

\* A count of the first i is a number, and does not see what comes after.
LEMMA ViewInType ==
  ASSUME NEW s, NEW i \in Nat
  PROVE  /\ ViewIn(s, i) \in Nat /\ IsFiniteSet({j \in 1..i : s[j].type = "pageview"})
         /\ \A t : (\A j \in 1..i : t[j] = s[j]) => ViewIn(t, i) = ViewIn(s, i)
<1>1. IsFiniteSet(1..i)
  BY FS_Interval
<1>2. IsFiniteSet({j \in 1..i : s[j].type = "pageview"})
  BY <1>1, FS_Subset
<1>3. ASSUME NEW t, \A j \in 1..i : t[j] = s[j]
      PROVE  {j \in 1..i : t[j].type = "pageview"} = {j \in 1..i : s[j].type = "pageview"}
  BY <1>3
<1> QED BY <1>2, <1>3, FS_CardinalityType DEF ViewIn

\* A page view starts the next view, every other event stays in its view.
LEMMA ViewInNext ==
  ASSUME NEW s, NEW i \in Nat
  PROVE  ViewIn(s, i + 1) = IF s[i + 1].type = "pageview" THEN ViewIn(s, i) + 1 ELSE ViewIn(s, i)
<1> DEFINE S(n) == {j \in 1..n : s[j].type = "pageview"}
<1>1. IsFiniteSet(S(i))
  BY ViewInType
<1>2. CASE s[i + 1].type = "pageview"
  <2>1. S(i + 1) = S(i) \cup {i + 1} /\ i + 1 \notin S(i)
    BY <1>2
  <2>2. Cardinality(S(i + 1)) = Cardinality(S(i)) + 1
    <3> HIDE DEF S
    <3> QED BY <1>1, <2>1, FS_AddElement
  <2> QED BY <1>2, <2>2 DEF ViewIn
<1>3. CASE s[i + 1].type # "pageview"
  <2>1. S(i + 1) = S(i)
    BY <1>3
  <2> QED BY <1>3, <2>1 DEF ViewIn
<1> QED BY <1>2, <1>3

\* The indices and the views of a log with a batch behind it.
LEMMA BatchViews ==
  ASSUME NEW s, NEW path, NEW b, NEW t, Batched(s, b, path, t)
  PROVE  /\ t \in Log /\ Len(s) \in Nat /\ Len(b) \in Nat /\ Len(t) = Len(s) + Len(b)
         /\ DOMAIN t = 1..Len(t) /\ DOMAIN s = 1..Len(s) /\ DOMAIN b = 1..Len(b)
         /\ \A i \in 1..Len(s) : t[i] = s[i] /\ ViewIn(t, i) = ViewIn(s, i)
         /\ \A i \in (Len(s) + 1)..Len(t) :
              /\ i - Len(s) \in DOMAIN b /\ t[i] = b[i - Len(s)]
              /\ ViewIn(t, i) = ViewIn(s, Len(s))
<1>1. /\ b \in Log /\ \A k \in DOMAIN b : b[k].type # "pageview"
      /\ Len(s) \in Nat /\ Len(b) \in Nat
      /\ DOMAIN s = 1..Len(s) /\ DOMAIN b = 1..Len(b)
  BY DEF Batched, IsBatch, Log
<1>2. /\ t \in Log /\ Len(t) = Len(s) + Len(b) /\ DOMAIN t = 1..Len(t)
      /\ \A i \in 1..Len(s) : t[i] = s[i]
      /\ \A i \in (Len(s) + 1)..Len(t) : i - Len(s) \in DOMAIN b /\ t[i] = b[i - Len(s)]
  BY <1>1 DEF Batched, Log
<1>3. ASSUME NEW i \in 0..Len(s) PROVE ViewIn(t, i) = ViewIn(s, i)
  <2>1. i \in Nat /\ \A j \in 1..i : t[j] = s[j]
    BY <1>1, <1>2
  <2> QED BY <2>1, ViewInType
<1> DEFINE W == {k \in 0..Len(b) : ViewIn(t, Len(s) + k) = ViewIn(s, Len(s))}
<1>4. 0 \in W
  BY <1>1, <1>3
<1>5. ASSUME NEW k \in 1..Len(b), k - 1 \in W PROVE k \in W
  <2>1. /\ Len(s) + (k - 1) \in Nat /\ (Len(s) + (k - 1)) + 1 = Len(s) + k
        /\ Len(s) + k \in (Len(s) + 1)..Len(t) /\ (Len(s) + k) - Len(s) = k
    BY <1>1, <1>2
  <2>2. t[Len(s) + k].type # "pageview"
    BY <1>1, <1>2, <2>1
  <2>3. ViewIn(t, Len(s) + k) = ViewIn(t, Len(s) + (k - 1))
    BY <2>1, <2>2, ViewInNext
  <2> QED BY <1>1, <1>5, <2>3
<1>6. 0..Len(b) \subseteq W
  <2> HIDE DEF W
  <2> QED BY <1>1, <1>4, <1>5, PrefixInduction
<1>7. ASSUME NEW i \in (Len(s) + 1)..Len(t) PROVE ViewIn(t, i) = ViewIn(s, Len(s))
  <2>1. i - Len(s) \in 0..Len(b) /\ Len(s) + (i - Len(s)) = i
    BY <1>1, <1>2
  <2>2. i - Len(s) \in W
    BY <1>6, <2>1
  <2> QED BY <2>1, <2>2
<1> QED BY <1>1, <1>2, <1>3, <1>7
\* The reports of a view are some of the log's indices, and the last has a value.
LEMMA ReportsInType ==
  ASSUME NEW s \in Log, NEW v, NEW type
  PROVE  /\ ReportsIn(s, v, type) \in SUBSET (1..Len(s)) /\ Len(s) \in Nat
         /\ IsFiniteSet(ReportsIn(s, v, type))
         /\ LastIn(s, v) \in Nat
<1>1. Len(s) \in Nat /\ DOMAIN s = 1..Len(s) /\ \A i \in DOMAIN s : s[i].value \in Nat
  BY DEF Log, Entry, Payload
<1>2. \A r : ReportsIn(s, v, r) \in SUBSET (1..Len(s))
  BY <1>1 DEF ReportsIn
<1>3. IsFiniteSet(ReportsIn(s, v, type))
  <2>1. IsFiniteSet(1..Len(s))
    BY <1>1, FS_Interval
  <2> QED BY <1>2, <2>1, FS_Subset
<1>4. ASSUME ReportsIn(s, v, "engagement") # {}
      PROVE  Max(ReportsIn(s, v, "engagement")) \in DOMAIN s
  BY <1>1, <1>2, <1>4, MaxIsIn
<1> QED BY <1>1, <1>2, <1>3, <1>4 DEF LastIn

\* A batch adds its events to the reports of the view that goes on.
LEMMA BatchReports ==
  ASSUME NEW s, NEW path, NEW b, NEW t, Batched(s, b, path, t),
         NEW v, NEW type
  PROVE  ReportsIn(t, v, type) =
           ReportsIn(s, v, type) \cup
             {i \in (Len(s) + 1)..Len(t) : v = ViewIn(s, Len(s)) /\ b[i - Len(s)].type = type}
<1>1. /\ Len(s) \in Nat /\ Len(b) \in Nat /\ Len(t) = Len(s) + Len(b)
      /\ DOMAIN t = 1..Len(t) /\ DOMAIN s = 1..Len(s)
      /\ \A i \in 1..Len(s) : t[i] = s[i] /\ ViewIn(t, i) = ViewIn(s, i)
      /\ \A i \in (Len(s) + 1)..Len(t) :
           t[i] = b[i - Len(s)] /\ ViewIn(t, i) = ViewIn(s, Len(s))
  BY BatchViews
<1>2. DOMAIN t = (1..Len(s)) \cup ((Len(s) + 1)..Len(t))
  BY <1>1
<1> QED BY <1>1, <1>2 DEF ReportsIn

\* What a log says of a view depends on the reports of that view alone.
Begins(s, t) == s \in Log /\ \A i \in 1..Len(s) : t[i] = s[i]

\* A log that grows without an engagement of the view has the same last one.
LEMMA SameLast ==
  ASSUME NEW s, NEW t, Begins(s, t), NEW v,
         ReportsIn(t, v, "engagement") = ReportsIn(s, v, "engagement")
  PROVE  LastIn(t, v) = LastIn(s, v)
<1>1. s \in Log /\ \A i \in 1..Len(s) : t[i] = s[i]
  BY DEF Begins
<1>2. ReportsIn(s, v, "engagement") \in SUBSET (1..Len(s)) /\ Len(s) \in Nat
  BY <1>1, ReportsInType
<1>3. CASE ReportsIn(s, v, "engagement") = {}
  BY <1>3 DEF LastIn
<1>4. CASE ReportsIn(s, v, "engagement") # {}
  <2>1. Max(ReportsIn(s, v, "engagement")) \in 1..Len(s)
    BY <1>2, <1>4, MaxIsIn
  <2> QED BY <1>1, <1>4, <2>1 DEF LastIn
<1> QED BY <1>3, <1>4

\* The same of the milestones.
LEMMA SameTimes ==
  ASSUME NEW s, NEW t, Begins(s, t), NEW v,
         ReportsIn(t, v, "scroll") = ReportsIn(s, v, "scroll"), NEW m
  PROVE  TimesIn(t, v, m) = TimesIn(s, v, m)
<1>1. s \in Log /\ \A i \in 1..Len(s) : t[i] = s[i]
  BY DEF Begins
<1>2. ReportsIn(s, v, "scroll") \in SUBSET (1..Len(s))
  BY <1>1, ReportsInType
<1>3. {i \in ReportsIn(t, v, "scroll") : t[i].value = m}
        = {i \in ReportsIn(s, v, "scroll") : s[i].value = m}
  BY <1>1, <1>2
<1> QED BY <1>3 DEF TimesIn

\* A batch changes nothing of a view that is over, of a report it does not hold.
LEMMA BatchLeaves ==
  ASSUME NEW s, NEW path, NEW b, NEW t, Batched(s, b, path, t), NEW v
  PROVE  /\ (v # ViewIn(s, Len(s)) \/ \A k \in DOMAIN b : b[k].type # "engagement")
              => LastIn(t, v) = LastIn(s, v)
         /\ \A m : (v # ViewIn(s, Len(s)) \/ \A k \in DOMAIN b : b[k].type # "scroll")
              => TimesIn(t, v, m) = TimesIn(s, v, m)
<1>1. /\ \A i \in 1..Len(s) : t[i] = s[i]
      /\ \A i \in (Len(s) + 1)..Len(t) : i - Len(s) \in DOMAIN b
  BY BatchViews
<1>2. ASSUME NEW type, v # ViewIn(s, Len(s)) \/ \A k \in DOMAIN b : b[k].type # type
      PROVE  ReportsIn(t, v, type) = ReportsIn(s, v, type)
  <2>1. ReportsIn(t, v, type) =
           ReportsIn(s, v, type) \cup
             {i \in (Len(s) + 1)..Len(t) : v = ViewIn(s, Len(s)) /\ b[i - Len(s)].type = type}
    BY BatchReports
  <2>2. ~ \E i \in (Len(s) + 1)..Len(t) : v = ViewIn(s, Len(s)) /\ b[i - Len(s)].type = type
    BY <1>1, <1>2
  <2> QED BY <2>1, <2>2
<1>3. Begins(s, t)
  BY <1>1 DEF Batched, Begins
<1>4. ASSUME v # ViewIn(s, Len(s)) \/ \A k \in DOMAIN b : b[k].type # "engagement"
      PROVE  LastIn(t, v) = LastIn(s, v)
  BY <1>2, <1>3, <1>4, SameLast
<1>5. ASSUME NEW m, v # ViewIn(s, Len(s)) \/ \A k \in DOMAIN b : b[k].type # "scroll"
      PROVE  TimesIn(t, v, m) = TimesIn(s, v, m)
  BY <1>2, <1>3, <1>5, SameTimes
<1> QED BY <1>4, <1>5

\* A report of the time is the last one of its view.
LEMMA EngagementIsLast ==
  ASSUME NEW s \in Log, NEW e \in Entry, e.type = "engagement", NEW t, t = Append(s, e)
  PROVE  LastIn(t, ViewIn(s, Len(s))) = e.value
<1> DEFINE v == ViewIn(s, Len(s))
           r == ReportsIn(t, v, "engagement")
           n == Len(s) + 1
<1>1. /\ Len(s) \in Nat /\ t \in Log /\ Len(t) = n /\ DOMAIN t = 1..n /\ t[n] = e
      /\ \A i \in 1..Len(s) : t[i] = s[i]
  BY AppendedLast DEF Log
<1>2. ViewIn(t, n) = v
  <2>1. ViewIn(t, n) = ViewIn(t, Len(s))
    BY <1>1, ViewInNext
  <2> QED BY <1>1, <2>1, ViewInType
<1>3. n \in r /\ r \in SUBSET (1..n)
  <2>1. n \in r
    BY <1>1, <1>2 DEF ReportsIn
  <2>2. r \in SUBSET (1..Len(t))
    BY <1>1, ReportsInType
  <2> QED BY <1>1, <2>1, <2>2
<1>4. Max(r) = n
  <2>1. \A i \in r : n >= i
    BY <1>1, <1>3
  <2>2. \A k \in r : (\A i \in r : k >= i) => k = n
    BY <1>1, <1>3
  <2> HIDE DEF r
  <2> QED BY <1>3, <2>1, <2>2 DEF Max
<1> QED BY <1>1, <1>3, <1>4 DEF LastIn

SaysTheSame(s, t) ==
  \A v : LastIn(t, v) = LastIn(s, v) /\ \A m : TimesIn(t, v, m) = TimesIn(s, v, m)
Viewed(s, e, t) == s \in Log /\ e \in Entry /\ e.type = "pageview" /\ t = Append(s, e)

\* A page view is no report of the views before it.
LEMMA ViewStarts ==
  ASSUME NEW s, NEW e, NEW t, Viewed(s, e, t)
  PROVE  /\ t \in Log /\ Len(s) \in Nat /\ Len(t) = Len(s) + 1
         /\ DOMAIN t = 1..(Len(s) + 1) /\ t[Len(s) + 1] = e
         /\ \A i \in 1..Len(s) : t[i] = s[i] /\ ViewIn(t, i) = ViewIn(s, i)
         /\ ViewIn(t, Len(s) + 1) = ViewIn(s, Len(s)) + 1
         /\ SaysTheSame(s, t)
<1> DEFINE n == Len(s) + 1
<1>0. s \in Log /\ e \in Entry /\ e.type = "pageview" /\ t = Append(s, e)
  BY DEF Viewed
<1>1. /\ Len(s) \in Nat /\ t \in Log /\ Len(t) = n /\ DOMAIN t = 1..n /\ t[n] = e
      /\ DOMAIN s = 1..Len(s) /\ \A i \in 1..Len(s) : t[i] = s[i]
  BY <1>0, AppendedLast DEF Log
<1>2. ASSUME NEW i \in 0..Len(s) PROVE ViewIn(t, i) = ViewIn(s, i)
  <2>1. i \in Nat /\ \A j \in 1..i : t[j] = s[j]
    BY <1>1
  <2> QED BY <2>1, ViewInType
<1>3. ViewIn(t, n) = ViewIn(s, Len(s)) + 1
  <2>1. Len(s) \in 0..Len(s)
    BY <1>1
  <2>2. ViewIn(t, Len(s)) = ViewIn(s, Len(s))
    BY <1>2, <2>1
  <2> QED BY <1>0, <1>1, <2>2, ViewInNext
<1>4. ASSUME NEW v, NEW type, type # "pageview"
      PROVE  ReportsIn(t, v, type) = ReportsIn(s, v, type)
  <2>1. DOMAIN t = DOMAIN s \cup {n} /\ n \notin DOMAIN s
    BY <1>1
  <2> QED BY <1>0, <1>1, <1>2, <1>4, <2>1 DEF ReportsIn
<1>5. \A v : LastIn(t, v) = LastIn(s, v) /\ \A m : TimesIn(t, v, m) = TimesIn(s, v, m)
  <2> SUFFICES ASSUME NEW v
               PROVE  LastIn(t, v) = LastIn(s, v) /\ \A m : TimesIn(t, v, m) = TimesIn(s, v, m)
    OBVIOUS
  <2>1. /\ ReportsIn(t, v, "engagement") = ReportsIn(s, v, "engagement")
        /\ ReportsIn(t, v, "scroll") = ReportsIn(s, v, "scroll")
    BY <1>4
  <2>2. Begins(s, t)
    BY <1>0, <1>1 DEF Begins
  <2> QED BY <2>1, <2>2, SameLast, SameTimes
<1> QED BY <1>1, <1>2, <1>3, <1>5 DEF SaysTheSame

\* Milestones crossed are reported once each, on the page they were crossed.
Crossing(t, crossed) == [i \in DOMAIN crossed |-> Event(t, "scroll", crossed[i])]

\* Each of them adds one to its own count, and to no other.
LEMMA CrossedTimes ==
  ASSUME NEW s, NEW u, NEW crossed \in Seq(Nat),
         \A i, k \in DOMAIN crossed : crossed[i] = crossed[k] => i = k,
         NEW t, Batched(s, Crossing(u, crossed), u.currentPath, t), NEW m
  PROVE  TimesIn(t, ViewIn(s, Len(s)), m) =
           TimesIn(s, ViewIn(s, Len(s)), m)
             + IF \E i \in DOMAIN crossed : crossed[i] = m THEN 1 ELSE 0
<1> DEFINE b == Crossing(u, crossed)
           v == ViewIn(s, Len(s))
           old == {i \in ReportsIn(s, v, "scroll") : s[i].value = m}
           new == {i \in (Len(s) + 1)..Len(t) : b[i - Len(s)].value = m}
<1>1. /\ s \in Log /\ Len(s) \in Nat /\ Len(b) = Len(crossed) /\ Len(t) = Len(s) + Len(crossed)
      /\ DOMAIN crossed = 1..Len(crossed) /\ Len(crossed) \in Nat
      /\ \A i \in 1..Len(s) : t[i] = s[i]
      /\ \A i \in (Len(s) + 1)..Len(t) : i - Len(s) \in DOMAIN crossed /\ t[i] = b[i - Len(s)]
  <2>1. /\ DOMAIN b = DOMAIN crossed /\ Len(b) = Len(crossed)
        /\ DOMAIN crossed = 1..Len(crossed) /\ Len(crossed) \in Nat
    BY DEF Crossing
  <2>2. Batched(s, b, u.currentPath, t) /\ s \in Log
    BY DEF Batched
  <2> HIDE DEF b
  <2>3. /\ Len(s) \in Nat /\ Len(t) = Len(s) + Len(b)
        /\ \A i \in 1..Len(s) : t[i] = s[i]
        /\ \A i \in (Len(s) + 1)..Len(t) : i - Len(s) \in DOMAIN b /\ t[i] = b[i - Len(s)]
    BY <2>2, BatchViews
  <2> QED BY <2>1, <2>2, <2>3
<1>2. \A k \in DOMAIN crossed : b[k].type = "scroll" /\ b[k].value = crossed[k]
  BY DEF Crossing, Event
<1>3. ReportsIn(t, v, "scroll") = ReportsIn(s, v, "scroll") \cup ((Len(s) + 1)..Len(t))
  <2>1. ReportsIn(t, v, "scroll") =
           ReportsIn(s, v, "scroll") \cup
             {i \in (Len(s) + 1)..Len(t) : v = v /\ b[i - Len(s)].type = "scroll"}
    BY BatchReports
  <2>2. \A i \in (Len(s) + 1)..Len(t) : b[i - Len(s)].type = "scroll"
    BY <1>1, <1>2
  <2> HIDE DEF b, v
  <2> QED BY <2>1, <2>2
<1>4. ReportsIn(s, v, "scroll") \in SUBSET (1..Len(s)) /\ IsFiniteSet(ReportsIn(s, v, "scroll"))
  BY <1>1, ReportsInType
<1>5. {i \in ReportsIn(t, v, "scroll") : t[i].value = m} = old \cup new /\ old \cap new = {}
  <2> HIDE DEF b, v
  <2> QED BY <1>1, <1>3, <1>4
<1>6. IsFiniteSet(old)
  BY <1>4, FS_Subset
<1>7. CASE \E i \in DOMAIN crossed : crossed[i] = m
  <2>1. PICK k \in DOMAIN crossed : crossed[k] = m
    BY <1>7
  <2>2. new = {Len(s) + k}
    <3>1. Len(s) + k \in (Len(s) + 1)..Len(t) /\ (Len(s) + k) - Len(s) = k
      BY <1>1
    <3>2. ASSUME NEW i \in new PROVE i = Len(s) + k
      <4>1. i - Len(s) \in DOMAIN crossed /\ crossed[i - Len(s)] = m
        BY <1>1, <1>2
      <4>2. i - Len(s) = k
        BY <2>1, <4>1
      <4> QED BY <1>1, <4>2
    <3> HIDE DEF b
    <3> QED BY <1>2, <2>1, <3>1, <3>2
  <2>3. Len(s) + k \notin old
    BY <1>5, <2>2
  <2>4. Cardinality(old \cup {Len(s) + k}) = Cardinality(old) + 1
    <3> HIDE DEF old
    <3> QED BY <1>6, <2>3, FS_AddElement
  <2> QED BY <1>5, <1>7, <2>2, <2>4 DEF TimesIn
<1>8. CASE ~ \E i \in DOMAIN crossed : crossed[i] = m
  <2>1. ASSUME NEW i \in new PROVE FALSE
    <3>1. i - Len(s) \in DOMAIN crossed /\ crossed[i - Len(s)] = m
      BY <1>1, <1>2
    <3> QED BY <1>8, <3>1
  <2>2. Cardinality(old) \in Nat
    BY <1>6, FS_CardinalityType
  <2>3. TimesIn(t, v, m) = Cardinality(old)
    <3> HIDE DEF v, old, new
    <3> QED BY <1>5, <2>1 DEF TimesIn
  <2>4. TimesIn(s, v, m) = Cardinality(old)
    BY DEF TimesIn
  <2> QED BY <1>8, <2>2, <2>3, <2>4
<1> QED BY <1>7, <1>8

\* The milestones from one point to a deeper one are crossed, each of them once.
LEMMA CrossedOnce ==
  ASSUME NEW a \in Int, NEW b \in Int
  PROVE  LET crossed == newlyCrossedMilestones(a, b) IN
         /\ crossed \in Seq(Nat)
         /\ \A i, k \in DOMAIN crossed : crossed[i] = crossed[k] => i = k
         /\ \A m \in Milestones : (\E i \in DOMAIN crossed : crossed[i] = m) <=> a < m /\ m <= b
<1> DEFINE T == (a + 1)..b
<1>1. SCROLL_MILESTONES \in Seq(Nat) /\ DOMAIN SCROLL_MILESTONES = 1..4
  BY DEF SCROLL_MILESTONES
<1>2. \A i, k \in DOMAIN SCROLL_MILESTONES :
        SCROLL_MILESTONES[i] = SCROLL_MILESTONES[k] => i = k
  BY DEF SCROLL_MILESTONES
<1> DEFINE kept == SelectIn(SCROLL_MILESTONES, T)
<1>3. kept \in Seq(Nat \cap T)
  BY <1>1, SelectInType
<1>4. /\ \A e \in T : (\E i \in DOMAIN kept : kept[i] = e)
                      <=> \E i \in DOMAIN SCROLL_MILESTONES : SCROLL_MILESTONES[i] = e
      /\ \A i, k \in DOMAIN kept : kept[i] = kept[k] => i = k
  <2> HIDE DEF T
  <2> QED BY <1>1, <1>2, SelectInOnce
<1>5. \A m \in Milestones : m \in T <=> a < m /\ m <= b
  <2>1. \A m \in Milestones : m \in Int
    <3>1. \A k \in DOMAIN SCROLL_MILESTONES : SCROLL_MILESTONES[k] \in Nat
      BY DEF SCROLL_MILESTONES
    <3> QED BY <3>1 DEF Milestones
  <2> QED BY <2>1
<1> HIDE DEF kept, T
<1>6. kept \in Seq(Nat) /\ \A i \in DOMAIN kept : kept[i] \in T
  BY <1>3
<1>7. \A m \in Milestones : (\E i \in DOMAIN kept : kept[i] = m) <=> m \in T
  BY <1>4, <1>6 DEF Milestones
<1>8. newlyCrossedMilestones(a, b) = kept
  BY DEF newlyCrossedMilestones, kept, T
<1> QED BY <1>4, <1>5, <1>6, <1>7, <1>8
-----------------------------------------------------------------------------------
(* The inductive invariant. *)

TrackerVars == [currentPath : CleanPath \cup {NULL}, deepestScroll : 0..100, clsValue : Nat,
                sent : Log, engagement : [accumulated : Nat, shownAt : Nat \cup {NULL}]]
ViewNow == views[Len(views)]

\* The page and the visit, whatever the script does.
Around ==
  /\ signals \in Signals /\ phase \in {"loading", "open", "leaving"} /\ location \in Hrefs
  /\ visibility \in {"visible", "hidden", "prerender"} /\ now \in 0..MaxTime
  /\ listening \in BOOLEAN /\ views \in Seq(View) /\ Len(views) >= 1
  /\ ViewNow.path = sanitizePagePath(location)

\* A timer that counts no second twice, and reads a whole number of ticks: what it holds
\* lies before what it counts.
Runs(e) ==
  /\ e \in [accumulated : Nat, shownAt : Nat \cup {NULL}] /\ now \in Nat
  /\ IF e.shownAt = NULL THEN e.accumulated <= now
     ELSE e.accumulated <= e.shownAt /\ e.shownAt <= now

\* The decision is taken once, and before it the page is as it was found.
Decided ==
  /\ listening => shouldTrack(signals) /\ phase # "loading"
  /\ ~listening => tracker = Unloaded
  /\ phase = "loading" => Len(views) = 1 /\ ViewNow.seen = 0 /\ ViewNow.deepest = 0
                          /\ ViewNow.born = visibility

\* The log against the visit: the events of a view, its milestones, its last report.
Counted(s, vs) ==
  /\ ViewIn(s, Len(s)) = Len(vs)
  /\ \A i \in DOMAIN s : ViewIn(s, i) \in DOMAIN vs /\ s[i].path = vs[ViewIn(s, i)].path
Crossed(s, vs) ==
  \A v \in DOMAIN vs, m \in Milestones :
    TimesIn(s, v, m) = IF m <= vs[v].deepest THEN 1 ELSE 0
Whole(s, vs) ==
  \A v \in 1..(Len(vs) - 1) :
    vs[v].born = "visible" => LastIn(s, v) = Round(vs[v].seen, PerSecond)

Kept(t, vs) ==
  /\ t \in TrackerVars /\ vs \in Seq(View) /\ Len(vs) >= 1
  /\ t.currentPath \in CleanPath
  /\ t.currentPath = vs[Len(vs)].path /\ t.deepestScroll = vs[Len(vs)].deepest
  /\ Counted(t.sent, vs) /\ Crossed(t.sent, vs) /\ Whole(t.sent, vs)

\* The timer of a view that began visible runs while the view is visible.
Watched(e) == e.accumulated + IF e.shownAt = NULL THEN 0 ELSE now - e.shownAt
Timed ==
  ViewNow.born = "visible" =>
    /\ tracker.engagement.shownAt = NULL <=> visibility # "visible"
    /\ ViewNow.seen = Watched(tracker.engagement)
    /\ LastIn(tracker.sent, Len(views)) <= Round(ViewNow.seen, PerSecond)
    /\ visibility # "visible" \/ phase = "leaving" =>
         LastIn(tracker.sent, Len(views)) = Round(ViewNow.seen, PerSecond)

IInv == /\ Around /\ tracker \in TrackerVars /\ Runs(tracker.engagement) /\ Decided
        /\ listening => Kept(tracker, views) /\ Timed

-----------------------------------------------------------------------------------
(* What the handlers' functions do to the log. *)

\* A path is clean once it is sanitized, and none is the one before the first.
LEMMA SanitizedIsClean ==
  ASSUME NEW href \in Hrefs
  PROVE  sanitizePagePath(href) \in CleanPath /\ sanitizePagePath(href) # NULL
<1> DEFINE named == SelectIn(href.segments, Named)
           segments == [i \in DOMAIN named |-> redactSegment(named[i])]
           params == href.params \cap ALLOWED_QUERY_PARAMS
<1>1. href.segments \in Seq(Segment) /\ href.params \subseteq STRING
  BY PageAssumption
<1>2. named \in Seq(Segment \cap Named)
  BY <1>1, SelectInType
<1>3. ASSUME NEW s \in Segment
      PROVE  redactSegment(s) \in Segment /\ redactSegment(s).looks = "plain"
  <2>1. DOMAIN Marker = {"email", "uuid", "digits", "token"}
    BY DEF Marker
  <2>2. \A l \in DOMAIN Marker : Marker[l] \in STRING
    BY PageAssumption
  <2> QED BY <2>1, <2>2 DEF redactSegment, Segment
<1>4. segments \in Seq(Segment) /\ \A k \in DOMAIN segments : segments[k].looks = "plain"
  <2> HIDE DEF named
  <2>1. /\ Len(named) \in Nat /\ DOMAIN named = 1..Len(named)
        /\ \A i \in DOMAIN named : named[i] \in Segment
    BY <1>2
  <2>2. \A i \in DOMAIN named : segments[i] = redactSegment(named[i])
    OBVIOUS
  <2>3. segments \in [1..Len(named) -> Segment]
    BY <1>3, <2>1
  <2> QED BY <1>3, <2>1, <2>2, <2>3
<1>5. params \subseteq STRING /\ params \subseteq ALLOWED_QUERY_PARAMS
  BY <1>1
<1>6. sanitizePagePath(href) = [segments |-> segments, params |-> params]
  BY DEF sanitizePagePath
<1> HIDE DEF segments, params
<1>7. [segments |-> segments, params |-> params] \in CleanPath
  BY <1>4, <1>5 DEF CleanPath, Path
<1> QED BY <1>6, <1>7, PageAssumption

LogKept(s, vs, path) ==
  vs \in Seq(View) /\ Len(vs) >= 1 /\ Counted(s, vs) /\ Whole(s, vs) /\ path = vs[Len(vs)].path

\* A batch on the current page keeps what the log says of the views.
LEMMA BatchKeeps ==
  ASSUME NEW s, NEW vs, NEW path, LogKept(s, vs, path), NEW b, NEW u, Batched(s, b, path, u)
  PROVE  /\ u \in Log /\ Counted(u, vs) /\ Whole(u, vs)
         /\ Crossed(s, vs) /\ (\A k \in DOMAIN b : b[k].type # "scroll") => Crossed(u, vs)
         /\ (\A k \in DOMAIN b : b[k].type # "engagement")
              => LastIn(u, Len(vs)) = LastIn(s, Len(vs))
<1> DEFINE n == Len(s)
<1>1. /\ u \in Log /\ n \in Nat /\ Len(b) \in Nat /\ Len(u) = n + Len(b)
      /\ DOMAIN u = 1..Len(u) /\ DOMAIN s = 1..n
      /\ \A i \in 1..n : u[i] = s[i] /\ ViewIn(u, i) = ViewIn(s, i)
      /\ \A i \in (n + 1)..Len(u) :
           /\ i - n \in DOMAIN b /\ u[i] = b[i - n]
           /\ ViewIn(u, i) = ViewIn(s, n)
  BY BatchViews
<1>2. /\ ViewIn(s, n) = Len(vs) /\ Len(vs) \in Nat \ {0} /\ DOMAIN vs = 1..Len(vs)
      /\ \A i \in DOMAIN s : ViewIn(s, i) \in DOMAIN vs /\ s[i].path = vs[ViewIn(s, i)].path
  BY DEF LogKept, Counted
<1>3. \A k \in DOMAIN b : b[k].path = vs[Len(vs)].path
  BY DEF LogKept, Batched, IsBatch
<1>4. Counted(u, vs)
  <2>1. ViewIn(u, Len(u)) = Len(vs)
    <3>1. CASE Len(b) = 0
      <4>1. CASE n = 0
        <5>1. \A j \in 1..n : u[j] = s[j]
          BY <1>1
        <5>2. ViewIn(u, n) = ViewIn(s, n)
          BY <1>1, <5>1, ViewInType
        <5> QED BY <1>1, <1>2, <3>1, <5>2
      <4>2. CASE n # 0
        <5>1. n \in 1..n /\ Len(u) = n
          BY <1>1, <3>1, <4>2
        <5> QED BY <1>1, <1>2, <5>1
      <4> QED BY <4>1, <4>2
    <3>2. CASE Len(b) # 0
      <4>1. Len(u) \in (n + 1)..Len(u)
        BY <1>1, <3>2
      <4> QED BY <1>1, <1>2, <4>1
    <3> QED BY <3>1, <3>2
  <2>2. ASSUME NEW i \in DOMAIN u
        PROVE  ViewIn(u, i) \in DOMAIN vs /\ u[i].path = vs[ViewIn(u, i)].path
    <3>1. CASE i \in 1..n
      <4>1. i \in DOMAIN s /\ u[i] = s[i] /\ ViewIn(u, i) = ViewIn(s, i)
        BY <1>1, <3>1
      <4> QED BY <1>2, <4>1
    <3>2. CASE i \in (n + 1)..Len(u)
      <4>1. ViewIn(u, i) = Len(vs) /\ u[i].path = vs[Len(vs)].path
        BY <1>1, <1>2, <1>3, <3>2
      <4> QED BY <1>2, <4>1
    <3>3. i \in 1..n \/ i \in (n + 1)..Len(u)
      BY <1>1
    <3> QED BY <3>1, <3>2, <3>3
  <2> QED BY <2>1, <2>2 DEF Counted
<1>5. ASSUME NEW v \in 1..(Len(vs) - 1) PROVE LastIn(u, v) = LastIn(s, v)
  <2>1. v # ViewIn(s, Len(s))
    BY <1>2
  <2> QED BY <2>1, BatchLeaves
<1>6. Whole(u, vs)
  BY <1>5 DEF LogKept, Whole
<1>7. ASSUME Crossed(s, vs), \A k \in DOMAIN b : b[k].type # "scroll"
      PROVE  Crossed(u, vs)
  <2>1. ASSUME NEW v, NEW m PROVE TimesIn(u, v, m) = TimesIn(s, v, m)
    BY <1>7, BatchLeaves
  <2> QED BY <1>7, <2>1 DEF Crossed
<1>8. ASSUME \A k \in DOMAIN b : b[k].type # "engagement"
      PROVE  LastIn(u, Len(vs)) = LastIn(s, Len(vs))
  BY <1>8, BatchLeaves
<1> QED BY <1>1, <1>4, <1>6, <1>7, <1>8

\* The log of the current page with one event more.
LEMMA SentKeeps ==
  ASSUME NEW t, NEW vs, Kept(t, vs), NEW type, NEW value \in Nat,
         type \in {"engagement", "vitals"} \cup Kinds,
         NEW u, u = send(t, type, value)
  PROVE  /\ Kept(u, vs) /\ u.engagement = t.engagement /\ u.clsValue = t.clsValue
         /\ type = "engagement" => LastIn(u.sent, Len(vs)) = value
         /\ type # "engagement" => LastIn(u.sent, Len(vs)) = LastIn(t.sent, Len(vs))
<1> DEFINE e == Event(t, type, value)
<1>1. /\ t \in TrackerVars /\ vs \in Seq(View) /\ Len(vs) >= 1
      /\ t.currentPath = vs[Len(vs)].path /\ t.deepestScroll = vs[Len(vs)].deepest
      /\ Counted(t.sent, vs) /\ Crossed(t.sent, vs) /\ Whole(t.sent, vs)
  BY DEF Kept
<1>2. t.sent \in Log
  BY <1>1 DEF TrackerVars
<1>3. t.currentPath \in CleanPath
  BY DEF Kept
<1>4. /\ e \in Entry /\ e.path = t.currentPath /\ e.type = type /\ e.value = value
      /\ type # "pageview" /\ type # "scroll"
  BY <1>3, TrackerAssumption DEF Event, Entry, Payload, CleanPath
<1>5. /\ u \in TrackerVars /\ u.sent = Append(t.sent, e) /\ u.currentPath = t.currentPath
      /\ u.deepestScroll = t.deepestScroll /\ u.engagement = t.engagement
      /\ u.clsValue = t.clsValue
  <2> HIDE DEF e
  <2>1. Append(t.sent, e) \in Log
    BY <1>2, <1>4, AppendedLast DEF Log
  <2>2. u = [t EXCEPT !.sent = Append(t.sent, e)]
    BY DEF send, e
  <2> QED BY <1>1, <2>1, <2>2 DEF TrackerVars
<1> HIDE DEF e
<1> DEFINE b == <<e>>
<1>6. b \in Log /\ u.sent = t.sent \o b /\ \A k \in DOMAIN b : b[k] = e
  BY <1>2, <1>4, <1>5 DEF Log
<1> HIDE DEF b
<1>7. Batched(t.sent, b, t.currentPath, u.sent) /\ LogKept(t.sent, vs, t.currentPath)
  BY <1>1, <1>2, <1>4, <1>6 DEF Batched, IsBatch, LogKept
<1>8. /\ Counted(u.sent, vs) /\ Whole(u.sent, vs) /\ Crossed(u.sent, vs)
      /\ type # "engagement" => LastIn(u.sent, Len(vs)) = LastIn(t.sent, Len(vs))
  <2>1. /\ Counted(u.sent, vs) /\ Whole(u.sent, vs)
        /\ Crossed(t.sent, vs) /\ (\A k \in DOMAIN b : b[k].type # "scroll")
             => Crossed(u.sent, vs)
        /\ (\A k \in DOMAIN b : b[k].type # "engagement")
             => LastIn(u.sent, Len(vs)) = LastIn(t.sent, Len(vs))
    BY <1>1, <1>7, BatchKeeps
  <2> QED BY <1>1, <1>4, <1>6, <2>1
<1>9. type = "engagement" => LastIn(u.sent, Len(vs)) = value
  <2>1. ViewIn(t.sent, Len(t.sent)) = Len(vs)
    BY <1>1 DEF Counted
  <2> QED BY <1>2, <1>4, <1>5, <2>1, EngagementIsLast
<1> QED BY <1>1, <1>3, <1>5, <1>8, <1>9 DEF Kept
\* What a timer reads is within the time there was, and so is what is reported of it.
LEMMA WatchedType ==
  ASSUME NEW e, Runs(e)
  PROVE  /\ Watched(e) \in Nat /\ Watched(e) <= now
         /\ visibleSeconds(e) = Round(Watched(e), PerSecond)
         /\ Round(Watched(e), PerSecond) \in Nat
<1>1. Watched(e) \in Nat /\ Watched(e) <= now
  BY TrackerAssumption DEF Runs, Watched
<1>2. Round(Watched(e), PerSecond) \in Nat
  BY <1>1, TrackerAssumption, RoundMonotone
<1> QED BY <1>1, <1>2 DEF visibleSeconds, Watched

\* A flush reports the time the timer reads, unless it rounds to nothing.
LEMMA FlushKeeps ==
  ASSUME NEW t, NEW vs, Kept(t, vs), Runs(t.engagement), NEW u, u = flushEngagement(t)
  PROVE  /\ Kept(u, vs) /\ u.engagement = t.engagement /\ u.clsValue = t.clsValue
         /\ LET seconds == Round(Watched(t.engagement), PerSecond) IN
            LastIn(u.sent, Len(vs)) = IF seconds <= 0 THEN LastIn(t.sent, Len(vs)) ELSE seconds
<1> DEFINE seconds == Round(Watched(t.engagement), PerSecond)
<1>1. seconds \in Nat /\ visibleSeconds(t.engagement) = seconds
  BY WatchedType
<1>2. u = IF seconds <= 0 THEN t ELSE send(t, "engagement", seconds)
  BY <1>1 DEF flushEngagement
<1> HIDE DEF seconds
<1>3. CASE seconds <= 0
  BY <1>2, <1>3 DEF seconds
<1>4. CASE ~ (seconds <= 0)
  <2>1. u = send(t, "engagement", seconds)
    BY <1>2, <1>4
  <2>2. /\ Kept(u, vs) /\ u.engagement = t.engagement /\ u.clsValue = t.clsValue
        /\ LastIn(u.sent, Len(vs)) = seconds
    BY <1>1, <2>1, SentKeeps
  <2> QED BY <1>4, <2>2 DEF seconds
<1> QED BY <1>3, <1>4

\* Nothing is counted in the empty log.
LEMMA EmptyLog ==
  /\ <<>> \in Log /\ Len(<<>>) = 0 /\ ViewIn(<<>>, 0) = 0
  /\ \A v : LastIn(<<>>, v) = 0 /\ \A m : TimesIn(<<>>, v, m) = 0
<1>1. \A v, type : ReportsIn(<<>>, v, type) = {}
  BY DEF ReportsIn
<1>2. \A v, m : {i \in ReportsIn(<<>>, v, "scroll") : <<>>[i].value = m} = {}
  BY <1>1
<1>3. {j \in 1..0 : <<>>[j].type = "pageview"} = {}
  OBVIOUS
<1> QED BY <1>1, <1>2, <1>3, FS_EmptySet DEF Log, LastIn, TimesIn, ViewIn

\* The views with one more, on which nothing has been done yet.
IsNext(t, vs, path, ws, view) ==
  /\ path \in CleanPath /\ path # t.currentPath
  /\ view \in View /\ view.path = path /\ view.deepest = 0 /\ ws = Append(vs, view)
Left(s, vs) == vs[Len(vs)].born = "visible"
                 => LastIn(s, Len(vs)) = Round(vs[Len(vs)].seen, PerSecond)

\* The reports of a view that has none yet.
LEMMA NoReportsYet ==
  ASSUME NEW s \in Log, NEW v, \A i \in DOMAIN s : ViewIn(s, i) # v
  PROVE  LastIn(s, v) = 0 /\ \A m : TimesIn(s, v, m) = 0
<1>1. \A type : ReportsIn(s, v, type) = {}
  BY DEF ReportsIn
<1>2. \A m : {i \in ReportsIn(s, v, "scroll") : s[i].value = m} = {}
  BY <1>1
<1> QED BY <1>1, <1>2, FS_EmptySet DEF LastIn, TimesIn

\* A log the next view may start in: nothing of the view before is missing.
Ready(t, vs) == /\ t \in TrackerVars /\ vs \in Seq(View)
                /\ Counted(t.sent, vs) /\ Crossed(t.sent, vs) /\ Whole(t.sent, vs)
                /\ Len(vs) >= 1 => Left(t.sent, vs)

\* The log of one page view more, if the page before was reported to the end.
LEMMA PageKeeps ==
  ASSUME NEW t, NEW vs, Ready(t, vs), NEW path, NEW ws, NEW view, IsNext(t, vs, path, ws, view),
         now \in Nat, NEW u, u = trackPageview(t, path)
  PROVE  /\ Kept(u, ws) /\ u.engagement = createEngagementTimer /\ u.clsValue = t.clsValue
         /\ LastIn(u.sent, Len(ws)) = 0
<1> DEFINE e == [type |-> "pageview", path |-> path, value |-> 0]
           s == t.sent
           n == Len(s)
           c == Len(vs)
<1>0. /\ t \in TrackerVars /\ vs \in Seq(View)
      /\ Counted(s, vs) /\ Crossed(s, vs) /\ Whole(s, vs) /\ (c >= 1 => Left(s, vs))
  BY DEF Ready
<1>1. /\ path \in CleanPath /\ path # t.currentPath
      /\ view \in View /\ view.path = path /\ view.deepest = 0 /\ ws = Append(vs, view)
  BY DEF IsNext
<1>2. /\ c \in Nat /\ DOMAIN vs = 1..c /\ ws \in Seq(View) /\ Len(ws) = c + 1
      /\ DOMAIN ws = 1..(c + 1) /\ ws[c + 1] = view
      /\ \A v \in 1..c : ws[v] = vs[v]
  BY <1>0, <1>1, AppendedLast
<1>3. e \in Entry /\ e.type = "pageview" /\ e.path = path /\ s \in Log
  BY <1>0, <1>1 DEF Entry, Payload, CleanPath, TrackerVars
<1>4. /\ u \in TrackerVars /\ u.sent = Append(s, e) /\ u.currentPath = path
      /\ u.deepestScroll = 0 /\ u.engagement = createEngagementTimer /\ u.clsValue = t.clsValue
  <2> DEFINE p == [t EXCEPT !.currentPath = path, !.deepestScroll = 0,
                            !.engagement = createEngagementTimer]
  <2>1. createEngagementTimer \in [accumulated : Nat, shownAt : Nat \cup {NULL}]
    BY DEF createEngagementTimer
  <2>2. /\ p \in TrackerVars /\ p.sent = s /\ p.currentPath = path /\ p.deepestScroll = 0
        /\ p.engagement = createEngagementTimer /\ p.clsValue = t.clsValue
    <3> DEFINE p1 == [t EXCEPT !.currentPath = path]
               p2 == [p1 EXCEPT !.deepestScroll = 0]
               p3 == [p2 EXCEPT !.engagement = createEngagementTimer]
    <3>1. p1 \in TrackerVars /\ p1.sent = s /\ p1.currentPath = path /\ p1.clsValue = t.clsValue
      BY <1>0, <1>1 DEF TrackerVars
    <3>2. p = p3
      OBVIOUS
    <3> HIDE DEF p1, p
    <3>3. /\ p2 \in TrackerVars /\ p2.sent = s /\ p2.currentPath = path
          /\ p2.clsValue = t.clsValue /\ p2.deepestScroll = 0
      BY <3>1 DEF TrackerVars
    <3> HIDE DEF p2
    <3>4. /\ p3 \in TrackerVars /\ p3.sent = s /\ p3.currentPath = path /\ p3.deepestScroll = 0
          /\ p3.engagement = createEngagementTimer /\ p3.clsValue = t.clsValue
      BY <2>1, <3>3 DEF TrackerVars
    <3> HIDE DEF p3
    <3> QED BY <3>2, <3>4
  <2> HIDE DEF p
  <2>3. Event(p, "pageview", 0) = e
    BY <2>2 DEF Event
  <2>4. u = [p EXCEPT !.sent = Append(s, e)]
    <3>1. u = send(p, "pageview", 0)
      BY <1>1 DEF trackPageview, p
    <3> HIDE DEF e, s
    <3> QED BY <2>2, <2>3, <3>1 DEF send, s
  <2>5. Append(s, e) \in Log
    <3> HIDE DEF e, s
    <3> QED BY <1>3, AppendedLast DEF Log
  <2> HIDE DEF e, s
  <2> QED BY <2>2, <2>4, <2>5 DEF TrackerVars
<1> DEFINE z == u.sent
<1>5. /\ z \in Log /\ n \in Nat /\ Len(z) = n + 1
      /\ DOMAIN z = 1..(n + 1) /\ z[n + 1] = e
      /\ \A i \in 1..n : z[i] = s[i] /\ ViewIn(z, i) = ViewIn(s, i)
      /\ ViewIn(z, n + 1) = ViewIn(s, n) + 1
      /\ \A v : LastIn(z, v) = LastIn(s, v) /\ \A m : TimesIn(z, v, m) = TimesIn(s, v, m)
  <2> HIDE DEF e, s, z
  <2>1. Viewed(s, e, z)
    BY <1>3, <1>4 DEF z, Viewed
  <2>2. /\ z \in Log /\ Len(s) \in Nat /\ Len(z) = Len(s) + 1
        /\ DOMAIN z = 1..(Len(s) + 1) /\ z[Len(s) + 1] = e
        /\ \A i \in 1..Len(s) : z[i] = s[i] /\ ViewIn(z, i) = ViewIn(s, i)
    BY <2>1, ViewStarts
  <2>3. ViewIn(z, Len(s) + 1) = ViewIn(s, Len(s)) + 1
    BY <2>1, ViewStarts
  <2>4. \A v : LastIn(z, v) = LastIn(s, v) /\ \A m : TimesIn(z, v, m) = TimesIn(s, v, m)
    <3>1. SaysTheSame(s, z)
      BY <2>1, ViewStarts
    <3> QED BY <3>1 DEF SaysTheSame
  <2> QED BY <2>2, <2>3, <2>4 DEF n
<1>6. /\ DOMAIN s = 1..n /\ ViewIn(s, n) = c
      /\ \A i \in DOMAIN s : ViewIn(s, i) \in 1..c /\ s[i].path = vs[ViewIn(s, i)].path
  BY <1>0, <1>2, <1>3 DEF Counted, Log
<1>7. LastIn(s, c + 1) = 0 /\ \A m : TimesIn(s, c + 1, m) = 0
  <2>1. \A i \in DOMAIN s : ViewIn(s, i) # c + 1
    BY <1>2, <1>6
  <2> HIDE DEF s, c
  <2> QED BY <1>3, <2>1, NoReportsYet
<1>8. Crossed(s, vs) /\ Whole(s, vs) /\ (c >= 1 => Left(s, vs))
  BY <1>0
<1> HIDE DEF e, z, s, n, c
<1>9. Counted(z, ws)
  <2>1. ASSUME NEW i \in DOMAIN z
        PROVE  ViewIn(z, i) \in DOMAIN ws /\ z[i].path = ws[ViewIn(z, i)].path
    <3>1. CASE i \in 1..n
      BY <1>2, <1>5, <1>6, <3>1
    <3>2. CASE i = n + 1
      BY <1>1, <1>2, <1>3, <1>5, <1>6, <3>2
    <3> QED BY <1>5, <3>1, <3>2
  <2> QED BY <1>2, <1>5, <1>6, <2>1 DEF Counted
<1>10. Crossed(z, ws)
  <2>1. ASSUME NEW v \in DOMAIN ws, NEW m \in Milestones
        PROVE  TimesIn(z, v, m) = IF m <= ws[v].deepest THEN 1 ELSE 0
    <3>1. CASE v \in 1..c
      <4>1. TimesIn(s, v, m) = IF m <= vs[v].deepest THEN 1 ELSE 0
        BY <1>2, <1>8, <3>1 DEF Crossed
      <4> QED BY <1>2, <1>5, <3>1, <4>1
    <3>2. CASE v = c + 1
      <4>1. ~ (m <= 0)
        BY DEF Milestones, SCROLL_MILESTONES
      <4> QED BY <1>1, <1>2, <1>5, <1>7, <3>2, <4>1
    <3> QED BY <1>2, <3>1, <3>2
  <2> QED BY <2>1 DEF Crossed
<1>11. Whole(z, ws)
  <2>1. ASSUME NEW v \in 1..c, ws[v].born = "visible"
        PROVE  LastIn(z, v) = Round(ws[v].seen, PerSecond)
    <3>1. LastIn(z, v) = LastIn(s, v) /\ ws[v] = vs[v]
      BY <1>2, <1>5
    <3>2. CASE v = c
      <4>1. c >= 1 /\ vs[c].born = "visible"
        BY <1>2, <2>1, <3>1, <3>2
      <4> QED BY <1>8, <3>1, <3>2, <4>1 DEF Left, c
    <3>3. CASE v # c
      <4>1. v \in 1..(c - 1)
        BY <1>2, <3>3
      <4> QED BY <1>8, <2>1, <3>1, <4>1 DEF Whole, c
    <3> QED BY <3>2, <3>3
  <2>2. Len(ws) - 1 = c
    BY <1>2
  <2> QED BY <2>1, <2>2 DEF Whole
<1>12. LastIn(z, Len(ws)) = 0
  BY <1>2, <1>5, <1>7
<1>13. Kept(u, ws)
  BY <1>1, <1>2, <1>4, <1>9, <1>10, <1>11 DEF Kept, z
<1> QED BY <1>4, <1>12, <1>13 DEF z

\* The last view of a visit as it is after a step on its page.
IsChanged(vs, view, ws) ==
  /\ vs \in Seq(View) /\ Len(vs) >= 1 /\ view \in View /\ view.path = vs[Len(vs)].path
  /\ ws = [vs EXCEPT ![Len(vs)] = view]

\* The log tells the same of a visit whose last view goes on.
LEMMA ViewChanges ==
  ASSUME NEW vs, NEW view, NEW ws, IsChanged(vs, view, ws)
  PROVE  /\ ws \in Seq(View) /\ Len(ws) = Len(vs) /\ Len(vs) \in Nat \ {0}
         /\ DOMAIN ws = 1..Len(vs) /\ DOMAIN vs = 1..Len(vs)
         /\ ws[Len(vs)] = view /\ \A v \in 1..(Len(vs) - 1) : ws[v] = vs[v]
         /\ \A s : (Counted(s, vs) => Counted(s, ws)) /\ (Whole(s, vs) => Whole(s, ws))
<1> DEFINE c == Len(vs)
<1>1. /\ vs \in Seq(View) /\ view \in View /\ view.path = vs[c].path
      /\ ws = [vs EXCEPT ![c] = view] /\ c \in Nat \ {0} /\ DOMAIN vs = 1..c
  BY DEF IsChanged
<1>2. /\ ws \in Seq(View) /\ Len(ws) = c /\ DOMAIN ws = 1..c /\ ws[c] = view
      /\ \A v \in 1..(c - 1) : ws[v] = vs[v]
  BY <1>1
<1> HIDE DEF c
<1>3. \A v \in 1..c : ws[v].path = vs[v].path
  <2>0. c \in Nat \ {0}
    BY <1>1
  <2>1. \A v \in 1..c : v = c \/ v \in 1..(c - 1)
    BY <2>0
  <2> QED BY <1>1, <1>2, <2>1
<1>4. ASSUME NEW s, Counted(s, vs) PROVE Counted(s, ws)
  <2>1. /\ ViewIn(s, Len(s)) = c
        /\ \A i \in DOMAIN s : ViewIn(s, i) \in 1..c /\ s[i].path = vs[ViewIn(s, i)].path
    BY <1>1, <1>4 DEF Counted, c
  <2>2. \A i \in DOMAIN s : ViewIn(s, i) \in DOMAIN ws /\ s[i].path = ws[ViewIn(s, i)].path
    BY <1>2, <1>3, <2>1
  <2> QED BY <1>2, <2>1, <2>2 DEF Counted
<1>5. ASSUME NEW s, Whole(s, vs) PROVE Whole(s, ws)
  BY <1>2, <1>5 DEF Whole, c
<1> QED BY <1>1, <1>2, <1>4, <1>5 DEF c

\* The time a view is seen is no part of what the log is kept against.
IsSeen(vs, view, ws) == IsChanged(vs, view, ws) /\ view.deepest = vs[Len(vs)].deepest

\* Time that passes on a view changes nothing of what was reported.
LEMMA SeenKeeps ==
  ASSUME NEW t, NEW vs, Kept(t, vs), NEW view, NEW ws, IsSeen(vs, view, ws)
  PROVE  Kept(t, ws)
<1> DEFINE c == Len(vs)
<1>1. /\ ws \in Seq(View) /\ Len(ws) = c /\ c \in Nat \ {0} /\ DOMAIN ws = 1..c
      /\ DOMAIN vs = 1..c /\ ws[c] = view /\ \A v \in 1..(c - 1) : ws[v] = vs[v]
      /\ \A s : (Counted(s, vs) => Counted(s, ws)) /\ (Whole(s, vs) => Whole(s, ws))
  <2>1. IsChanged(vs, view, ws)
    BY DEF IsSeen
  <2> QED BY <2>1, ViewChanges
<1>2. view.path = vs[c].path /\ view.deepest = vs[c].deepest
  BY DEF IsSeen, IsChanged
<1> HIDE DEF c
<1>3. \A v \in 1..c : ws[v].deepest = vs[v].deepest
  <2>0. c \in Nat \ {0}
    BY <1>1
  <2>1. \A v \in 1..c : v = c \/ v \in 1..(c - 1)
    BY <2>0
  <2> QED BY <1>1, <1>2, <2>1
<1>4. Crossed(t.sent, ws)
  <2>1. Crossed(t.sent, vs)
    BY DEF Kept
  <2> QED BY <1>1, <1>3, <2>1 DEF Crossed
<1> QED BY <1>1, <1>2, <1>4 DEF Kept, c

\* A percentage is one, whatever the offset and the height.
LEMMA PercentType ==
  ASSUME NEW y \in Nat, NEW h \in Nat \ {0}
  PROVE  Min({100, Round(100 * y, h)}) \in 0..100
<1> DEFINE r == Round(100 * y, h)
           m == IF 100 <= r THEN 100 ELSE r
<1>1. r \in Nat
  BY RoundMonotone
<1> HIDE DEF r
<1>2. m \in {100, r} /\ \A x \in {100, r} : m <= x
  BY <1>1
<1>3. \A n \in {100, r} : (\A x \in {100, r} : n <= x) => n = m
  BY <1>1
<1>4. Min({100, r}) = m
  BY <1>2, <1>3 DEF Min
<1> QED BY <1>1, <1>4 DEF r

IsScroll(t, percent, vs, ws) ==
  /\ Kept(t, vs) /\ percent \in 0..100
  /\ ws = [vs EXCEPT ![Len(vs)] =
             [vs[Len(vs)] EXCEPT !.deepest = Max({vs[Len(vs)].deepest, percent})]]

\* A scroll reports the milestones between the deepest point before and the one after.
LEMMA ScrolledKeeps ==
  ASSUME NEW t, NEW vs, NEW percent, NEW ws, IsScroll(t, percent, vs, ws),
         NEW u, u = Scrolled(t, percent)
  PROVE  /\ Kept(u, ws) /\ u.engagement = t.engagement /\ u.clsValue = t.clsValue
         /\ Len(ws) = Len(vs) /\ ws[Len(ws)].seen = vs[Len(vs)].seen
         /\ ws[Len(ws)].born = vs[Len(vs)].born
         /\ LastIn(u.sent, Len(ws)) = LastIn(t.sent, Len(vs))
<1> DEFINE c == Len(vs)
           d == vs[c].deepest
           deepest == Max({d, percent})
           view == [vs[c] EXCEPT !.deepest = deepest]
           crossed == newlyCrossedMilestones(d, percent)
           b == Crossing(t, crossed)
           s == t.sent
<1>1. /\ t \in TrackerVars /\ vs \in Seq(View) /\ c \in Nat \ {0} /\ DOMAIN vs = 1..c
      /\ t.currentPath \in CleanPath /\ t.currentPath = vs[c].path /\ t.deepestScroll = d
      /\ Counted(s, vs) /\ Crossed(s, vs) /\ Whole(s, vs) /\ s \in Log
      /\ percent \in 0..100 /\ vs[c] \in View
  <2>1. t \in TrackerVars /\ vs \in Seq(View) /\ c \in Nat \ {0} /\ DOMAIN vs = 1..c
    BY DEF IsScroll, Kept
  <2>2. vs[c] \in View
    BY <2>1
  <2> QED BY <2>1, <2>2 DEF IsScroll, Kept, TrackerVars
<1>0. d \in 0..100
  <2>1. vs[c] \in View
    BY <1>1
  <2> HIDE DEF c
  <2> QED BY <2>1 DEF View
<1>2. deepest = (IF d >= percent THEN d ELSE percent) /\ deepest \in 0..100
  <2> HIDE DEF d
  <2>1. percent \in 0..100
    BY <1>1
  <2>2. d \in Int /\ percent \in Int
    BY <1>0, <2>1
  <2>3. deepest = IF d >= percent THEN d ELSE percent
    BY <2>2, MaxOfTwo
  <2> QED BY <1>0, <2>1, <2>3
<1>3. /\ view \in View /\ view.path = vs[c].path /\ view.deepest = deepest
      /\ view.seen = vs[c].seen /\ view.born = vs[c].born
  <2> HIDE DEF deepest, c, d
  <2> QED BY <1>1, <1>2 DEF View
<1>4. IsChanged(vs, view, ws)
  BY <1>1, <1>3 DEF IsScroll, IsChanged
<1>5. /\ crossed \in Seq(Nat) /\ \A i, k \in DOMAIN crossed : crossed[i] = crossed[k] => i = k
      /\ \A m \in Milestones : (\E i \in DOMAIN crossed : crossed[i] = m)
                                 <=> d < m /\ m <= percent
  <2> HIDE DEF d
  <2>1. d \in Int /\ percent \in Int
    <3>1. percent \in 0..100
      BY <1>1
    <3> QED BY <1>0, <3>1
  <2> QED BY <2>1, CrossedOnce
<1>6. u = [t EXCEPT !.sent = s \o b, !.deepestScroll = deepest]
  BY <1>1 DEF Scrolled, Crossing
<1> HIDE DEF crossed, c, d, deepest, view
<1>7. IsBatch(b, t.currentPath) /\ \A k \in DOMAIN b : b[k].type = "scroll"
  <2>1. DOMAIN b = DOMAIN crossed /\ DOMAIN crossed = 1..Len(crossed) /\ Len(crossed) \in Nat
    BY <1>5 DEF Crossing
  <2>2. ASSUME NEW k \in DOMAIN b
        PROVE  /\ b[k] \in Entry /\ b[k].path = t.currentPath /\ b[k].type = "scroll"
    <3>1. b[k] = [type |-> "scroll", path |-> t.currentPath, value |-> crossed[k]]
      BY <2>1 DEF Crossing, Event
    <3>2. crossed[k] \in Nat
      BY <1>5, <2>1
    <3> QED BY <1>1, <3>1, <3>2 DEF Entry, Payload, CleanPath
  <2>3. b \in Log
    <3>1. b \in [1..Len(crossed) -> Entry]
      BY <2>1, <2>2 DEF Crossing
    <3> QED BY <2>1, <3>1 DEF Log
  <2> QED BY <2>2, <2>3 DEF IsBatch
<1> HIDE DEF b
<1>8. /\ u \in TrackerVars /\ u.sent = s \o b /\ u.currentPath = t.currentPath
      /\ u.deepestScroll = deepest /\ u.engagement = t.engagement /\ u.clsValue = t.clsValue
  <2>1. s \o b \in Log
    BY <1>1, <1>7 DEF IsBatch, Log
  <2> DEFINE p == [t EXCEPT !.sent = s \o b]
  <2>2. /\ p \in TrackerVars /\ p.sent = s \o b /\ p.currentPath = t.currentPath
        /\ p.engagement = t.engagement /\ p.clsValue = t.clsValue
    BY <1>1, <2>1 DEF TrackerVars
  <2>3. u = [p EXCEPT !.deepestScroll = deepest]
    BY <1>6
  <2> HIDE DEF p
  <2> QED BY <1>2, <2>2, <2>3 DEF TrackerVars
<1> DEFINE z == u.sent
<1>9. Batched(s, b, t.currentPath, z) /\ LogKept(s, vs, t.currentPath)
  BY <1>1, <1>7, <1>8 DEF Batched, LogKept, c
<1>10. /\ ws \in Seq(View) /\ Len(ws) = c /\ DOMAIN ws = 1..c
       /\ ws[c] = view /\ \A v \in 1..(c - 1) : ws[v] = vs[v]
       /\ \A l : (Counted(l, vs) => Counted(l, ws)) /\ (Whole(l, vs) => Whole(l, ws))
  BY <1>4, ViewChanges DEF c
<1>11. /\ Counted(z, ws) /\ Whole(z, ws) /\ LastIn(z, c) = LastIn(s, c)
  <2>1. /\ Counted(z, vs) /\ Whole(z, vs)
        /\ (\A k \in DOMAIN b : b[k].type # "engagement")
             => LastIn(z, Len(vs)) = LastIn(s, Len(vs))
    BY <1>9, BatchKeeps
  <2> QED BY <1>7, <1>10, <2>1 DEF c
<1>12. ViewIn(s, Len(s)) = c
  BY <1>1 DEF Counted, c
<1>13. ASSUME NEW m \in Milestones
       PROVE  /\ \A v \in 1..(c - 1) : TimesIn(z, v, m) = TimesIn(s, v, m)
              /\ TimesIn(z, c, m) = TimesIn(s, c, m) + IF d < m /\ m <= percent THEN 1 ELSE 0
  <2>1. Batched(s, Crossing(t, crossed), t.currentPath, z)
    BY <1>9 DEF b
  <2> HIDE DEF s, z
  <2>2. TimesIn(z, ViewIn(s, Len(s)), m) =
           TimesIn(s, ViewIn(s, Len(s)), m)
             + IF \E i \in DOMAIN crossed : crossed[i] = m THEN 1 ELSE 0
    BY <1>5, <2>1, CrossedTimes
  <2>3. ASSUME NEW v \in 1..(c - 1) PROVE TimesIn(z, v, m) = TimesIn(s, v, m)
    <3>1. v # ViewIn(s, Len(s))
      BY <1>1, <1>12
    <3> QED BY <1>9, <3>1, BatchLeaves
  <2> QED BY <1>5, <1>12, <2>2, <2>3
<1>14. Crossed(z, ws)
  <2>1. ASSUME NEW v \in DOMAIN ws, NEW m \in Milestones
        PROVE  TimesIn(z, v, m) = IF m <= ws[v].deepest THEN 1 ELSE 0
    <3>1. TimesIn(s, v, m) = IF m <= vs[v].deepest THEN 1 ELSE 0
      BY <1>1, <1>10 DEF Crossed
    <3>2. CASE v = c
      <4>1. m \in Int
        <5>1. \A k \in DOMAIN SCROLL_MILESTONES : SCROLL_MILESTONES[k] \in Nat
          BY DEF SCROLL_MILESTONES
        <5> QED BY <5>1 DEF Milestones
      <4>2. TimesIn(s, c, m) = (IF m <= d THEN 1 ELSE 0) /\ ws[v].deepest = deepest
        BY <1>3, <1>10, <3>1, <3>2 DEF d
      <4>3. TimesIn(z, c, m) = TimesIn(s, c, m) + IF d < m /\ m <= percent THEN 1 ELSE 0
        BY <1>13
      <4>4. TimesIn(z, v, m) = (IF m <= d THEN 1 ELSE 0)
                                 + IF d < m /\ m <= percent THEN 1 ELSE 0
        BY <3>2, <4>2, <4>3
      <4>5. percent \in 0..100 /\ (m <= deepest <=> m <= d \/ m <= percent)
        BY <1>0, <1>1, <1>2, <4>1
      <4> HIDE DEF s, z
      <4> QED BY <1>0, <4>1, <4>2, <4>4, <4>5
    <3>3. CASE v # c
      <4>1. v \in 1..(c - 1)
        BY <1>1, <1>10, <3>3
      <4> QED BY <1>10, <1>13, <3>1, <4>1
    <3> QED BY <3>2, <3>3
  <2> QED BY <2>1 DEF Crossed
<1> QED BY <1>1, <1>3, <1>8, <1>10, <1>11, <1>14 DEF Kept, c

-----------------------------------------------------------------------------------
(* Each action keeps the invariant. *)

\* On a page that is not measured the script does nothing.
LEMMA SilentStep ==
  ASSUME Decided, ~listening, Around', phase' # "loading",
         listening' = listening, tracker' = tracker
  PROVE  IInv'
<1>1. tracker = Unloaded /\ tracker' = Unloaded /\ now' \in Nat
  BY TrackerAssumption DEF Decided, Around
<1>2. tracker' \in TrackerVars /\ Runs(tracker.engagement)'
  <2>1. Unloaded \in TrackerVars
    <3>1. <<>> \in Log
      BY EmptyLog
    <3> QED BY <3>1 DEF Unloaded, TrackerVars
  <2>2. Unloaded.engagement = [accumulated |-> 0, shownAt |-> NULL]
    BY DEF Unloaded
  <2> HIDE DEF Unloaded
  <2> QED BY <1>1, <2>1, <2>2 DEF Runs
<1>3. Decided'
  BY <1>1 DEF Decided
<1> QED BY <1>2, <1>3 DEF IInv

\* On one that is, the handler leaves the log and the timer as the invariant says.
LEMMA MeasuredStep ==
  ASSUME Decided, listening, Around', phase' # "loading",
         listening' = listening, signals' = signals,
         Kept(tracker', views'), Runs(tracker.engagement)', Timed'
  PROVE  IInv'
<1>1. tracker' \in TrackerVars
  BY DEF Kept
<1>2. Decided'
  BY DEF Decided
<1>3. Kept(tracker, views)'
  BY DEF Kept, TrackerVars, Counted, Crossed, Whole
<1> QED BY <1>1, <1>2, <1>3 DEF IInv

\* The timer reads the time of the view, and no report says more.
Times(t) == /\ Kept(t, views) /\ Runs(t.engagement)
            /\ ViewNow.born = "visible" =>
                 /\ ViewNow.seen = Watched(t.engagement)
                 /\ LastIn(t.sent, Len(views)) <= Round(ViewNow.seen, PerSecond)

\* It says the whole of it after a flush: what is not reported rounds to nothing.
LEMMA FlushIsWhole ==
  ASSUME NEW t, Times(t), NEW u, u = flushEngagement(t)
  PROVE  /\ Kept(u, views) /\ u.engagement = t.engagement /\ u.clsValue = t.clsValue
         /\ Left(u.sent, views)
<1> DEFINE seconds == Round(Watched(t.engagement), PerSecond)
           last == LastIn(t.sent, Len(views))
<1>1. Kept(t, views) /\ Runs(t.engagement)
  BY DEF Times
<1>2. /\ Kept(u, views) /\ u.engagement = t.engagement /\ u.clsValue = t.clsValue
      /\ LastIn(u.sent, Len(views)) = IF seconds <= 0 THEN last ELSE seconds
  BY <1>1, FlushKeeps
<1>3. seconds \in Nat
  BY <1>1, WatchedType
<1>4. last \in Nat
  <2>1. t.sent \in Log
    BY <1>1 DEF Kept, TrackerVars
  <2> QED BY <2>1, ReportsInType
<1>5. ASSUME ViewNow.born = "visible"
      PROVE  LastIn(u.sent, Len(views)) = Round(ViewNow.seen, PerSecond)
  <2>1. last <= seconds /\ seconds = Round(ViewNow.seen, PerSecond)
    BY <1>5 DEF Times
  <2> HIDE DEF seconds, last
  <2> QED BY <1>2, <1>3, <1>4, <2>1
<1> QED BY <1>2, <1>5 DEF Left, ViewNow

\* What the invariant says of a page that is measured.
LEMMA Measured ==
  ASSUME IInv, listening
  PROVE  /\ Times(tracker) /\ Kept(tracker, views) /\ Runs(tracker.engagement) /\ Timed /\ Around
         /\ Decided /\ tracker \in TrackerVars /\ views \in Seq(View) /\ Len(views) \in Nat \ {0}
         /\ ViewNow \in View /\ phase # "loading" /\ now \in Nat
         /\ LastIn(tracker.sent, Len(views)) \in Nat
<1>1. /\ Around /\ Kept(tracker, views) /\ Runs(tracker.engagement) /\ Timed /\ Decided
      /\ tracker \in TrackerVars
  BY DEF IInv
<1>2. Times(tracker)
  BY <1>1 DEF Times, Timed
<1>3. views \in Seq(View) /\ Len(views) \in Nat \ {0} /\ phase # "loading" /\ now \in Nat
  BY <1>1, TrackerAssumption DEF Around, Decided
<1>4. ViewNow \in View
  BY <1>3 DEF ViewNow
<1>5. LastIn(tracker.sent, Len(views)) \in Nat
  <2>1. tracker.sent \in Log
    BY <1>1 DEF TrackerVars
  <2> QED BY <2>1, ReportsInType
<1> QED BY <1>1, <1>2, <1>3, <1>4, <1>5

\* A handler that appends nothing and reads no clock: a shift, a return from the cache.
LEMMA SameLog ==
  ASSUME NEW t, NEW vs, Kept(t, vs), NEW u, u \in TrackerVars,
         u.sent = t.sent, u.currentPath = t.currentPath, u.deepestScroll = t.deepestScroll
  PROVE  Kept(u, vs)
BY DEF Kept

\* A layout shift adds to a sum that nothing depends on.
LEMMA LayoutShiftKeeps ==
  ASSUME IInv, LayoutShift
  PROVE  IInv'
<1>1. /\ phase = "open" /\ UNCHANGED <<signals, phase, location, visibility, now, views, listening>>
      /\ tracker' = IF listening THEN [tracker EXCEPT !.clsValue = @ + 1] ELSE tracker
  BY DEF LayoutShift, Handle, browser
<1>2. Around' /\ Decided
  BY <1>1 DEF IInv, Around, ViewNow
<1>3. CASE ~listening
  BY <1>1, <1>2, <1>3, SilentStep
<1>4. CASE listening
  <2>1. /\ tracker' \in TrackerVars /\ tracker'.sent = tracker.sent
        /\ tracker'.currentPath = tracker.currentPath
        /\ tracker'.deepestScroll = tracker.deepestScroll
        /\ tracker'.engagement = tracker.engagement
    <3>1. tracker \in TrackerVars
      BY DEF IInv
    <3>2. tracker' = [tracker EXCEPT !.clsValue = tracker.clsValue + 1]
      BY <1>1, <1>4
    <3> QED BY <3>1, <3>2 DEF TrackerVars
  <2>2. Kept(tracker', views)
    BY <1>4, <2>1, Measured, SameLog
  <2>3. Runs(tracker.engagement)' /\ Timed'
    BY <1>1, <1>4, <2>1, Measured DEF Runs, Timed, ViewNow, Watched
  <2> QED BY <1>1, <1>2, <1>4, <2>2, <2>3, MeasuredStep
<1> QED BY <1>3, <1>4

\* A page that comes back from the cache goes on where it was.
LEMMA RestoreKeeps ==
  ASSUME IInv, Restore
  PROVE  IInv'
<1>1. /\ visibility # "visible" /\ phase' = "open"
      /\ UNCHANGED <<signals, location, visibility, now, views, listening, tracker>>
  BY DEF Restore, Handle
<1>2. Around' /\ Decided
  BY <1>1 DEF IInv, Around, ViewNow
<1>3. CASE ~listening
  BY <1>1, <1>2, <1>3, SilentStep
<1>4. CASE listening
  <2>1. Kept(tracker', views')
    BY <1>1, <1>4, Measured
  <2>2. Runs(tracker.engagement)' /\ Timed'
    BY <1>1, <1>4, Measured DEF Runs, Timed, ViewNow, Watched
  <2> QED BY <1>1, <1>2, <1>4, <2>1, <2>2, MeasuredStep
<1> QED BY <1>3, <1>4

\* An outbound link, a download or an error is one event of its kind.
LEMMA ReportKeeps ==
  ASSUME IInv, NEW kind \in Kinds, Report(kind)
  PROVE  IInv'
<1>1. /\ phase = "open" /\ UNCHANGED <<signals, phase, location, visibility, now, views, listening>>
      /\ tracker' = IF listening THEN send(tracker, kind, 0) ELSE tracker
  BY DEF Report, Handle, browser
<1>2. Around' /\ Decided
  BY <1>1 DEF IInv, Around, ViewNow
<1>3. CASE ~listening
  BY <1>1, <1>2, <1>3, SilentStep
<1>4. CASE listening
  <2>1. Kept(tracker, views) /\ kind \in {"engagement", "vitals"} \cup Kinds /\ kind # "engagement"
    BY <1>4, Measured, TrackerAssumption
  <2>2. /\ Kept(tracker', views) /\ tracker'.engagement = tracker.engagement
        /\ LastIn(tracker'.sent, Len(views)) = LastIn(tracker.sent, Len(views))
    BY <1>1, <1>4, <2>1, SentKeeps
  <2>3. Runs(tracker.engagement)' /\ Timed'
    BY <1>1, <1>4, <2>2, Measured DEF Runs, Timed, ViewNow, Watched
  <2> QED BY <1>1, <1>2, <1>4, <2>2, <2>3, MeasuredStep
<1> QED BY <1>3, <1>4

\* The timer of a page out of sight holds what it had counted.
LEMMA HideKeeps ==
  ASSUME IInv, Hide
  PROVE  IInv'
<1> DEFINE t == [tracker EXCEPT !.engagement = hide(tracker.engagement)]
<1>1. /\ phase # "loading" /\ visibility = "visible" /\ visibility' = "hidden"
      /\ UNCHANGED <<signals, phase, location, now, views, listening>>
      /\ tracker' = IF listening THEN flushEngagement(t) ELSE tracker
  BY DEF Hide, Handle
<1>2. Around' /\ Decided
  BY <1>1 DEF IInv, Around, ViewNow
<1>3. CASE ~listening
  BY <1>1, <1>2, <1>3, SilentStep
<1>4. CASE listening
  <2>1. Runs(tracker.engagement) /\ tracker \in TrackerVars /\ now \in Nat
    BY <1>4, Measured
  <2>2. /\ hide(tracker.engagement) \in [accumulated : Nat, shownAt : Nat \cup {NULL}]
        /\ hide(tracker.engagement).shownAt = NULL
        /\ Runs(hide(tracker.engagement))
        /\ Watched(hide(tracker.engagement)) = Watched(tracker.engagement)
    BY <2>1, TrackerAssumption DEF Runs, hide, Watched
  <2>3. /\ t \in TrackerVars /\ t.sent = tracker.sent /\ t.currentPath = tracker.currentPath
        /\ t.deepestScroll = tracker.deepestScroll /\ t.engagement = hide(tracker.engagement)
    BY <2>1, <2>2 DEF TrackerVars
  <2> HIDE DEF t
  <2>4. Kept(t, views)
    BY <1>4, <2>3, Measured, SameLog
  <2>5. Times(t)
    BY <1>4, <2>2, <2>3, <2>4, Measured DEF Times
  <2>6. /\ Kept(tracker', views) /\ tracker'.engagement = hide(tracker.engagement)
        /\ Left(tracker'.sent, views)
    BY <1>1, <1>4, <2>3, <2>5, FlushIsWhole
  <2>7. Runs(tracker.engagement)'
    BY <1>1, <2>2, <2>6 DEF Runs
  <2>8. Timed'
    <3>1. ASSUME ViewNow.born = "visible"
          PROVE  /\ ViewNow.seen = Watched(tracker'.engagement)
                 /\ LastIn(tracker'.sent, Len(views)) = Round(ViewNow.seen, PerSecond)
      BY <1>4, <2>2, <2>6, <3>1, Measured DEF Timed, Left, ViewNow
    <3>2. Round(ViewNow.seen, PerSecond) \in Nat
      <4>1. ViewNow.seen \in Nat
        BY <1>4, Measured DEF View
      <4> QED BY <4>1, TrackerAssumption, RoundMonotone
    <3> QED BY <1>1, <2>2, <2>6, <3>1, <3>2 DEF Timed, ViewNow, Watched
  <2> QED BY <1>1, <1>2, <1>4, <2>6, <2>7, <2>8, MeasuredStep
<1> QED BY <1>3, <1>4

\* The timer of a page that is seen again counts from now.
LEMMA ShowKeeps ==
  ASSUME IInv, Show
  PROVE  IInv'
<1> DEFINE e == show(tracker.engagement)
<1>1. /\ phase = "open" /\ visibility # "visible" /\ visibility' = "visible"
      /\ UNCHANGED <<signals, phase, location, now, views, listening>>
      /\ tracker' = IF listening THEN [tracker EXCEPT !.engagement = e] ELSE tracker
  BY DEF Show, Handle
<1>2. Around' /\ Decided
  BY <1>1 DEF IInv, Around, ViewNow
<1>3. CASE ~listening
  BY <1>1, <1>2, <1>3, SilentStep
<1>4. CASE listening
  <2>1. Runs(tracker.engagement) /\ tracker \in TrackerVars /\ now \in Nat
    BY <1>4, Measured
  <2>2. /\ e \in [accumulated : Nat, shownAt : Nat \cup {NULL}] /\ e.shownAt # NULL
        /\ Runs(e) /\ Watched(e) = Watched(tracker.engagement)
    BY <2>1, TrackerAssumption DEF Runs, show, Watched
  <2> HIDE DEF e
  <2>3. /\ tracker' \in TrackerVars /\ tracker'.sent = tracker.sent
        /\ tracker'.currentPath = tracker.currentPath
        /\ tracker'.deepestScroll = tracker.deepestScroll /\ tracker'.engagement = e
    BY <1>1, <1>4, <2>1, <2>2 DEF TrackerVars
  <2>4. Kept(tracker', views)
    BY <1>4, <2>3, Measured, SameLog
  <2>5. Runs(tracker.engagement)'
    BY <1>1, <2>2, <2>3 DEF Runs
  <2>6. Timed'
    <3>1. ASSUME ViewNow.born = "visible"
          PROVE  /\ ViewNow.seen = Watched(e)
                 /\ LastIn(tracker'.sent, Len(views)) <= Round(ViewNow.seen, PerSecond)
      BY <1>4, <2>2, <2>3, <3>1, Measured DEF Timed
    <3> QED BY <1>1, <2>2, <2>3, <3>1 DEF Timed, ViewNow, Watched
  <2> QED BY <1>1, <1>2, <1>4, <2>4, <2>5, <2>6, MeasuredStep
<1> QED BY <1>3, <1>4

\* The shifts are reported behind the time, which stays the last report of its kind.
LEMMA PageHideKeeps ==
  ASSUME IInv, PageHide
  PROVE  IInv'
<1> DEFINE t == flushEngagement(tracker)
<1>1. /\ phase = "open" /\ phase' = "leaving"
      /\ UNCHANGED <<signals, location, visibility, now, views, listening>>
      /\ tracker' = IF listening THEN sendCls(t) ELSE tracker
  BY DEF PageHide, Handle
<1>2. Around' /\ Decided
  BY <1>1 DEF IInv, Around, ViewNow
<1>3. CASE ~listening
  BY <1>1, <1>2, <1>3, SilentStep
<1>4. CASE listening
  <2>1. Kept(t, views) /\ t.engagement = tracker.engagement /\ Left(t.sent, views)
    BY <1>4, Measured, FlushIsWhole
  <2> HIDE DEF t
  <2>2. /\ Kept(tracker', views) /\ tracker'.engagement = tracker.engagement
        /\ LastIn(tracker'.sent, Len(views)) = LastIn(t.sent, Len(views))
    <3>1. t.clsValue \in Nat
      BY <2>1 DEF Kept, TrackerVars
    <3>2. CASE t.clsValue > 0
      <4>1. tracker' = send(t, "vitals", t.clsValue)
        BY <1>1, <1>4, <3>2 DEF sendCls
      <4> QED BY <2>1, <3>1, <4>1, SentKeeps
    <3>3. CASE ~ (t.clsValue > 0)
      BY <1>1, <1>4, <2>1, <3>3 DEF sendCls
    <3> QED BY <3>2, <3>3
  <2>3. Runs(tracker.engagement)'
    BY <1>1, <1>4, <2>2, Measured DEF Runs
  <2>4. Timed'
    <3>1. ASSUME ViewNow.born = "visible"
          PROVE  /\ tracker'.engagement.shownAt = NULL <=> visibility # "visible"
                 /\ ViewNow.seen = Watched(tracker'.engagement)
                 /\ LastIn(tracker'.sent, Len(views)) = Round(ViewNow.seen, PerSecond)
      BY <1>4, <2>1, <2>2, <3>1, Measured DEF Timed, Left, ViewNow
    <3>2. Round(ViewNow.seen, PerSecond) \in Nat
      <4>1. ViewNow.seen \in Nat
        BY <1>4, Measured DEF View
      <4> QED BY <4>1, TrackerAssumption, RoundMonotone
    <3> QED BY <1>1, <3>1, <3>2 DEF Timed, ViewNow, Watched
  <2> QED BY <1>1, <1>2, <1>4, <2>2, <2>3, <2>4, MeasuredStep
<1> QED BY <1>3, <1>4

\* The time of the view in sight and the time its timer reads grow together.
LEMMA TickKeeps ==
  ASSUME IInv, Tick
  PROVE  IInv'
<1> DEFINE seen == ViewNow.seen + IF visibility = "visible" /\ phase = "open" THEN 1 ELSE 0
           view == [ViewNow EXCEPT !.seen = seen]
<1>1. /\ phase # "loading" /\ now < MaxTime /\ now' = now + 1
      /\ phase = "leaving" => visibility # "visible"
      /\ UNCHANGED <<signals, phase, location, visibility, listening, tracker>>
  BY DEF Tick, Handle
<1>2. /\ Around /\ Decided /\ views \in Seq(View) /\ Len(views) \in Nat \ {0}
      /\ ViewNow \in View /\ now \in Nat
  BY TrackerAssumption DEF IInv, Around, ViewNow
<1>3. seen \in Nat
  BY <1>2 DEF View
<1>4. views' = [views EXCEPT ![Len(views)] = view]
  <2>1. views' = [views EXCEPT ![Len(views)] =
                    [ViewNow EXCEPT !.seen = IF visibility = "visible" /\ phase = "open"
                                             THEN ViewNow.seen + 1 ELSE ViewNow.seen]]
    BY DEF Tick, Here, ViewNow
  <2>2. (IF visibility = "visible" /\ phase = "open" THEN ViewNow.seen + 1 ELSE ViewNow.seen)
          = seen
    BY <1>2 DEF View
  <2> QED BY <2>1, <2>2
<1>5. /\ view \in View /\ view.path = ViewNow.path /\ view.deepest = ViewNow.deepest
      /\ view.born = ViewNow.born /\ view.seen = seen
  <2> HIDE DEF seen
  <2> QED BY <1>2, <1>3 DEF View
<1> HIDE DEF view
<1>6. IsSeen(views, view, views')
  BY <1>2, <1>4, <1>5 DEF IsSeen, IsChanged, ViewNow
<1>7. views' \in Seq(View) /\ Len(views') = Len(views) /\ ViewNow' = view
  <2>1. IsChanged(views, view, views')
    BY <1>6 DEF IsSeen
  <2>2. views' \in Seq(View) /\ Len(views') = Len(views) /\ views'[Len(views)] = view
    BY <2>1, ViewChanges
  <2> QED BY <2>2 DEF ViewNow
<1>8. Around'
  <2>1. now' \in 0..MaxTime
    BY <1>1, <1>2, TrackerAssumption
  <2> QED BY <1>1, <1>2, <1>5, <1>7, <2>1 DEF Around
<1>9. CASE ~listening
  BY <1>1, <1>2, <1>8, <1>9, SilentStep
<1>10. CASE listening
  <2>1. Kept(tracker', views')
    <3>1. Kept(tracker, views)
      BY <1>10, Measured
    <3>2. Kept(tracker, views')
      BY <1>6, <3>1, SeenKeeps
    <3> QED BY <1>1, <3>2
  <2>2. Runs(tracker.engagement)'
    <3>1. Runs(tracker.engagement)
      BY <1>10, Measured
    <3> QED BY <1>1, <1>2, <3>1 DEF Runs
  <2>3. Timed'
    <3>1. SUFFICES ASSUME ViewNow.born = "visible"
                   PROVE  /\ tracker.engagement.shownAt = NULL <=> visibility # "visible"
                          /\ seen = Watched(tracker.engagement)'
                          /\ LastIn(tracker.sent, Len(views)) <= Round(seen, PerSecond)
                          /\ visibility # "visible" \/ phase = "leaving" =>
                               LastIn(tracker.sent, Len(views)) = Round(seen, PerSecond)
      BY <1>1, <1>5, <1>7 DEF Timed
    <3>2. /\ tracker.engagement.shownAt = NULL <=> visibility # "visible"
          /\ ViewNow.seen = Watched(tracker.engagement)
          /\ LastIn(tracker.sent, Len(views)) <= Round(ViewNow.seen, PerSecond)
          /\ visibility # "visible" \/ phase = "leaving" =>
               LastIn(tracker.sent, Len(views)) = Round(ViewNow.seen, PerSecond)
          /\ LastIn(tracker.sent, Len(views)) \in Nat /\ Runs(tracker.engagement)
      BY <1>10, <3>1, Measured DEF Timed
    <3>3. phase \in {"open", "leaving"}
      BY <1>1, <1>2 DEF Around
    <3>4. seen = Watched(tracker.engagement)'
      <4>1. CASE visibility = "visible"
        <5>1. /\ tracker.engagement.shownAt # NULL /\ phase = "open"
              /\ seen = ViewNow.seen + 1
          BY <1>1, <3>2, <3>3, <4>1
        <5> HIDE DEF seen
        <5>2. /\ tracker.engagement.accumulated \in Nat /\ tracker.engagement.shownAt \in Nat
          BY <3>2, <5>1 DEF Runs
        <5>3. ViewNow.seen = tracker.engagement.accumulated + (now - tracker.engagement.shownAt)
          BY <3>2, <5>1 DEF Watched
        <5>4. Watched(tracker.engagement)'
                = tracker.engagement.accumulated + (now + 1 - tracker.engagement.shownAt)
          <6>1. tracker' = tracker /\ now' = now + 1
            BY <1>1
          <6>2. tracker.engagement.shownAt # NULL
            BY <5>1
          <6>3. /\ Watched(tracker.engagement)'
                     = tracker'.engagement.accumulated
                         + IF tracker'.engagement.shownAt = NULL THEN 0
                           ELSE now' - tracker'.engagement.shownAt
            BY DEF Watched
          <6> QED BY <1>2, <5>2, <6>1, <6>2, <6>3, SMTT(30)
        <5> QED BY <1>2, <5>1, <5>2, <5>3, <5>4
      <4>2. CASE visibility # "visible"
        <5>1. tracker.engagement.shownAt = NULL /\ seen = ViewNow.seen
          BY <1>2, <3>2, <4>2 DEF View
        <5> HIDE DEF seen
        <5> QED BY <1>1, <1>2, <3>2, <5>1 DEF Watched, Runs
      <4> QED BY <4>1, <4>2
    <3>5. /\ Round(ViewNow.seen, PerSecond) \in Nat /\ Round(seen, PerSecond) \in Nat
          /\ Round(ViewNow.seen, PerSecond) <= Round(seen, PerSecond)
      <4>1. ViewNow.seen \in Nat /\ ViewNow.seen <= seen
        BY <1>2 DEF View
      <4> HIDE DEF seen
      <4> QED BY <1>3, <4>1, TrackerAssumption, RoundMonotone
    <3>6. visibility # "visible" \/ phase = "leaving" => seen = ViewNow.seen
      BY <1>2, <3>3 DEF View
    <3> HIDE DEF seen
    <3> QED BY <3>2, <3>4, <3>5, <3>6
  <2> QED BY <1>1, <1>2, <1>8, <1>10, <2>1, <2>2, <2>3, MeasuredStep
<1> QED BY <1>9, <1>10

\* A scroll reports what it crosses, and only a deeper one.
LEMMA ScrollKeeps ==
  ASSUME IInv, NEW y \in Offsets, NEW scrollable \in Heights, Scroll(y, scrollable)
  PROVE  IInv'
<1> DEFINE percent == Min({100, Round(100 * y, scrollable)})
           deepest == Max({ViewNow.deepest, percent})
           view == [ViewNow EXCEPT !.deepest = deepest]
<1>1. /\ phase = "open" /\ scrollable > 0
      /\ UNCHANGED <<signals, phase, location, visibility, now, listening>>
      /\ tracker' = IF listening THEN Scrolled(tracker, percent) ELSE tracker
      /\ views' = [views EXCEPT ![Len(views)] = view]
  BY DEF Scroll, Handle, Here, browser, ViewNow
<1>2. /\ Around /\ Decided /\ views \in Seq(View) /\ Len(views) \in Nat \ {0}
      /\ ViewNow \in View /\ now \in Nat
  BY TrackerAssumption DEF IInv, Around, ViewNow
<1>3. percent \in 0..100
  <2>1. y \in Nat /\ scrollable \in Nat \ {0}
    BY <1>1, TrackerAssumption
  <2> QED BY <2>1, PercentType
<1> HIDE DEF percent
<1>4. deepest \in 0..100
  <2>1. ViewNow.deepest \in 0..100
    BY <1>2 DEF View
  <2>2. deepest = IF ViewNow.deepest >= percent THEN ViewNow.deepest ELSE percent
    <3>1. ViewNow.deepest \in Int /\ percent \in Int
      BY <1>3, <2>1
    <3> QED BY <3>1, MaxOfTwo
  <2> QED BY <1>3, <2>1, <2>2
<1>5. view \in View /\ view.path = ViewNow.path
  <2> HIDE DEF deepest
  <2> QED BY <1>2, <1>4 DEF View
<1>6. IsChanged(views, view, views')
  BY <1>1, <1>2, <1>5 DEF IsChanged, ViewNow
<1>7. views' \in Seq(View) /\ Len(views') = Len(views) /\ ViewNow' = view
  <2>1. views' \in Seq(View) /\ Len(views') = Len(views) /\ views'[Len(views)] = view
    BY <1>6, ViewChanges
  <2> QED BY <2>1 DEF ViewNow
<1>8. Around'
  <2> HIDE DEF view
  <2> QED BY <1>1, <1>2, <1>5, <1>7 DEF Around
<1>9. CASE ~listening
  BY <1>1, <1>2, <1>8, <1>9, SilentStep
<1>10. CASE listening
  <2>1. IsScroll(tracker, percent, views, views')
    BY <1>1, <1>3, <1>10, Measured DEF IsScroll, ViewNow
  <2>2. /\ Kept(tracker', views') /\ tracker'.engagement = tracker.engagement
        /\ Len(views') = Len(views) /\ views'[Len(views')].seen = views[Len(views)].seen
        /\ views'[Len(views')].born = views[Len(views)].born
        /\ LastIn(tracker'.sent, Len(views')) = LastIn(tracker.sent, Len(views))
    <3>1. tracker' = Scrolled(tracker, percent)
      BY <1>1, <1>10
    <3> QED BY <2>1, <3>1, ScrolledKeeps
  <2>3. Runs(tracker.engagement)'
    BY <1>1, <1>10, <2>2, Measured DEF Runs
  <2>4. Timed'
    <3>1. Timed
      BY <1>10, Measured
    <3> QED BY <1>1, <2>2, <3>1 DEF Timed, ViewNow, Watched
  <2> QED BY <1>1, <1>2, <1>8, <1>10, <2>2, <2>3, <2>4, MeasuredStep
<1> QED BY <1>9, <1>10

\* A view as it starts.
LEMMA NewViewType ==
  ASSUME NEW href \in Hrefs, visibility \in {"visible", "hidden", "prerender"}
  PROVE  /\ NewView(href) \in View /\ NewView(href).path = sanitizePagePath(href)
         /\ NewView(href).born = visibility /\ NewView(href).seen = 0
         /\ NewView(href).deepest = 0
<1>1. sanitizePagePath(href) \in Path
  BY SanitizedIsClean DEF CleanPath
<1> QED BY <1>1 DEF NewView, View

\* The timer and the reports of a view that starts now.
StartsNow == /\ tracker.engagement = createEngagementTimer /\ phase # "leaving"
             /\ ViewNow.seen = 0 /\ ViewNow.born = visibility
             /\ LastIn(tracker.sent, Len(views)) = 0

\* A timer that starts now has counted nothing.
LEMMA TimedFromNow ==
  ASSUME Around', StartsNow'
  PROVE  Runs(tracker.engagement)' /\ Timed'
<1>1. now' \in Nat /\ now' # NULL
  BY TrackerAssumption DEF Around
<1>2. tracker'.engagement = [accumulated |-> 0, shownAt |-> now']
  BY DEF StartsNow, createEngagementTimer
<1>3. tracker'.engagement.accumulated = 0 /\ tracker'.engagement.shownAt = now'
  BY <1>2
<1>4. Runs(tracker.engagement)'
  BY <1>1, <1>2, <1>3 DEF Runs
<1>5. Watched(tracker.engagement)' = 0
  <2>1. Watched(tracker.engagement)' = tracker'.engagement.accumulated
          + IF tracker'.engagement.shownAt = NULL THEN 0 ELSE now' - tracker'.engagement.shownAt
    BY DEF Watched
  <2>2. Watched(tracker.engagement)' = 0 + (now' - now')
    BY <1>1, <1>3, <2>1
  <2>3. ASSUME NEW n \in Nat PROVE 0 + (n - n) = 0
    OBVIOUS
  <2> QED BY <1>1, <2>2, <2>3
<1>6. Round(0, PerSecond) \in Nat
  BY TrackerAssumption, RoundMonotone
<1>7. Timed'
  BY <1>1, <1>3, <1>5, <1>6 DEF Timed, StartsNow
<1> QED BY <1>4, <1>7

\* The page before is reported to its end, then the next one starts; or it goes on.
LEMMA NavigateKeeps ==
  ASSUME IInv, NEW href \in Hrefs, Navigate(href)
  PROVE  IInv'
<1> DEFINE path == sanitizePagePath(href)
           t == flushEngagement(tracker)
           same == path = sanitizePagePath(location)
<1>1. /\ phase = "open" /\ location' = href
      /\ UNCHANGED <<signals, phase, visibility, now, listening>>
      /\ tracker' = IF listening THEN trackPageview(t, path) ELSE tracker
      /\ views' = IF same THEN views ELSE Append(views, NewView(href))
  BY DEF Navigate, Handle, Navigated
<1>2. /\ Around /\ Decided /\ views \in Seq(View) /\ Len(views) \in Nat \ {0}
      /\ visibility \in {"visible", "hidden", "prerender"} /\ now \in Nat
      /\ ViewNow.path = sanitizePagePath(location)
  BY TrackerAssumption DEF IInv, Around
<1>3. /\ NewView(href) \in View /\ NewView(href).path = path
      /\ NewView(href).born = visibility /\ NewView(href).seen = 0
      /\ NewView(href).deepest = 0
  BY <1>2, NewViewType
<1>4. path \in CleanPath
  BY SanitizedIsClean
<1> DEFINE new == NewView(href)
<1> HIDE DEF path, t, new
<1>5. CASE same
  <2>1. views' = views /\ ViewNow' = ViewNow
    BY <1>1, <1>5 DEF ViewNow
  <2>2. Around'
    BY <1>1, <1>2, <1>5, <2>1 DEF Around, path
  <2>3. CASE ~listening
    BY <1>1, <1>2, <2>2, <2>3, SilentStep
  <2>4. CASE listening
    <3>1. Kept(t, views) /\ t.engagement = tracker.engagement /\ Left(t.sent, views)
      BY <2>4, Measured, FlushIsWhole DEF t
    <3>2. path = t.currentPath
      BY <1>2, <1>5, <3>1 DEF Kept, ViewNow
    <3>3. tracker' = t
      BY <1>1, <2>4, <3>2 DEF trackPageview
    <3>4. Runs(tracker.engagement)'
      BY <1>1, <2>4, <3>1, <3>3, Measured DEF Runs
    <3>5. Timed'
      <4>1. ASSUME ViewNow.born = "visible"
            PROVE  /\ t.engagement.shownAt = NULL <=> visibility # "visible"
                   /\ ViewNow.seen = Watched(t.engagement)
                   /\ LastIn(t.sent, Len(views)) = Round(ViewNow.seen, PerSecond)
        BY <2>4, <3>1, <4>1, Measured DEF Timed, Left, ViewNow
      <4>2. Round(ViewNow.seen, PerSecond) \in Nat
        <5>1. ViewNow.seen \in Nat
          BY <2>4, Measured DEF View
        <5> QED BY <5>1, TrackerAssumption, RoundMonotone
      <4> QED BY <1>1, <2>1, <3>3, <4>1, <4>2 DEF Timed, Watched
    <3>6. Kept(tracker', views')
      BY <2>1, <3>1, <3>3
    <3> QED BY <1>1, <1>2, <2>2, <2>4, <3>4, <3>5, <3>6, MeasuredStep
  <2> QED BY <2>3, <2>4
<1>6. CASE ~same
  <2>1. /\ views' = Append(views, new) /\ views' \in Seq(View)
        /\ Len(views') = Len(views) + 1 /\ ViewNow' = new
    <3>1. views' = Append(views, new)
      BY <1>1, <1>6 DEF new
    <3>2. new \in View
      BY <1>3 DEF new
    <3> QED BY <1>2, <3>1, <3>2, AppendedLast DEF ViewNow
  <2>2. Around'
    BY <1>1, <1>2, <1>3, <2>1 DEF Around, path, new
  <2>3. CASE ~listening
    BY <1>1, <1>2, <2>2, <2>3, SilentStep
  <2>4. CASE listening
    <3>1. Kept(t, views) /\ Left(t.sent, views)
      BY <2>4, Measured, FlushIsWhole DEF t
    <3>2. path # t.currentPath
      BY <1>2, <1>6, <3>1 DEF Kept, ViewNow
    <3>3. IsNext(t, views, path, views', new)
      BY <1>3, <1>4, <2>1, <3>2 DEF IsNext, new
    <3>4. Ready(t, views)
      BY <3>1 DEF Kept, Ready
    <3>5. tracker' = trackPageview(t, path)
      BY <1>1, <2>4
    <3>6. /\ Kept(tracker', views') /\ tracker'.engagement = createEngagementTimer
          /\ LastIn(tracker'.sent, Len(views')) = 0
      BY <1>2, <3>3, <3>4, <3>5, PageKeeps
    <3>7. tracker'.engagement = createEngagementTimer'
      BY <1>1, <3>6 DEF createEngagementTimer
    <3>8. ViewNow'.seen = 0 /\ ViewNow'.born = visibility'
      BY <1>1, <1>3, <2>1 DEF new
    <3>9. Runs(tracker.engagement)' /\ Timed'
      <4>1. StartsNow'
        BY <1>1, <3>6, <3>7, <3>8 DEF StartsNow
      <4> QED BY <2>2, <4>1, TimedFromNow
    <3> QED BY <1>1, <1>2, <2>2, <2>4, <3>6, <3>9, MeasuredStep
  <2> QED BY <2>3, <2>4
<1> QED BY <1>5, <1>6

\* The script starts on the page it finds, with the first view of the visit.
LEMMA LoadKeeps ==
  ASSUME IInv, Load
  PROVE  IInv'
<1> DEFINE path == sanitizePagePath(location)
<1>1. /\ phase = "loading" /\ phase' = "open" /\ listening' = shouldTrack(signals)
      /\ tracker' = IF listening' THEN trackPageview(tracker, path) ELSE tracker
      /\ UNCHANGED <<signals, location, visibility, now, views>>
  BY DEF Load
<1>2. /\ Around /\ Decided /\ tracker \in TrackerVars /\ Runs(tracker.engagement)
      /\ views \in Seq(View) /\ location \in Hrefs /\ now \in Nat
      /\ visibility \in {"visible", "hidden", "prerender"} /\ ViewNow.path = path
  BY TrackerAssumption DEF IInv, Around
<1>3. /\ ~listening /\ tracker = Unloaded
      /\ Len(views) = 1 /\ ViewNow.seen = 0 /\ ViewNow.deepest = 0 /\ ViewNow.born = visibility
  BY <1>1, <1>2 DEF Decided
<1>4. listening' \in BOOLEAN
  BY <1>1 DEF shouldTrack
<1>5. Around'
  BY <1>1, <1>2, <1>4 DEF Around, ViewNow
<1>6. path \in CleanPath /\ path # NULL
  BY <1>2, SanitizedIsClean
<1> HIDE DEF path
<1>7. CASE ~listening'
  <2>1. tracker' = tracker
    BY <1>1, <1>7
  <2>2. Runs(tracker.engagement)'
    BY <1>1, <1>2, <2>1 DEF Runs
  <2>3. Decided'
    BY <1>1, <1>3, <1>7, <2>1 DEF Decided
  <2> QED BY <1>2, <1>5, <1>7, <2>1, <2>2, <2>3 DEF IInv
<1>8. CASE listening'
  <2>1. tracker' = trackPageview(tracker, path)
    BY <1>1, <1>8
  <2>2. /\ tracker.sent = <<>> /\ tracker.currentPath = NULL
    BY <1>3 DEF Unloaded
  <2>3. /\ <<>> \in Seq(View) /\ Len(<<>>) = 0
        /\ Counted(tracker.sent, <<>>) /\ Crossed(tracker.sent, <<>>)
        /\ Whole(tracker.sent, <<>>)
    <3>1. Len(<<>>) = 0 /\ ViewIn(<<>>, 0) = 0 /\ DOMAIN <<>> = {}
      BY EmptyLog
    <3>2. Counted(<<>>, <<>>) /\ Crossed(<<>>, <<>>) /\ Whole(<<>>, <<>>)
      BY <3>1 DEF Counted, Crossed, Whole
    <3> QED BY <2>2, <3>1, <3>2
  <2>4. ViewNow \in View /\ views = Append(<<>>, ViewNow)
    BY <1>2, <1>3, SMTT(30) DEF ViewNow
  <2>5. IsNext(tracker, <<>>, path, views, ViewNow)
    BY <1>2, <1>3, <1>6, <2>2, <2>4 DEF IsNext
  <2>6. /\ Kept(tracker', views) /\ tracker'.engagement = createEngagementTimer
        /\ LastIn(tracker'.sent, Len(views)) = 0
    <3> DEFINE none == <<>>
    <3> HIDE DEF none
    <3>1. Ready(tracker, none) /\ IsNext(tracker, none, path, views, ViewNow)
      BY <1>2, <2>3, <2>5 DEF none, Ready
    <3> QED BY <1>2, <2>1, <3>1, PageKeeps
  <2>7. Kept(tracker', views')
    BY <1>1, <2>6
  <2>8. Runs(tracker.engagement)' /\ Timed'
    <3>1. tracker'.engagement = createEngagementTimer'
      BY <1>1, <2>6 DEF createEngagementTimer
    <3>2. StartsNow'
      BY <1>1, <1>3, <2>6, <3>1 DEF StartsNow, ViewNow
    <3> QED BY <1>5, <3>2, TimedFromNow
  <2>9. Decided'
    BY <1>1, <1>8 DEF Decided
  <2>10. tracker' \in TrackerVars /\ Kept(tracker, views)'
    BY <2>7 DEF Kept, TrackerVars, Counted, Crossed, Whole
  <2> QED BY <1>5, <2>8, <2>9, <2>10 DEF IInv
<1> QED BY <1>7, <1>8

\* Before the page is loaded nothing is recorded.
LEMMA InitKeeps == Init => IInv
<1> SUFFICES ASSUME Init PROVE IInv
  OBVIOUS
<1>1. /\ signals \in Signals /\ visibility = signals.visibilityState
      /\ phase = "loading" /\ location \in Hrefs /\ now = 0
      /\ listening = FALSE /\ tracker = Unloaded /\ views = <<NewView(location)>>
  BY DEF Init
<1>2. visibility \in {"visible", "hidden", "prerender"}
  BY <1>1, PageAssumption
<1>3. /\ NewView(location) \in View /\ NewView(location).path = sanitizePagePath(location)
      /\ NewView(location).born = visibility /\ NewView(location).seen = 0
      /\ NewView(location).deepest = 0
  BY <1>1, <1>2, NewViewType
<1>4. views \in Seq(View) /\ Len(views) = 1 /\ ViewNow = NewView(location)
  BY <1>1, <1>3 DEF ViewNow
<1>5. Around
  <2>1. now \in 0..MaxTime /\ listening \in BOOLEAN
    <3>1. now = 0
      BY <1>1
    <3>2. now \in 0..MaxTime
      BY <3>1, TrackerAssumption
    <3>3. listening \in BOOLEAN
      BY <1>1
    <3> QED BY <3>2, <3>3
  <2>2. ViewNow.path = sanitizePagePath(location)
    BY <1>3, <1>4
  <2>3. signals \in Signals /\ location \in Hrefs /\ phase \in {"loading", "open", "leaving"}
    BY <1>1
  <2> QED BY <1>2, <1>4, <2>1, <2>2, <2>3 DEF Around
<1>6. Unloaded \in TrackerVars /\ Unloaded.engagement = [accumulated |-> 0, shownAt |-> NULL]
  <2>1. <<>> \in Log
    BY EmptyLog
  <2> QED BY <2>1 DEF Unloaded, TrackerVars
<1>7. Runs(tracker.engagement)
  BY <1>1, <1>6 DEF Runs
<1>8. Decided
  BY <1>1, <1>3, <1>4 DEF Decided
<1> QED BY <1>1, <1>5, <1>6, <1>7, <1>8 DEF IInv

-----------------------------------------------------------------------------------
(* The theorems. *)

\* The log, the timer and the views agree in every state a page can reach
\* (tracker.ts:59-151, engagementTimer.ts, consent.ts).
THEOREM TrackerInvariant == Spec => []IInv
<1>1. IInv /\ [Next]_vars => IInv'
  <2> SUFFICES ASSUME IInv, [Next]_vars PROVE IInv'
    OBVIOUS
  <2>load. CASE Load
    BY <2>load, LoadKeeps
  <2>tick. CASE Tick
    BY <2>tick, TickKeeps
  <2>hide. CASE Hide
    BY <2>hide, HideKeeps
  <2>show. CASE Show
    BY <2>show, ShowKeeps
  <2>pagehide. CASE PageHide
    BY <2>pagehide, PageHideKeeps
  <2>restore. CASE Restore
    BY <2>restore, RestoreKeeps
  <2>shift. CASE LayoutShift
    BY <2>shift, LayoutShiftKeeps
  <2>navigate. ASSUME NEW href \in Hrefs, Navigate(href) PROVE IInv'
    BY <2>navigate, NavigateKeeps
  <2>scroll. ASSUME NEW y \in Offsets, NEW scrollable \in Heights, Scroll(y, scrollable) PROVE IInv'
    BY <2>scroll, ScrollKeeps
  <2>report. ASSUME NEW kind \in Kinds, Report(kind) PROVE IInv'
    BY <2>report, ReportKeeps
  <2>stutter. CASE UNCHANGED vars
    <3>1. UNCHANGED <<signals, phase, location, visibility, now, listening, tracker, views>>
      BY <2>stutter DEF vars, browser
    <3> QED BY <3>1 DEF IInv, Around, Decided, Runs, Timed, ViewNow, Watched,
                        Kept, TrackerVars, Counted, Crossed, Whole
  <2> QED BY <2>load, <2>tick, <2>hide, <2>show, <2>pagehide, <2>restore,
              <2>shift, <2>navigate, <2>scroll, <2>report, <2>stutter DEF Next
<1> QED BY <1>1, InitKeeps, PTL DEF Spec

\* Every variable keeps its type; the time a view has counted never exceeds the time there was.
THEOREM TrackerTyping == Spec => []TypeOK
<1>1. IInv => TypeOK
  <2> SUFFICES ASSUME IInv PROVE TypeOK
    OBVIOUS
  <2>parts. Around /\ tracker \in TrackerVars /\ Runs(tracker.engagement)
    BY DEF IInv
  <2>sent. tracker.sent \in Seq(Payload)
    <3>1. tracker.sent \in Seq(Entry)
      BY <2>parts DEF TrackerVars, Log
    <3>2. \A e \in Entry : e \in Payload
      BY DEF Entry
    <3> HIDE DEF Entry, Payload
    <3> QED BY <3>1, <3>2
  <2>place. /\ tracker.currentPath \in Path \cup {NULL} /\ tracker.deepestScroll \in 0..100
            /\ tracker.clsValue \in Nat
    BY <2>parts DEF TrackerVars, CleanPath
  <2>timer. /\ tracker.engagement.accumulated \in 0..now
            /\ tracker.engagement.shownAt \in 0..now \cup {NULL}
    BY <2>parts DEF Runs
  <2> QED BY <2>parts, <2>sent, <2>place, <2>timer DEF TypeOK, Around
<1> QED BY <1>1, TrackerInvariant, PTL

\* What the properties read from the log is what the invariant is about.
LEMMA ReadOff ==
  /\ \A i : ViewOf(i) = ViewIn(tracker.sent, i)
  /\ \A v, type : Reports(v, type) = ReportsIn(tracker.sent, v, type)
  /\ \A v : LastReport(v) = LastIn(tracker.sent, v)
<1>1. \A i : ViewOf(i) = ViewIn(tracker.sent, i)
  BY DEF ViewOf, ViewIn, Quantify, Sent
<1>2. \A v, type : Reports(v, type) = ReportsIn(tracker.sent, v, type)
  BY <1>1 DEF Reports, ReportsIn, Sent
<1>3. \A v : LastReport(v) = LastIn(tracker.sent, v)
  BY <1>2 DEF LastReport, LastIn, Sent
<1> QED BY <1>1, <1>2, <1>3

\* An opt-out sends nothing for as long as the page lives, and no event ever carries what
\* looks like an identifier, or a parameter but a campaign's (consent.ts, PagePath.ts).
THEOREM NothingPersonal == Spec => []NothingPersonalIsSent
<1>1. IInv => NothingPersonalIsSent
  <2> SUFFICES ASSUME IInv, NEW i \in DOMAIN tracker.sent
               PROVE  /\ ~OptedOut /\ ~Unvisited
                      /\ Sent(i).path.params \subseteq ALLOWED_QUERY_PARAMS
                      /\ \A k \in DOMAIN Sent(i).path.segments :
                           Sent(i).path.segments[k].looks = "plain"
    BY DEF NothingPersonalIsSent
  <2>1. tracker \in TrackerVars /\ Decided
    BY DEF IInv
  <2>2. listening
    <3> SUFFICES ASSUME ~listening PROVE FALSE
      OBVIOUS
    <3>1. tracker.sent = <<>>
      BY <2>1 DEF Decided, Unloaded
    <3> QED BY <3>1
  <2>3. ~OptedOut /\ ~Unvisited
    BY <2>1, <2>2 DEF Decided, shouldTrack, OptedOut, Unvisited
  <2>4. Sent(i).path \in CleanPath
    <3>1. tracker.sent \in Seq(Entry)
      BY <2>1 DEF TrackerVars, Log
    <3>2. tracker.sent[i] \in Entry
      BY <3>1
    <3> QED BY <3>2 DEF Entry, Sent
  <2> QED BY <2>3, <2>4 DEF CleanPath
<1> QED BY <1>1, TrackerInvariant, PTL

\* Every stay on a path is one page view, and every event after it names its page, however
\* the calls of the browser are ordered (tracker.ts:70-100).
THEOREM PagesNamed == Spec => []EventsNameTheirPage
<1>1. IInv => EventsNameTheirPage
  <2> SUFFICES ASSUME IInv, listening
               PROVE  /\ Quantify(DOMAIN tracker.sent, LAMBDA i : Sent(i).type = "pageview")
                           = Len(views)
                      /\ \A i \in DOMAIN tracker.sent :
                           ViewOf(i) \in DOMAIN views /\ Sent(i).path = views[ViewOf(i)].path
    BY DEF EventsNameTheirPage
  <2>1. Counted(tracker.sent, views) /\ tracker.sent \in Log
    BY Measured DEF Kept, TrackerVars
  <2>2. DOMAIN tracker.sent = 1..Len(tracker.sent)
    BY <2>1 DEF Log
  <2>3. Quantify(DOMAIN tracker.sent, LAMBDA i : Sent(i).type = "pageview")
          = ViewIn(tracker.sent, Len(tracker.sent))
    BY <2>2 DEF Quantify, ViewIn, Sent
  <2>4. ASSUME NEW i \in DOMAIN tracker.sent
        PROVE  ViewOf(i) \in DOMAIN views /\ Sent(i).path = views[ViewOf(i)].path
    BY <2>1, ReadOff DEF Counted, Sent
  <2> QED BY <2>1, <2>3, <2>4 DEF Counted
<1> QED BY <1>1, TrackerInvariant, PTL

\* A view has each milestone it reached once, and no other (tracker.ts:103-116).
THEOREM MilestonesOnce == Spec => []MilestonesReportedOnce
<1>1. IInv => MilestonesReportedOnce
  <2> SUFFICES ASSUME IInv, listening, NEW v \in DOMAIN views, NEW m \in Milestones
               PROVE  Quantify(Reports(v, "scroll"), LAMBDA i : Sent(i).value = m)
                        = IF m <= views[v].deepest THEN 1 ELSE 0
    BY DEF MilestonesReportedOnce, Milestones
  <2>1. Crossed(tracker.sent, views)
    BY Measured DEF Kept
  <2>2. Reports(v, "scroll") = ReportsIn(tracker.sent, v, "scroll")
    BY ReadOff
  <2>3. Quantify(Reports(v, "scroll"), LAMBDA i : Sent(i).value = m)
          = TimesIn(tracker.sent, v, m)
    BY <2>2 DEF Quantify, TimesIn, Sent
  <2> QED BY <2>1, <2>3 DEF Crossed
<1> QED BY <1>1, TrackerInvariant, PTL

\* A view that began visible has last reported the whole of its visible time once it is left
\* or out of sight: the server may take its last report (tracker.ts:70-99, 143-151).
THEOREM LastIsWhole == Spec => []LastReportIsWhole
<1>1. IInv => LastReportIsWhole
  <2> SUFFICES ASSUME IInv, listening, NEW v \in DOMAIN views, views[v].born = "visible",
                      v < Len(views) \/ visibility # "visible" \/ phase = "leaving"
               PROVE  LastReport(v) = Round(views[v].seen, PerSecond)
    BY DEF LastReportIsWhole
  <2>1. /\ Whole(tracker.sent, views) /\ Timed
        /\ Len(views) \in Nat \ {0} /\ DOMAIN views = 1..Len(views)
    BY Measured DEF Kept
  <2>2. LastReport(v) = LastIn(tracker.sent, v)
    BY ReadOff
  <2>3. CASE v < Len(views)
    <3>1. v \in 1..(Len(views) - 1)
      BY <2>1, <2>3
    <3> QED BY <2>1, <2>2, <3>1 DEF Whole
  <2>4. CASE ~ (v < Len(views))
    <3>1. v = Len(views)
      BY <2>1, <2>4
    <3> QED BY <2>1, <2>2, <2>4, <3>1 DEF Timed, ViewNow
  <2> QED BY <2>3, <2>4
<1> QED BY <1>1, TrackerInvariant, PTL
===================================================================================
