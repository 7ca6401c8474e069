----------------------------- MODULE ReportingProofs -----------------------------
(* What reports show, for every set of visitors and hits, every retention and every *)
(* bound.  The invariant says where the rows of the rollup tables come from: those  *)
(* of a closed day were all made by one run from one finite set of that day's       *)
(* events, and from all of them once a run has covered the day and could be         *)
(* accepted.  A report is then a sum over days of what those sets say, and each     *)
(* property compares two such sums; the sums are those of FoldProofs.               *)
EXTENDS Dashboard, FoldProofs

-----------------------------------------------------------------------------------
(* The invariant. *)

\* An event is one of a visitor's sessions, and of what may arrive.
Event(e) ==
  /\ e.day \in 0..today /\ e.visitor \in Visitors /\ e.session[1] = e.visitor
  /\ \E h \in Hits : e.type = h.type /\ e.path = h.path /\ e.value = h.value

EventsOK ==
  /\ IsFiniteSet(collected) /\ IsFiniteSet(buffered) /\ buffered \cap collected = {}
  /\ \A e \in collected \cup buffered : Event(e)

\* Events that differ in nothing else are numbered, from zero.
Copy(e, k) == [day |-> e.day, visitor |-> e.visitor, session |-> e.session, type |-> e.type,
               path |-> e.path, value |-> e.value, copy |-> k]
Like(e, E) == {x \in E : x = Copy(e, x.copy)}
CopiesNumbered ==
  \A e \in collected \cup buffered :
    e.copy \in Nat /\ e.copy < Cardinality(Like(e, collected \cup buffered))

RowsRetained ==
  /\ rows \subseteq collected
  /\ \A e \in collected : e.day > today - Retention => e \in rows

\* The tables of one day are what a run made of E, and it was accepted.
Built(d, E) ==
  /\ E \subseteq On(d, collected)
  /\ \A dim \in Dimensions : {r \in tables[dim] : r.day = d} = Aggregated(dim, d, E)
  /\ {r \in scroll : r.day = d} = ScrollAggregated(d, E)
  /\ Accepted([dim \in Dimensions |-> Aggregated(dim, d, E)], ScrollAggregated(d, E))

\* Once a run has covered the day, and had no NULL to reject, it saw all its events.
Source(d, E) == Built(d, E) /\ (d \in covered /\ ~ Unaccountable(d) => E = On(d, collected))

TablesBuilt ==
  /\ tables = [dim \in Dimensions |-> tables[dim]]
  /\ \A dim \in Dimensions : \A r \in tables[dim] : r.day \in 0..(today - 1)
  /\ \A r \in scroll : r.day \in 0..(today - 1)
  /\ \A d \in 0..(today - 1) : \E E : Source(d, E)

IInv == /\ today \in 0..MaxDay /\ covered \subseteq 0..(today - 1)
        /\ EventsOK /\ CopiesNumbered /\ RowsRetained /\ TablesBuilt

-----------------------------------------------------------------------------------
(* Aggregates of no events. *)

\* No events make no rows.
LEMMA NothingAggregated ==
  ASSUME NEW d
  PROVE  /\ \A dim : Aggregated(dim, d, {}) = {}
         /\ ScrollAggregated(d, {}) = {}
         /\ On(d, {}) = {}
BY DEF Aggregated, Keys, ScrollAggregated, ScrolledPaths, On

-----------------------------------------------------------------------------------
(* Each action keeps the invariant. *)

\* An empty database has the invariant.
LEMMA InitHolds == Init => IInv
<1> SUFFICES ASSUME Init PROVE IInv
  OBVIOUS
<1>1. today \in 0..MaxDay /\ covered \subseteq 0..(today - 1)
  BY ReportingAssumption DEF Init, ReportingAssumption
<1>2. EventsOK
  BY FS_EmptySet DEF Init, EventsOK
<1>3. CopiesNumbered /\ RowsRetained
  BY DEF Init, CopiesNumbered, RowsRetained
<1>4. TablesBuilt
  BY DEF Init, TablesBuilt
<1> QED BY <1>1, <1>2, <1>3, <1>4 DEF IInv

\* A step that changes nothing keeps it.
LEMMA StutterHolds == IInv /\ UNCHANGED vars => IInv'
<1> SUFFICES ASSUME IInv, UNCHANGED vars PROVE IInv'
  OBVIOUS
<1>1. UNCHANGED <<today, buffered, rows, tables, scroll, collected, covered>>
  BY DEF vars, database
<1>2. EventsOK'
  BY <1>1 DEF IInv, EventsOK, Event
<1>3. CopiesNumbered' /\ RowsRetained'
  BY <1>1 DEF IInv, CopiesNumbered, RowsRetained
<1>4. TablesBuilt'
  <2>1. ASSUME NEW d, NEW E, Source(d, E) PROVE Source(d, E)'
    BY <1>1, <2>1 DEF Source, Built, Unaccountable
  <2> QED BY <1>1, <2>1 DEF IInv, TablesBuilt
<1> QED BY <1>1, <1>2, <1>3, <1>4 DEF IInv

\* A new event differs from every other by the number of its copy.
LEMMA CollectHolds ==
  ASSUME IInv, NEW v \in Visitors, NEW h \in Hits, Collect(v, h)
  PROVE  IInv'
<1>1. UNCHANGED <<today, rows, tables, scroll, collected, covered>>
  BY DEF Collect, database
<1> DEFINE old == collected \cup buffered
<1>2. PICK n :
        LET e(copy) == [day |-> today, visitor |-> v, session |-> <<v, n>>, type |-> h.type,
                        path |-> h.path, value |-> h.value, copy |-> copy]
            copies == {x \in old : x = e(x.copy)}
        IN  buffered' = buffered \cup {e(Cardinality(copies))}
  BY DEF Collect
<1> DEFINE event(copy) == [day |-> today, visitor |-> v, session |-> <<v, n>>, type |-> h.type,
                        path |-> h.path, value |-> h.value, copy |-> copy]
           copies == {x \in old : x = event(x.copy)}
           c == Cardinality(copies)
           new == event(c)
           now == collected \cup buffered'
<1>3. buffered' = buffered \cup {new} /\ now = old \cup {new} /\ (collected \cup buffered)' = now
  BY <1>1, <1>2
<1>4. IsFiniteSet(old) /\ IsFiniteSet(copies) /\ c \in Nat
  <2>1. IsFiniteSet(old)
    BY FS_Union DEF IInv, EventsOK
  <2>2. copies \in SUBSET old
    OBVIOUS
  <2> HIDE DEF old, copies
  <2> QED BY <2>1, <2>2, FS_Subset, FS_CardinalityType
<1>5. /\ new.copy = c /\ new.day = today /\ new.visitor = v /\ new.session[1] = v
      /\ new.type = h.type /\ new.path = h.path /\ new.value = h.value
  OBVIOUS
<1>6. Like(new, old) = copies
  <2>1. \A k : Copy(new, k) = event(k)
    BY DEF Copy
  <2> HIDE DEF new, event
  <2> QED BY <2>1 DEF Like
<1>7. new \notin old
  <2> SUFFICES ASSUME new \in old PROVE FALSE
    OBVIOUS
  <2>1. new.copy < Cardinality(Like(new, old))
    BY DEF IInv, CopiesNumbered
  <2> HIDE DEF new, old, copies
  <2> QED BY <1>4, <1>5, <1>6, <2>1
<1>8. EventsOK'
  <2>1. IsFiniteSet(buffered')
    BY <1>3, FS_AddElement DEF IInv, EventsOK
  <2>2. buffered' \cap collected = {}
    BY <1>3, <1>7 DEF IInv, EventsOK
  <2>3. Event(new)
    BY <1>5, ReportingAssumption DEF Event, IInv, ReportingAssumption
  <2>4. ASSUME NEW x \in now PROVE Event(x)
    <3> HIDE DEF new, now
    <3> QED BY <1>3, <2>3, <2>4 DEF IInv, EventsOK
  <2> HIDE DEF new, old
  <2> QED BY <1>1, <1>3, <2>1, <2>2, <2>4 DEF IInv, EventsOK, Event
<1>9. CopiesNumbered'
  <2>1. ASSUME NEW x \in now PROVE x.copy \in Nat /\ x.copy < Cardinality(Like(x, now))
    <3>1. /\ Like(x, old) \in SUBSET old /\ Like(x, old) \in SUBSET Like(x, now)
          /\ Like(x, now) \in SUBSET now
      BY <1>3 DEF Like
    <3>2. IsFiniteSet(now)
      <4> HIDE DEF new, old, now
      <4> QED BY <1>3, <1>4, FS_AddElement
    <3>3. IsFiniteSet(Like(x, now)) /\ IsFiniteSet(Like(x, old))
      <4> HIDE DEF old, now
      <4> QED BY <1>4, <3>1, <3>2, FS_Subset
    <3>4. /\ Cardinality(Like(x, old)) <= Cardinality(Like(x, now))
          /\ Cardinality(Like(x, old)) \in Nat /\ Cardinality(Like(x, now)) \in Nat
      <4> HIDE DEF old, now
      <4> QED BY <3>1, <3>3, FS_Subset, FS_CardinalityType
    <3>5. CASE x \in old
      <4>1. x.copy \in Nat /\ x.copy < Cardinality(Like(x, old))
        BY <3>5 DEF IInv, CopiesNumbered
      <4> HIDE DEF old, now
      <4> QED BY <3>4, <4>1
    <3>6. CASE x = new
      <4>1. Like(x, now) = copies \cup {new}
        <5>1. new \in Like(x, now)
          <6>1. Copy(new, c) = new /\ new \in now
            BY <1>3 DEF Copy
          <6> HIDE DEF new, now, c
          <6> QED BY <1>5, <3>6, <6>1 DEF Like
        <5> HIDE DEF new
        <5>2. Like(x, now) = Like(x, old) \cup {new}
          BY <1>3, <3>6, <5>1 DEF Like
        <5> QED BY <1>6, <3>6, <5>2
      <4>2. new \notin copies
        BY <1>7
      <4>3. Cardinality(copies \cup {new}) = c + 1
        <5> HIDE DEF copies, new
        <5> QED BY <1>4, <4>2, FS_AddElement DEF c
      <4> HIDE DEF copies, new, now, c
      <4> QED BY <1>4, <1>5, <3>6, <4>1, <4>3
    <3> HIDE DEF new, now, old
    <3> QED BY <1>3, <3>5, <3>6
  <2> HIDE DEF now
  <2> QED BY <1>3, <2>1 DEF CopiesNumbered
<1>10. RowsRetained'
  BY <1>1 DEF IInv, RowsRetained
<1>11. TablesBuilt'
  <2>1. ASSUME NEW d, NEW E, Source(d, E) PROVE Source(d, E)'
    BY <1>1, <2>1 DEF Source, Built, Unaccountable
  <2> QED BY <1>1, <2>1 DEF IInv, TablesBuilt
<1> QED BY <1>1, <1>8, <1>9, <1>10, <1>11 DEF IInv

\* A flush stores events; the days it stores them for are no longer covered.
LEMMA FlushHolds ==
  ASSUME IInv, Flush
  PROVE  IInv'
<1>1. /\ rows' = rows \cup buffered /\ collected' = collected \cup buffered /\ buffered' = {}
      /\ covered' = covered \ {e.day : e \in buffered} /\ UNCHANGED <<today, tables, scroll>>
  BY DEF Flush
<1>2. EventsOK'
  <2>1. IsFiniteSet(collected')
    BY <1>1, FS_Union DEF IInv, EventsOK
  <2>2. IsFiniteSet(buffered')
    BY <1>1, FS_EmptySet
  <2> QED BY <1>1, <2>1, <2>2 DEF IInv, EventsOK, Event
<1>3. CopiesNumbered'
  <2>1. (collected \cup buffered)' = collected \cup buffered
    BY <1>1
  <2> QED BY <2>1 DEF IInv, CopiesNumbered
<1>4. RowsRetained'
  BY <1>1 DEF IInv, RowsRetained
<1>5. ASSUME NEW d \in 0..(today - 1), NEW E, Source(d, E) PROVE Source(d, E)'
  <2>1. Built(d, E)'
    <3>1. On(d, collected) \subseteq On(d, collected')
      BY <1>1 DEF On
    <3>2. Built(d, E)
      BY <1>5 DEF Source
    <3> QED BY <1>1, <3>1, <3>2 DEF Built
  <2>2. ASSUME d \in covered'
        PROVE  On(d, collected') = On(d, collected) /\ d \in covered
    BY <1>1, <2>2 DEF On
  <2>3. ASSUME d \in covered', ~ Unaccountable(d)' PROVE E = On(d, collected')
    <3>1. On(d, collected') = On(d, collected) /\ d \in covered
      BY <2>2, <2>3
    <3>2. ~ Unaccountable(d)
      BY <2>3, <3>1 DEF Unaccountable
    <3> QED BY <1>5, <3>1, <3>2 DEF Source
  <2> QED BY <2>1, <2>3 DEF Source
<1>6. TablesBuilt'
  <2>1. \A d \in 0..(today - 1) : \E E : Source(d, E)'
    BY <1>5 DEF IInv, TablesBuilt
  <2> QED BY <1>1, <2>1 DEF IInv, TablesBuilt
<1> QED BY <1>1, <1>2, <1>3, <1>4, <1>6 DEF IInv

\* A purge deletes no event younger than the retention, and touches no table.
LEMMA PurgeHolds ==
  ASSUME IInv, RetentionPurge
  PROVE  IInv'
<1>1. /\ UNCHANGED <<today, buffered, tables, scroll, collected, covered>>
      /\ \E early \in SUBSET On(today - Retention, rows) :
           rows' = {e \in rows : e.day >= today - Retention} \ early
  BY DEF RetentionPurge
<1>2. EventsOK'
  BY <1>1 DEF IInv, EventsOK, Event
<1>3. CopiesNumbered'
  BY <1>1 DEF IInv, CopiesNumbered
<1>4. RowsRetained'
  <2>1. rows' \subseteq rows
    BY <1>1
  <2>2. ASSUME NEW e \in rows, e.day > today - Retention PROVE e \in rows'
    <3>1. today \in Int /\ Retention \in Int /\ e.day \in Int
      BY ReportingAssumption DEF ReportingAssumption, IInv, EventsOK, Event, RowsRetained
    <3>2. e.day >= today - Retention /\ e.day # today - Retention
      BY <2>2, <3>1
    <3> QED BY <1>1, <3>2 DEF On
  <2> QED BY <1>1, <2>1, <2>2 DEF IInv, RowsRetained
<1>5. TablesBuilt'
  <2>1. ASSUME NEW d, NEW E, Source(d, E) PROVE Source(d, E)'
    BY <1>1, <2>1 DEF Source, Built, Unaccountable
  <2> QED BY <1>1, <2>1 DEF IInv, TablesBuilt
<1> QED BY <1>1, <1>2, <1>3, <1>4, <1>5 DEF IInv

-----------------------------------------------------------------------------------
(* Sums and maxima of SQL. *)

\* Amounts: numbers, or nothing.
Amounts(f, S) == IsFiniteSet(S) /\ \A x \in S : f[x] \in Nat \cup {NULL}

\* A finite set of numbers has a greatest element.
LEMMA MaxIsGreatest ==
  ASSUME NEW S, IsFiniteSet(S), S # {}, S \subseteq Nat
  PROVE  Max(S) \in S /\ \A x \in S : x <= Max(S)
<1> DEFINE W == {s \in SUBSET S : s # {} => \E m \in s : \A x \in s : m >= x}
<1>1. ASSUME NEW s \in SUBSET S, \A x \in s : s \ {x} \in W
      PROVE  s \in W
  <2> SUFFICES ASSUME s # {} PROVE \E m \in s : \A x \in s : m >= x
    OBVIOUS
  <2>1. PICK y \in s : TRUE
    OBVIOUS
  <2>2. CASE s \ {y} = {}
    <3>1. s = {y} /\ y \in Nat
      BY <2>1, <2>2
    <3> QED BY <3>1
  <2>3. CASE s \ {y} # {}
    <3>1. PICK m \in s \ {y} : \A x \in s \ {y} : m >= x
      BY <1>1, <2>1, <2>3
    <3>2. m \in Nat /\ y \in Nat /\ s \subseteq Nat
      BY <2>1
    <3>3. CASE m >= y
      BY <2>1, <3>1, <3>3
    <3>4. CASE y >= m
      <4>1. \A x \in s : y >= x
        BY <2>1, <3>1, <3>2, <3>4
      <4> QED BY <2>1, <4>1
    <3> QED BY <3>2, <3>3, <3>4
  <2> QED BY <2>2, <2>3
<1>2. SUBSET S \subseteq W
  <2> HIDE DEF W
  <2> QED BY <1>1, SubsetInduction
<1>3. \E m \in S : \A x \in S : m >= x
  <2> S \in W
    <3> HIDE DEF W
    <3> QED BY <1>2
  <2> QED OBVIOUS
<1>4. Max(S) \in S /\ \A x \in S : Max(S) >= x
  BY <1>3 DEF Max
<1> QED BY <1>4

\* SUM is NULL when there is nothing to add, and then adds nothing.
LEMMA SqlSumIs ==
  ASSUME NEW f, Amounts(f, DOMAIN f)
  PROVE  LET w == [x \in DOMAIN f |-> Amount(f[x])]
         IN  /\ SqlSum(f) = NULL => \A x \in DOMAIN f : f[x] = NULL
             /\ SqlSum(f) \in Nat \cup {NULL}
             /\ Summable(w, DOMAIN f) /\ Amount(SqlSum(f)) = SumFunctionOnSet(w, DOMAIN f)
<1> DEFINE S == DOMAIN f
           D == {x \in S : f[x] # NULL}
           w == [x \in S |-> Amount(f[x])]
<1>1. IsFiniteSet(S) /\ D \in SUBSET S /\ \A x \in S : f[x] \in Nat \cup {NULL}
  BY DEF Amounts
<1>2. \A x \in S : /\ w[x] \in Nat /\ (x \in D => w[x] = f[x] /\ f[x] \in Nat)
                   /\ x \notin D => w[x] = 0
  BY <1>1 DEF Amount
<1> HIDE DEF w
<1>3. Summable(w, S)
  BY <1>1, <1>2 DEF Summable
<1>4. Agree(f, w, D)
  <2>1. IsFiniteSet(D)
    BY <1>1, FS_Subset
  <2> QED BY <1>1, <1>2, <2>1 DEF Agree, Summable
<1>5. Skips(w, S, D)
  BY <1>1, <1>2, <1>3 DEF Skips
<1> HIDE DEF D
<1>6. SumFunctionOnSet(f, D) = SumFunctionOnSet(w, D)
  BY <1>4, SumSame
<1>7. SumFunctionOnSet(w, S) = SumFunctionOnSet(w, D)
  BY <1>5, SumSkip
<1>8. SumFunctionOnSet(f, D) \in Nat
  BY <1>4, SumType DEF Agree
<1>9. SqlSum(f) = IF D = {} THEN NULL ELSE SumFunctionOnSet(f, D)
  BY DEF SqlSum, D
<1>10. D = {} => SumFunctionOnSet(w, D) = 0
  BY SumNone
<1>11. NULL \notin Nat
  BY ReportingAssumption DEF ReportingAssumption
<1>12. Amount(SqlSum(f)) = SumFunctionOnSet(w, S)
  <2>1. CASE D = {}
    BY <1>7, <1>9, <1>10, <2>1 DEF Amount
  <2>2. CASE D # {}
    BY <1>6, <1>7, <1>8, <1>9, <1>11, <2>2 DEF Amount
  <2> QED BY <2>1, <2>2
<1>13. SqlSum(f) \in Nat \cup {NULL}
  BY <1>8, <1>9
<1>14. SqlSum(f) = NULL => \A x \in S : f[x] = NULL
  BY <1>8, <1>9, <1>11 DEF D
<1> QED BY <1>3, <1>12, <1>13, <1>14 DEF w

\* MAX is NULL when nothing is left, and else a greatest.
LEMMA SqlMaxIs ==
  ASSUME NEW S, IsFiniteSet(S), S \subseteq Nat \cup {NULL}
  PROVE  /\ SqlMax(S) = NULL => S \subseteq {NULL}
         /\ SqlMax(S) \in S \cup {NULL}
         /\ \A x \in S \ {NULL} : SqlMax(S) \in Nat /\ x <= SqlMax(S)
<1> DEFINE T == S \ {NULL}
<1>1. NULL \notin Nat /\ T \subseteq Nat /\ T \in SUBSET S
  BY ReportingAssumption DEF ReportingAssumption
<1>2. T # {} => Max(T) \in T /\ \A x \in T : x <= Max(T)
  <2>1. IsFiniteSet(T)
    BY FS_RemoveElement
  <2> HIDE DEF T
  <2> QED BY <1>1, <2>1, MaxIsGreatest
<1>3. SqlMax(S) = IF T = {} THEN NULL ELSE Max(T)
  BY DEF SqlMax
<1>4. CASE T = {}
  BY <1>3, <1>4
<1>5. CASE T # {}
  <2> DEFINE m == Max(T)
  <2>1. SqlMax(S) = m /\ m \in T /\ \A x \in T : x <= m
    BY <1>2, <1>3, <1>5
  <2> HIDE DEF m
  <2> QED BY <1>1, <2>1
<1> QED BY <1>4, <1>5

-----------------------------------------------------------------------------------
(* The rows of one day. *)

\* The events of a key.
GroupOf(dim, key, E) == {e \in E : KeyOf(dim, e) = key}

\* What an event adds to the engagement, or NULL.
Worth(e) == IF e.type = "engagement" THEN e.value ELSE 0
Worths(E) == [e \in E |-> Worth(e)]
WorthOf(E) == [e \in E |-> Amount(Worth(e))]

\* Events of one day as they may arrive.
EventSet(E) ==
  /\ IsFiniteSet(E)
  /\ \A e \in E : /\ e.visitor \in Visitors /\ e.session[1] = e.visitor
                  /\ \E h \in Hits : e.type = h.type /\ e.path = h.path /\ e.value = h.value

\* What the fields of an event may be.
LEMMA EventFields ==
  ASSUME NEW E, EventSet(E), NEW e \in E
  PROVE  /\ e.type \in {"pageview", "engagement", "scroll"} /\ e.path \in STRING
         /\ e.value \in Nat \cup {NULL} /\ Worth(e) \in Nat \cup {NULL}
BY ReportingAssumption DEF ReportingAssumption, EventSet, Worth

\* Part of such events are such events ...
LEMMA EventSubset ==
  ASSUME NEW E, EventSet(E), NEW S \in SUBSET E
  PROVE  EventSet(S)
BY FS_Subset DEF EventSet

\* Every event stored or read is one.
LEMMA EventsAreSets ==
  ASSUME IInv, NEW E \in SUBSET collected
  PROVE  EventSet(E)
BY FS_Subset DEF IInv, EventsOK, Event, EventSet

\* ... and so are those of one key.
LEMMA GroupIsSet ==
  ASSUME NEW E, EventSet(E), NEW dim, NEW key
  PROVE  EventSet(GroupOf(dim, key, E))
<1>1. GroupOf(dim, key, E) \in SUBSET E
  BY DEF GroupOf
<1> QED BY <1>1, EventSubset

\* The engagement is NULL only if every event is an engagement without a value.
LEMMA EngagementIs ==
  ASSUME NEW E, EventSet(E)
  PROVE  /\ SqlSum(Worths(E)) = NULL => \A e \in E : e.type = "engagement" /\ e.value = NULL
         /\ SqlSum(Worths(E)) \in Nat \cup {NULL}
         /\ Summable(WorthOf(E), E)
         /\ Amount(SqlSum(Worths(E))) = SumFunctionOnSet(WorthOf(E), E)
<1> DEFINE f == Worths(E)
           w == [e \in E |-> Amount(f[e])]
<1>1. DOMAIN f = E /\ \A e \in E : f[e] = Worth(e)
  BY DEF Worths
<1>2. Amounts(f, DOMAIN f)
  <2>1. \A e \in E : f[e] \in Nat \cup {NULL}
    BY <1>1, EventFields
  <2> HIDE DEF f
  <2> QED BY <1>1, <2>1 DEF Amounts, EventSet
<1>3. w = WorthOf(E)
  BY <1>1 DEF WorthOf
<1>4. NULL # 0
  BY ReportingAssumption DEF ReportingAssumption
<1> DEFINE v == [e \in DOMAIN f |-> Amount(f[e])]
<1>5. v = w
  BY <1>1
<1>6. /\ SqlSum(f) = NULL => \A e \in DOMAIN f : f[e] = NULL
      /\ SqlSum(f) \in Nat \cup {NULL}
      /\ Summable(v, DOMAIN f) /\ Amount(SqlSum(f)) = SumFunctionOnSet(v, DOMAIN f)
  <2> HIDE DEF f
  <2> QED BY <1>2, SqlSumIs
<1>7. /\ SqlSum(f) \in Nat \cup {NULL}
      /\ Summable(w, E) /\ Amount(SqlSum(f)) = SumFunctionOnSet(w, E)
  <2> HIDE DEF f, v, w
  <2> QED BY <1>1, <1>5, <1>6
<1>8. SqlSum(f) = NULL => \A e \in E : e.type = "engagement" /\ e.value = NULL
  BY <1>1, <1>4, <1>6 DEF Worth
<1> QED BY <1>3, <1>7, <1>8

\* The visitors and the sessions of events, and the page views of sessions with no other.
VisitorsIn(E) == {e.visitor : e \in E}
SessionsIn(E) == {e.session : e \in E}
Bounced(G, E) == {e \in Pageviews(G) : e.session \in BounceSessions(E)}

\* The columns of a key's row.
LEMMA AggregateFields ==
  ASSUME NEW dim, NEW d, NEW key, NEW E
  PROVE  /\ Aggregate(dim, d, key, E).day = d /\ Aggregate(dim, d, key, E).key = key
         /\ Aggregate(dim, d, key, E).pageviews = Cardinality(Pageviews(GroupOf(dim, key, E)))
         /\ Aggregate(dim, d, key, E).visitors = Cardinality(VisitorsIn(GroupOf(dim, key, E)))
         /\ Aggregate(dim, d, key, E).sessions = Cardinality(SessionsIn(GroupOf(dim, key, E)))
         /\ Aggregate(dim, d, key, E).bounces = Cardinality(Bounced(GroupOf(dim, key, E), E))
         /\ Aggregate(dim, d, key, E).engagement = SqlSum(Worths(GroupOf(dim, key, E)))
BY DEF Aggregate, GroupOf, Worths, Worth, CountDistinctVisitors, VisitorsIn, SessionsIn, Bounced

\* The deepest milestone of each session.
Deepests(S) ==
  [s \in {e.session : e \in S} |-> SqlMax({e.value : e \in {x \in S : x.session = s}})]
ValuesOf(s, S) == {e.value : e \in {x \in S : x.session = s}}

\* The image of a finite set is finite, and no larger.
LEMMA ImageFinite ==
  ASSUME NEW S, IsFiniteSet(S), NEW f
  PROVE  LET T == {f[x] : x \in S} IN IsFiniteSet(T) /\ Cardinality(T) <= Cardinality(S)
<1> DEFINE T == {f[x] : x \in S}
           g == [x \in S |-> f[x]]
<1>1. g \in Surjection(S, T)
  BY DEF Surjection
<1> HIDE DEF g, T
<1>2. IsFiniteSet(T) /\ Cardinality(T) <= Cardinality(S)
  BY <1>1, FS_Surjection
<1> QED BY <1>2 DEF T

\* Sessions, visitors, values, paths and keys of finitely many events are finitely many.
LEMMA EventImages ==
  ASSUME NEW E, IsFiniteSet(E)
  PROVE  /\ IsFiniteSet({e.session : e \in E}) /\ IsFiniteSet({e.visitor : e \in E})
         /\ IsFiniteSet({e.value : e \in E}) /\ IsFiniteSet({e.path : e \in E})
         /\ \A dim : IsFiniteSet(Keys(dim, E))
<1>1. ASSUME NEW f PROVE IsFiniteSet({f[e] : e \in E})
  BY <1>1, ImageFinite
<1>2. IsFiniteSet({e.session : e \in E})
  <2> DEFINE f == [e \in E |-> e.session]
  <2>1. {f[e] : e \in E} = {e.session : e \in E}
    OBVIOUS
  <2> HIDE DEF f
  <2> QED BY <1>1, <2>1
<1>3. IsFiniteSet({e.visitor : e \in E})
  <2> DEFINE f == [e \in E |-> e.visitor]
  <2>1. {f[e] : e \in E} = {e.visitor : e \in E}
    OBVIOUS
  <2> HIDE DEF f
  <2> QED BY <1>1, <2>1
<1>4. IsFiniteSet({e.value : e \in E})
  <2> DEFINE f == [e \in E |-> e.value]
  <2>1. {f[e] : e \in E} = {e.value : e \in E}
    OBVIOUS
  <2> HIDE DEF f
  <2> QED BY <1>1, <2>1
<1>5. IsFiniteSet({e.path : e \in E})
  <2> DEFINE f == [e \in E |-> e.path]
  <2>1. {f[e] : e \in E} = {e.path : e \in E}
    OBVIOUS
  <2> HIDE DEF f
  <2> QED BY <1>1, <2>1
<1>6. ASSUME NEW dim PROVE IsFiniteSet(Keys(dim, E))
  <2> DEFINE f == [e \in E |-> KeyOf(dim, e)]
  <2>1. {f[e] : e \in E} = Keys(dim, E)
    BY DEF Keys
  <2> HIDE DEF f
  <2> QED BY <1>1, <2>1
<1> QED BY <1>2, <1>3, <1>4, <1>5, <1>6

\* The depth is a sum over sessions, and NULL only if no event has a value.
LEMMA DeepestIs ==
  ASSUME NEW S, EventSet(S)
  PROVE  LET T == {e.session : e \in S}
             w == [s \in T |-> Amount(Deepests(S)[s])]
         IN  /\ DepthSum(S) = NULL => \A e \in S : e.value = NULL
             /\ DepthSum(S) \in Nat \cup {NULL}
             /\ Summable(w, T) /\ Amount(DepthSum(S)) = SumFunctionOnSet(w, T)
             /\ \A s \in T : /\ IsFiniteSet(ValuesOf(s, S))
                             /\ ValuesOf(s, S) \subseteq Nat \cup {NULL}
                             /\ Deepests(S)[s] = SqlMax(ValuesOf(s, S))
<1> DEFINE T == {e.session : e \in S}
           f == Deepests(S)
           w == [s \in T |-> Amount(f[s])]
<1>1. IsFiniteSet(T) /\ IsFiniteSet(S)
  BY EventImages DEF EventSet
<1>2. DOMAIN f = T /\ \A s \in T : f[s] = SqlMax(ValuesOf(s, S))
  BY DEF Deepests, ValuesOf
<1>3. ASSUME NEW s \in T
      PROVE  IsFiniteSet(ValuesOf(s, S)) /\ ValuesOf(s, S) \subseteq Nat \cup {NULL}
  <2> DEFINE R == {x \in S : x.session = s}
  <2>1. R \in SUBSET S
    OBVIOUS
  <2>2. IsFiniteSet(R)
    <3> HIDE DEF R
    <3> QED BY <1>1, <2>1, FS_Subset
  <2>3. IsFiniteSet({e.value : e \in R})
    <3> HIDE DEF R
    <3> QED BY <2>2, EventImages
  <2>4. ValuesOf(s, S) \subseteq Nat \cup {NULL}
    BY EventFields DEF ValuesOf
  <2> QED BY <2>3, <2>4 DEF ValuesOf
<1>4. ASSUME NEW s \in T
      PROVE  /\ f[s] \in Nat \cup {NULL} /\ (f[s] = NULL => ValuesOf(s, S) \subseteq {NULL})
  <2> DEFINE V == ValuesOf(s, S)
  <2>1. IsFiniteSet(V) /\ V \subseteq Nat \cup {NULL}
    BY <1>3
  <2> HIDE DEF V
  <2>2. SqlMax(V) \in V \cup {NULL} /\ (SqlMax(V) = NULL => V \subseteq {NULL})
    BY <2>1, SqlMaxIs
  <2>3. f[s] = SqlMax(V)
    BY <1>2 DEF V
  <2> QED BY <2>1, <2>2, <2>3 DEF V
<1>5. Amounts(f, DOMAIN f)
  <2> HIDE DEF f, T
  <2> QED BY <1>1, <1>2, <1>4 DEF Amounts
<1> DEFINE v == [s \in DOMAIN f |-> Amount(f[s])]
<1>6. /\ SqlSum(f) = NULL => \A s \in DOMAIN f : f[s] = NULL
      /\ SqlSum(f) \in Nat \cup {NULL}
      /\ Summable(v, DOMAIN f) /\ Amount(SqlSum(f)) = SumFunctionOnSet(v, DOMAIN f)
  <2> HIDE DEF f
  <2> QED BY <1>5, SqlSumIs
<1>7. v = w
  BY <1>2
<1>8. DepthSum(S) = SqlSum(f)
  BY DEF DepthSum, Deepests
<1>9. DepthSum(S) = NULL => \A e \in S : e.value = NULL
  <2> SUFFICES ASSUME DepthSum(S) = NULL, NEW e \in S PROVE e.value = NULL
    OBVIOUS
  <2>1. e.session \in T /\ e.value \in ValuesOf(e.session, S)
    BY DEF ValuesOf
  <2> HIDE DEF f, T
  <2> QED BY <1>2, <1>4, <1>6, <1>8, <2>1
<1>10. /\ DepthSum(S) \in Nat \cup {NULL}
       /\ Summable(w, T) /\ Amount(DepthSum(S)) = SumFunctionOnSet(w, T)
  <2> HIDE DEF f, w, v, T
  <2> QED BY <1>2, <1>6, <1>7, <1>8
<1> QED BY <1>2, <1>3, <1>9, <1>10

\* The columns of a path's row.
LEMMA ScrollFields ==
  ASSUME NEW d, NEW path, NEW E
  PROVE  /\ ScrollAggregate(d, path, E).day = d /\ ScrollAggregate(d, path, E).path = path
         /\ ScrollAggregate(d, path, E).depthSum = DepthSum(ScrollsOf(path, E))
         /\ ScrollAggregate(d, path, E).sessionCount
              = Cardinality(SessionsIn(ScrollsOf(path, E)))
BY DEF ScrollAggregate, SessionsIn

\* The rows made for a day are of that day.
LEMMA RowsOfDay ==
  ASSUME NEW d, NEW E
  PROVE  /\ \A dim : \A r \in Aggregated(dim, d, E) : r.day = d
         /\ \A r \in ScrollAggregated(d, E) : r.day = d
<1>1. ASSUME NEW dim, NEW key PROVE Aggregate(dim, d, key, E).day = d
  BY AggregateFields
<1>2. ASSUME NEW path PROVE ScrollAggregate(d, path, E).day = d
  BY ScrollFields
<1> QED BY <1>1, <1>2 DEF Aggregated, ScrollAggregated

\* A run that a NULL makes fail was of a day with a key that cannot be accounted for.
LEMMA RejectedIsUnaccountable ==
  ASSUME NEW d, EventSet(On(d, collected)),
         ~ Accepted([dim \in Dimensions |-> Aggregated(dim, d, On(d, collected))],
                    ScrollAggregated(d, On(d, collected)))
  PROVE  Unaccountable(d)
<1> DEFINE E == On(d, collected)
           metrics == [dim \in Dimensions |-> Aggregated(dim, d, E)]
<1>1. CASE \E dim \in Dimensions : \E r \in metrics[dim] : r.engagement = NULL
  <2>1. PICK dim \in Dimensions : \E r \in Aggregated(dim, d, E) : r.engagement = NULL
    BY <1>1
  <2> HIDE DEF E
  <2>2. PICK key \in Keys(dim, E) : Aggregate(dim, d, key, E).engagement = NULL
    BY <2>1 DEF Aggregated
  <2> DEFINE G == GroupOf(dim, key, E)
  <2>3. SqlSum(Worths(G)) = NULL
    <3>1. Aggregate(dim, d, key, E).engagement = SqlSum(Worths(G))
      BY AggregateFields
    <3> QED BY <2>2, <3>1
  <2>4. EventSet(G)
    BY GroupIsSet DEF E
  <2>5. \A e \in G : e.type = "engagement" /\ e.value = NULL
    <3> HIDE DEF G
    <3> QED BY <2>3, <2>4, EngagementIs
  <2>6. \A e \in E : KeyOf(dim, e) = key => e.type = "engagement" /\ e.value = NULL
    BY <2>5 DEF GroupOf
  <2> QED BY <2>6 DEF Unaccountable, E
<1>2. CASE \E r \in ScrollAggregated(d, E) : r.depthSum = NULL
  <2>1. PICK path \in ScrolledPaths(E) : ScrollAggregate(d, path, E).depthSum = NULL
    BY <1>2 DEF ScrollAggregated
  <2> HIDE DEF E
  <2> DEFINE S == ScrollsOf(path, E)
  <2>2. DepthSum(S) = NULL
    <3>1. ScrollAggregate(d, path, E).depthSum = DepthSum(S)
      BY ScrollFields
    <3> QED BY <2>1, <3>1
  <2>3. EventSet(S)
    <3>1. S \in SUBSET E
      BY DEF ScrollsOf
    <3> HIDE DEF S
    <3> QED BY <3>1, EventSubset DEF E
  <2>4. \A e \in S : e.value = NULL
    <3> HIDE DEF S
    <3> QED BY <2>2, <2>3, DeepestIs
  <2>5. PICK e \in E : e.type = "scroll" /\ e.path = path
    BY DEF ScrolledPaths
  <2>6. \A x \in E : x.type = "scroll" /\ x.path = e.path => x.value = NULL
    BY <2>4, <2>5 DEF ScrollsOf
  <2> QED BY <2>5, <2>6 DEF Unaccountable, E
<1> QED BY <1>1, <1>2 DEF Accepted

\* At midnight today is closed: its tables are empty, and nothing has covered it.
LEMMA MidnightHolds ==
  ASSUME IInv, Midnight
  PROVE  IInv'
<1>1. /\ today < MaxDay /\ today' = today + 1 /\ today \in 0..MaxDay /\ MaxDay \in Nat
      /\ Retention \in Nat
      /\ UNCHANGED <<buffered, rows, tables, scroll, collected, covered>>
  BY ReportingAssumption DEF ReportingAssumption, Midnight, database, IInv
<1>2. today' \in 0..MaxDay /\ (covered \subseteq 0..(today - 1))'
  BY <1>1 DEF IInv
<1>3. EventsOK'
  <2>1. ASSUME NEW e, Event(e) PROVE Event(e)'
    BY <1>1, <2>1 DEF Event
  <2> QED BY <1>1, <2>1 DEF IInv, EventsOK
<1>4. CopiesNumbered'
  BY <1>1 DEF IInv, CopiesNumbered
<1>5. RowsRetained'
  <2>1. ASSUME NEW e \in collected, e.day > today' - Retention PROVE e \in rows
    <3>1. e.day \in Int
      BY DEF IInv, EventsOK, Event
    <3>2. e.day > today - Retention
      BY <1>1, <2>1, <3>1
    <3> QED BY <3>2 DEF IInv, RowsRetained
  <2> QED BY <1>1, <2>1 DEF IInv, RowsRetained
<1>6. TablesBuilt'
  <2>1. ASSUME NEW d, NEW E, Source(d, E) PROVE Source(d, E)'
    BY <1>1, <2>1 DEF Source, Built, Unaccountable
  <2>2. Source(today, {})
    <3>1. today \notin covered
      BY <1>1 DEF IInv
    <3>2. \A dim \in Dimensions : {r \in tables[dim] : r.day = today} = {}
      BY <1>1 DEF IInv, TablesBuilt
    <3>3. {r \in scroll : r.day = today} = {}
      BY <1>1 DEF IInv, TablesBuilt
    <3>4. Accepted([dim \in Dimensions |-> Aggregated(dim, today, {})], ScrollAggregated(today, {}))
      BY NothingAggregated DEF Accepted
    <3>5. Built(today, {})
      BY <3>2, <3>3, <3>4, NothingAggregated DEF Built
    <3> QED BY <3>1, <3>5 DEF Source
  <2>3. ASSUME NEW d \in 0..(today' - 1) PROVE \E E : Source(d, E)'
    <3>1. d \in 0..(today - 1) \/ d = today
      BY <1>1
    <3> QED BY <2>1, <2>2, <3>1 DEF IInv, TablesBuilt
  <2>4. /\ \A dim \in Dimensions : \A r \in tables[dim] : r.day \in 0..(today' - 1)
        /\ \A r \in scroll : r.day \in 0..(today' - 1)
    BY <1>1 DEF IInv, TablesBuilt
  <2> QED BY <1>1, <2>3, <2>4 DEF IInv, TablesBuilt
<1> QED BY <1>1, <1>2, <1>3, <1>4, <1>5, <1>6 DEF IInv

\* A run replaces yesterday's rows in all tables, or in none.
LEMMA RollupHolds ==
  ASSUME IInv, RollupBuild
  PROVE  IInv'
<1> DEFINE day == today - 1
           E == On(day, collected)
           metrics == [dim \in Dimensions |-> Aggregated(dim, day, E)]
           depths == ScrollAggregated(day, E)
<1>1. /\ today \in 0..MaxDay /\ MaxDay \in Nat /\ day \in 0..(today - 1) /\ Retention \in Nat
      /\ Retention >= 2
  BY ReportingAssumption DEF ReportingAssumption, RollupBuild, IInv
<1>2. On(day, rows) = E
  <2>1. ASSUME NEW e \in collected, e.day = day PROVE e \in rows
    <3>1. e.day > today - Retention
      BY <1>1, <2>1
    <3> QED BY <3>1 DEF IInv, RowsRetained
  <2> QED BY <2>1 DEF On, IInv, RowsRetained
<1>3. /\ Rebuilt(day, metrics, depths) /\ covered' = covered \cup {day}
      /\ UNCHANGED <<today, buffered, rows, collected>>
  BY <1>2 DEF RollupBuild
<1>4. EventSet(E)
  <2>1. E \in SUBSET collected
    BY DEF On
  <2> HIDE DEF E
  <2> QED BY <2>1, EventsAreSets
<1>5. EventsOK'
  BY <1>3 DEF IInv, EventsOK, Event
<1>6. CopiesNumbered' /\ RowsRetained'
  BY <1>3 DEF IInv, CopiesNumbered, RowsRetained
<1>7. (covered \subseteq 0..(today - 1))'
  BY <1>1, <1>3 DEF IInv
<1>8. \A d : Unaccountable(d)' <=> Unaccountable(d)
  BY <1>3 DEF Unaccountable
<1>9. CASE ~ Accepted(metrics, depths)
  <2>1. UNCHANGED <<tables, scroll>>
    BY <1>3, <1>9 DEF Rebuilt
  <2>2. Unaccountable(day)
    BY <1>4, <1>9, RejectedIsUnaccountable
  <2>3. ASSUME NEW d, NEW F, Source(d, F) PROVE Source(d, F)'
    <3>1. Built(d, F)'
      BY <1>3, <2>1, <2>3 DEF Source, Built
    <3>2. ASSUME d \in covered', ~ Unaccountable(d) PROVE F = On(d, collected)
      <4> HIDE DEF day
      <4> QED BY <1>3, <2>2, <2>3, <3>2 DEF Source
    <3> QED BY <1>3, <1>8, <3>1, <3>2 DEF Source
  <2>4. TablesBuilt'
    BY <1>3, <2>1, <2>3 DEF IInv, TablesBuilt
  <2> QED BY <1>1, <1>3, <1>5, <1>6, <1>7, <2>4 DEF IInv
<1>10. CASE Accepted(metrics, depths)
  <2>1. /\ tables' = [dim \in Dimensions |-> WithoutDay(day, tables[dim]) \cup metrics[dim]]
        /\ scroll' = WithoutDay(day, scroll) \cup depths
    BY <1>3, <1>10 DEF Rebuilt
  <2>2. \A dim \in Dimensions :
          tables'[dim] = WithoutDay(day, tables[dim]) \cup Aggregated(dim, day, E)
    BY <2>1
  <2>3. /\ \A dim : \A r \in Aggregated(dim, day, E) : r.day = day
        /\ \A r \in depths : r.day = day
    <3> HIDE DEF E, day
    <3> QED BY RowsOfDay
  <2>4. /\ \A dim \in Dimensions : {r \in tables'[dim] : r.day = day} = Aggregated(dim, day, E)
        /\ {r \in scroll' : r.day = day} = depths
    <3> HIDE DEF E, day, depths
    <3> QED BY <2>1, <2>2, <2>3 DEF WithoutDay
  <2>5. ASSUME NEW d, d # day
        PROVE  /\ \A dim \in Dimensions :
                    {r \in tables'[dim] : r.day = d} = {r \in tables[dim] : r.day = d}
               /\ {r \in scroll' : r.day = d} = {r \in scroll : r.day = d}
    <3> HIDE DEF E, day, depths
    <3> QED BY <2>1, <2>2, <2>3, <2>5 DEF WithoutDay
  <2>6. ASSUME NEW d, NEW F, Source(d, F), d # day PROVE Source(d, F)'
    <3>1. Built(d, F)'
      <4>1. Built(d, F)
        BY <2>6 DEF Source
      <4> HIDE DEF day
      <4> QED BY <1>3, <2>5, <2>6, <4>1 DEF Built
    <3> HIDE DEF day
    <3> QED BY <1>3, <1>8, <2>6, <3>1 DEF Source
  <2>7. ASSUME NEW d, NEW F, d = day, F = E PROVE Source(d, F)'
    <3>1. /\ \A dim \in Dimensions : {r \in tables'[dim] : r.day = d} = Aggregated(dim, d, F)
          /\ {r \in scroll' : r.day = d} = ScrollAggregated(d, F)
      BY <2>4, <2>7
    <3>2. Accepted([dim \in Dimensions |-> Aggregated(dim, d, F)], ScrollAggregated(d, F))
      BY <1>10, <2>7
    <3>3. F = On(d, collected')
      BY <1>3, <2>7
    <3> HIDE DEF E, day
    <3> QED BY <3>1, <3>2, <3>3 DEF Source, Built
  <2>8. ASSUME NEW d \in 0..(today' - 1) PROVE \E F : Source(d, F)'
    <3>1. CASE d = day
      <4>1. PICK F : F = E
        OBVIOUS
      <4> HIDE DEF E, day
      <4> QED BY <2>7, <3>1, <4>1
    <3>2. CASE d # day
      <4> HIDE DEF E, day
      <4> QED BY <1>3, <2>6, <3>2 DEF IInv, TablesBuilt
    <3> QED BY <3>1, <3>2
  <2>9. /\ \A dim \in Dimensions : \A r \in tables'[dim] : r.day \in 0..(today' - 1)
        /\ \A r \in scroll' : r.day \in 0..(today' - 1)
    <3> HIDE DEF E, depths, day
    <3> QED BY <1>1, <1>3, <2>1, <2>2, <2>3 DEF WithoutDay, IInv, TablesBuilt
  <2>10. tables' = [dim \in Dimensions |-> tables'[dim]]
    <3> HIDE DEF metrics, day
    <3> QED BY <2>1
  <2>11. TablesBuilt'
    BY <2>8, <2>9, <2>10 DEF TablesBuilt
  <2> QED BY <1>1, <1>3, <1>5, <1>6, <1>7, <2>11 DEF IInv
<1> QED BY <1>9, <1>10

\* The invariant holds.
LEMMA InvariantHolds == Spec => []IInv
<1>1. ASSUME IInv, [Next]_vars PROVE IInv'
  BY <1>1, StutterHolds, CollectHolds, FlushHolds, MidnightHolds, RollupHolds, PurgeHolds DEF Next
<1> QED BY <1>1, InitHolds, PTL DEF Spec

-----------------------------------------------------------------------------------
(* Types. *)

\* The counts and the sum of an aggregate are numbers.
LEMMA AggregateTypes ==
  ASSUME NEW E, EventSet(E), NEW dim \in Dimensions, NEW d, NEW key
  PROVE  /\ Aggregate(dim, d, key, E).pageviews \in Nat /\ Aggregate(dim, d, key, E).visitors \in Nat
         /\ Aggregate(dim, d, key, E).sessions \in Nat /\ Aggregate(dim, d, key, E).bounces \in Nat
         /\ Aggregate(dim, d, key, E).engagement \in Nat \cup {NULL}
         /\ key \in Keys(dim, E) => key \in STRING
<1> DEFINE G == GroupOf(dim, key, E)
<1>1. EventSet(G) /\ IsFiniteSet(G)
  BY GroupIsSet DEF EventSet
<1>2. Pageviews(G) \in SUBSET G /\ Bounced(G, E) \in SUBSET G
  BY DEF Pageviews, Bounced
<1>3. /\ IsFiniteSet(Pageviews(G)) /\ IsFiniteSet(Bounced(G, E))
      /\ IsFiniteSet(VisitorsIn(G)) /\ IsFiniteSet(SessionsIn(G))
  <2> HIDE DEF G
  <2> QED BY <1>1, <1>2, FS_Subset, EventImages DEF VisitorsIn, SessionsIn
<1>4. /\ Cardinality(Pageviews(G)) \in Nat /\ Cardinality(Bounced(G, E)) \in Nat
      /\ Cardinality(VisitorsIn(G)) \in Nat /\ Cardinality(SessionsIn(G)) \in Nat
  BY <1>3, FS_CardinalityType
<1>5. SqlSum(Worths(G)) \in Nat \cup {NULL}
  <2> HIDE DEF G
  <2> QED BY <1>1, EngagementIs
<1>6. key \in Keys(dim, E) => key \in STRING
  <2>1. ASSUME NEW e \in E PROVE KeyOf(dim, e) \in STRING
    <3>1. e.path \in STRING /\ e.visitor \in Visitors
      BY EventFields DEF EventSet
    <3>2. Device[e.visitor] \in STRING
      BY <3>1, ReportingAssumption DEF ReportingAssumption
    <3> QED BY <3>1, <3>2 DEF KeyOf
  <2> QED BY <2>1 DEF Keys
<1> QED BY <1>4, <1>5, <1>6, AggregateFields

\* So are those of a path's scroll row.
LEMMA ScrollTypes ==
  ASSUME NEW E, EventSet(E), NEW d, NEW path
  PROVE  /\ ScrollAggregate(d, path, E).depthSum \in Nat \cup {NULL}
         /\ ScrollAggregate(d, path, E).sessionCount \in Nat
         /\ path \in ScrolledPaths(E) => path \in STRING
         /\ EventSet(ScrollsOf(path, E))
<1> DEFINE S == ScrollsOf(path, E)
<1>1. EventSet(S)
  <2>1. S \in SUBSET E
    BY DEF ScrollsOf
  <2> HIDE DEF S
  <2> QED BY <2>1, EventSubset
<1>2. DepthSum(S) \in Nat \cup {NULL} /\ Cardinality(SessionsIn(S)) \in Nat
  <2> HIDE DEF S
  <2>1. IsFiniteSet(SessionsIn(S))
    BY <1>1, EventImages DEF EventSet, SessionsIn
  <2>2. DepthSum(S) \in Nat \cup {NULL}
    BY <1>1, DeepestIs
  <2> QED BY <2>1, <2>2, FS_CardinalityType
<1>3. path \in ScrolledPaths(E) => path \in STRING
  BY EventFields DEF ScrolledPaths
<1> QED BY <1>1, <1>2, <1>3, ScrollFields

\* The invariant implies the types.
LEMMA InvariantTypes == IInv => TypeOK
<1> SUFFICES ASSUME IInv PROVE TypeOK
  OBVIOUS
<1>1. /\ today \in 0..MaxDay /\ MaxDay \in Nat /\ covered \subseteq 0..(today - 1)
      /\ rows \subseteq collected /\ buffered \cap collected = {}
      /\ \A e \in collected \cup buffered : e.visitor \in Visitors /\ e.day \in 0..today
  BY ReportingAssumption DEF ReportingAssumption, IInv, EventsOK, Event, RowsRetained
<1>2. ASSUME NEW d \in 0..(today - 1), NEW E, Source(d, E)
      PROVE  /\ EventSet(E) /\ Built(d, E)
  <2>1. E \in SUBSET collected
    BY <1>2 DEF Source, Built, On
  <2> QED BY <1>2, <2>1, EventsAreSets DEF Source
<1>3. ASSUME NEW dim \in Dimensions, NEW r \in tables[dim]
      PROVE  r.day \in 0..(today - 1) /\ \E E : /\ EventSet(E) /\ Built(r.day, E)
                                                /\ r \in Aggregated(dim, r.day, E)
  <2>1. r.day \in 0..(today - 1)
    BY DEF IInv, TablesBuilt
  <2>2. PICK E : Source(r.day, E)
    BY <2>1 DEF IInv, TablesBuilt
  <2>3. EventSet(E) /\ Built(r.day, E)
    BY <1>2, <2>1, <2>2
  <2>4. r \in Aggregated(dim, r.day, E)
    BY <2>3 DEF Built
  <2> QED BY <2>1, <2>3, <2>4
<1>4. ASSUME NEW dim \in Dimensions, NEW r \in tables[dim]
      PROVE  r \in Row
  <2>1. PICK E : EventSet(E) /\ Built(r.day, E) /\ r \in Aggregated(dim, r.day, E)
    BY <1>3
  <2> DEFINE d == r.day
  <2>2. PICK key \in Keys(dim, E) : r = Aggregate(dim, d, key, E)
    BY <2>1 DEF Aggregated
  <2>3. r.engagement # NULL
    <3>1. Accepted([k \in Dimensions |-> Aggregated(k, d, E)], ScrollAggregated(d, E))
      BY <2>1 DEF Built
    <3> HIDE DEF d
    <3> QED BY <2>1, <3>1 DEF Accepted, d
  <2>4. d \in 0..MaxDay
    BY <1>1, <1>3
  <2> HIDE DEF d
  <2>5. /\ r.pageviews \in Nat /\ r.visitors \in Nat /\ r.sessions \in Nat /\ r.bounces \in Nat
        /\ r.engagement \in Nat \cup {NULL} /\ key \in STRING
    BY <2>1, <2>2, AggregateTypes
  <2>6. r.day = d /\ r.key = key
    BY <2>2, AggregateFields
  <2>7. r = [day |-> r.day, key |-> r.key, pageviews |-> r.pageviews, visitors |-> r.visitors,
             sessions |-> r.sessions, bounces |-> r.bounces, engagement |-> r.engagement]
    BY <2>2 DEF Aggregate
  <2> QED BY <2>3, <2>4, <2>5, <2>6, <2>7 DEF Row
<1>5. ASSUME NEW dim \in Dimensions, NEW r \in tables[dim], NEW q \in tables[dim],
             r.day = q.day, r.key = q.key
      PROVE  r = q
  <2> DEFINE d == r.day
  <2>1. PICK E : Source(d, E)
    BY <1>3 DEF IInv, TablesBuilt
  <2>2. r \in Aggregated(dim, d, E) /\ q \in Aggregated(dim, d, E)
    BY <1>5, <2>1 DEF Source, Built
  <2>3. PICK k1, k2 : r = Aggregate(dim, d, k1, E) /\ q = Aggregate(dim, d, k2, E)
    BY <2>2 DEF Aggregated
  <2>4. r.key = k1 /\ q.key = k2
    BY <2>3, AggregateFields
  <2> QED BY <1>5, <2>3, <2>4
<1>6. ASSUME NEW r \in scroll
      PROVE  r.day \in 0..(today - 1) /\ \E E : /\ EventSet(E) /\ Built(r.day, E)
                                                /\ r \in ScrollAggregated(r.day, E)
  <2>1. r.day \in 0..(today - 1)
    BY DEF IInv, TablesBuilt
  <2>2. PICK E : Source(r.day, E)
    BY <2>1 DEF IInv, TablesBuilt
  <2>3. EventSet(E) /\ Built(r.day, E)
    BY <1>2, <2>1, <2>2
  <2>4. r \in ScrollAggregated(r.day, E)
    BY <2>3 DEF Built
  <2> QED BY <2>1, <2>3, <2>4
<1>7. ASSUME NEW r \in scroll
      PROVE  r \in ScrollRow
  <2>1. PICK E : EventSet(E) /\ Built(r.day, E) /\ r \in ScrollAggregated(r.day, E)
    BY <1>6
  <2> DEFINE d == r.day
  <2>2. PICK path \in ScrolledPaths(E) : r = ScrollAggregate(d, path, E)
    BY <2>1 DEF ScrollAggregated
  <2>3. r.depthSum # NULL
    BY <2>1 DEF Built, Accepted
  <2>4. d \in 0..MaxDay
    BY <1>1, <1>6
  <2> HIDE DEF d
  <2>5. r.depthSum \in Nat \cup {NULL} /\ r.sessionCount \in Nat /\ path \in STRING
    BY <2>1, <2>2, ScrollTypes
  <2>6. r.day = d /\ r.path = path
    BY <2>2, ScrollFields
  <2>7. r = [day |-> r.day, path |-> r.path, depthSum |-> r.depthSum,
             sessionCount |-> r.sessionCount]
    BY <2>2 DEF ScrollAggregate
  <2> QED BY <2>3, <2>4, <2>5, <2>6, <2>7 DEF ScrollRow
<1>8. ASSUME NEW r \in scroll, NEW q \in scroll, r.day = q.day, r.path = q.path
      PROVE  r = q
  <2> DEFINE d == r.day
  <2>1. PICK E : Source(d, E)
    BY <1>6 DEF IInv, TablesBuilt
  <2>2. r \in ScrollAggregated(d, E) /\ q \in ScrollAggregated(d, E)
    BY <1>8, <2>1 DEF Source, Built
  <2>3. PICK k1, k2 : r = ScrollAggregate(d, k1, E) /\ q = ScrollAggregate(d, k2, E)
    BY <2>2 DEF ScrollAggregated
  <2>4. r.path = k1 /\ q.path = k2
    BY <2>3, ScrollFields
  <2> QED BY <1>8, <2>3, <2>4
<1>9. \A dim \in Dimensions : /\ tables[dim] \subseteq Row
                              /\ \A r, q \in tables[dim] : r.day = q.day /\ r.key = q.key => r = q
  BY <1>4, <1>5
<1>10. scroll \subseteq ScrollRow /\ \A r, q \in scroll : r.day = q.day /\ r.path = q.path => r = q
  BY <1>7, <1>8
<1> QED BY <1>1, <1>9, <1>10 DEF TypeOK

(* The types, with the primary keys of the rollup tables: one row for each day and   *)
(* key, however often the job rebuilds a day that already has rows.                  *)
THEOREM TypesHold == Spec => []TypeOK
BY InvariantHolds, InvariantTypes, PTL

-----------------------------------------------------------------------------------
(* What a report reads: rows made from some of the events of each day. *)

DayRows(dim, F) == [d \in Int |-> Aggregated(dim, d, F[d])]
DayScrolls(F) == [d \in Int |-> ScrollAggregated(d, F[d])]

\* The events that a day's rows were made from: all of them, if the day is today or has
\* been covered by a run that could be accepted.
ReadFrom(F) ==
  \A d \in Int :
    /\ EventSet(F[d]) /\ F[d] \subseteq On(d, collected)
    /\ d \notin 0..(today - 1) \/ (d \in covered /\ ~ Unaccountable(d)) => F[d] = On(d, collected)

RowsAreFrom(F) ==
  \A from, to \in Int : from <= to /\ to <= today =>
    /\ \A dim \in Dimensions : MetricRows(dim, from, to) = AllParts(DayRows(dim, F), from..to)
    /\ ScrollRows(from, to) = AllParts(DayScrolls(F), from..to)

\* Every day, closed or not, is read from rows made of some of its events.
LEMMA SourcesExist ==
  ASSUME IInv
  PROVE  \E F : ReadFrom(F) /\ RowsAreFrom(F)
<1> DEFINE F == [d \in Int |-> IF d \in 0..(today - 1) THEN CHOOSE E : Source(d, E)
                               ELSE On(d, collected)]
<1>1. today \in Nat /\ MaxDay \in Nat /\ covered \subseteq 0..(today - 1)
  BY ReportingAssumption DEF ReportingAssumption, IInv
<1>2. ASSUME NEW d \in 0..(today - 1) PROVE Source(d, F[d])
  <2>1. \E E : Source(d, E)
    BY DEF IInv, TablesBuilt
  <2>2. F[d] = CHOOSE E : Source(d, E)
    BY <1>1
  <2> HIDE DEF F
  <2> QED BY <2>1, <2>2
<1>3. ASSUME NEW d \in Int, d \notin 0..(today - 1) PROVE F[d] = On(d, collected)
  BY <1>3
<1> HIDE DEF F
<1>4. ASSUME NEW d \in Int
      PROVE  /\ F[d] \subseteq On(d, collected) /\ EventSet(F[d])
             /\ d \notin 0..(today - 1) \/ (d \in covered /\ ~ Unaccountable(d))
                  => F[d] = On(d, collected)
  <2>1. F[d] \subseteq On(d, collected)
    BY <1>2, <1>3 DEF Source, Built
  <2>2. EventSet(F[d])
    <3>1. F[d] \in SUBSET collected
      BY <2>1 DEF On
    <3> QED BY <3>1, EventsAreSets
  <2>3. CASE d \in 0..(today - 1)
    BY <1>2, <2>1, <2>2, <2>3 DEF Source
  <2>4. CASE d \notin 0..(today - 1)
    BY <1>3, <2>1, <2>2, <2>4
  <2> QED BY <2>3, <2>4
<1>5. \A e \in collected : e.day \in 0..today
  BY DEF IInv, EventsOK, Event
<1>6. ASSUME NEW d \in Int, d < 0
      PROVE  /\ \A dim : Aggregated(dim, d, F[d]) = {}
             /\ ScrollAggregated(d, F[d]) = {}
  <2>1. F[d] = {}
    BY <1>3, <1>5, <1>6, <1>1 DEF On
  <2> QED BY <2>1, NothingAggregated
<1>7. F[today] = On(today, rows)
  <2>1. F[today] = On(today, collected)
    BY <1>1, <1>3
  <2>2. ASSUME NEW e \in collected, e.day = today PROVE e \in rows
    <3>1. e.day > today - Retention
      BY <1>1, <2>2, ReportingAssumption DEF ReportingAssumption
    <3> QED BY <3>1 DEF IInv, RowsRetained
  <2> QED BY <2>1, <2>2 DEF On, IInv, RowsRetained
<1>8. ASSUME NEW from \in Int, NEW to \in Int, from <= to, to <= today
      PROVE  Open(from, to) = IF to = today THEN F[today] ELSE {}
  <2>1. \A e \in rows : e.day \in 0..today
    BY <1>5 DEF IInv, RowsRetained
  <2> QED BY <1>1, <1>7, <1>8, <2>1 DEF Open, On
<1>9. ASSUME NEW from \in Int, NEW to \in Int, from <= to, to <= today, NEW dim \in Dimensions
      PROVE  MetricRows(dim, from, to) = AllParts(DayRows(dim, F), from..to)
  <2> DEFINE P == DayRows(dim, F)
             old == Closed(from, to, tables[dim])
             new == Aggregated(dim, today, Open(from, to))
  <2>1. \A d \in Int : P[d] = Aggregated(dim, d, F[d])
    BY DEF DayRows
  <2>2. \A r \in tables[dim] : r.day \in 0..(today - 1)
    BY DEF IInv, TablesBuilt
  <2>3. ASSUME NEW d \in 0..(today - 1) PROVE P[d] = {r \in tables[dim] : r.day = d}
    <3>1. d \in Int /\ Built(d, F[d])
      BY <1>1, <1>2 DEF Source
    <3>2. {r \in tables[dim] : r.day = d} = Aggregated(dim, d, F[d])
      BY <3>1 DEF Built
    <3> HIDE DEF P
    <3> QED BY <2>1, <3>1, <3>2
  <2>4. new = IF to = today THEN P[today] ELSE {}
    BY <1>1, <1>8, <1>9, <2>1, NothingAggregated
  <2> HIDE DEF P, new
  <2>5. ASSUME NEW r \in old PROVE \E d \in from..to : r \in P[d]
    BY <1>1, <2>2, <2>3 DEF Closed
  <2>6. ASSUME NEW r \in new PROVE \E d \in from..to : r \in P[d]
    BY <1>1, <1>9, <2>4
  <2>7. ASSUME NEW d \in from..to, NEW r \in P[d] PROVE r \in old \cup new
    <3>1. CASE d < 0
      BY <1>6, <2>1, <3>1
    <3>2. CASE d = today
      <4>1. to = today
        BY <1>1, <1>9, <3>2
      <4> QED BY <2>4, <3>2, <4>1
    <3>3. CASE d \in 0..(today - 1)
      <4>1. r \in tables[dim] /\ r.day = d
        BY <2>3, <3>3
      <4> QED BY <1>1, <3>3, <4>1 DEF Closed
    <3> QED BY <1>1, <1>9, <3>1, <3>2, <3>3
  <2>8. old \cup new = AllParts(P, from..to)
    <3> HIDE DEF old
    <3> QED BY <2>5, <2>6, <2>7 DEF AllParts
  <2> QED BY <2>8 DEF MetricRows, P, new
<1>10. ASSUME NEW from \in Int, NEW to \in Int, from <= to, to <= today
       PROVE  ScrollRows(from, to) = AllParts(DayScrolls(F), from..to)
  <2> DEFINE P == DayScrolls(F)
             old == Closed(from, to, scroll)
             new == ScrollAggregated(today, Open(from, to))
  <2>1. \A d \in Int : P[d] = ScrollAggregated(d, F[d])
    BY DEF DayScrolls
  <2>2. \A r \in scroll : r.day \in 0..(today - 1)
    BY DEF IInv, TablesBuilt
  <2>3. ASSUME NEW d \in 0..(today - 1) PROVE P[d] = {r \in scroll : r.day = d}
    <3>1. d \in Int /\ Built(d, F[d])
      BY <1>1, <1>2 DEF Source
    <3>2. {r \in scroll : r.day = d} = ScrollAggregated(d, F[d])
      BY <3>1 DEF Built
    <3> HIDE DEF P
    <3> QED BY <2>1, <3>1, <3>2
  <2>4. new = IF to = today THEN P[today] ELSE {}
    BY <1>1, <1>8, <1>10, <2>1, NothingAggregated
  <2> HIDE DEF P, new
  <2>5. ASSUME NEW r \in old PROVE \E d \in from..to : r \in P[d]
    BY <1>1, <2>2, <2>3 DEF Closed
  <2>6. ASSUME NEW r \in new PROVE \E d \in from..to : r \in P[d]
    BY <1>1, <1>10, <2>4
  <2>7. ASSUME NEW d \in from..to, NEW r \in P[d] PROVE r \in old \cup new
    <3>1. CASE d < 0
      BY <1>6, <2>1, <3>1
    <3>2. CASE d = today
      <4>1. to = today
        BY <1>1, <1>10, <3>2
      <4> QED BY <2>4, <3>2, <4>1
    <3>3. CASE d \in 0..(today - 1)
      <4>1. r \in scroll /\ r.day = d
        BY <2>3, <3>3
      <4> QED BY <1>1, <3>3, <4>1 DEF Closed
    <3> QED BY <1>1, <1>10, <3>1, <3>2, <3>3
  <2>8. old \cup new = AllParts(P, from..to)
    <3> HIDE DEF old
    <3> QED BY <2>5, <2>6, <2>7 DEF AllParts
  <2> QED BY <2>8 DEF ScrollRows, P, new
<1> QED BY <1>4, <1>9, <1>10 DEF ReadFrom, RowsAreFrom

-----------------------------------------------------------------------------------
(* Sums of rows. *)

\* A key that none of the events has counts for nothing.
LEMMA AbsentKey ==
  ASSUME NEW E, NEW dim, NEW d, NEW key, key \notin Keys(dim, E)
  PROVE  /\ Aggregate(dim, d, key, E).pageviews = 0 /\ Aggregate(dim, d, key, E).visitors = 0
         /\ Aggregate(dim, d, key, E).sessions = 0 /\ Aggregate(dim, d, key, E).bounces = 0
         /\ Amount(Aggregate(dim, d, key, E).engagement) = 0
<1> DEFINE G == GroupOf(dim, key, E)
<1>1. G = {}
  BY DEF GroupOf, Keys
<1>2. Pageviews(G) = {} /\ VisitorsIn(G) = {} /\ SessionsIn(G) = {} /\ Bounced(G, E) = {}
  BY <1>1 DEF Pageviews, VisitorsIn, SessionsIn, Bounced
<1>3. SqlSum(Worths(G)) = NULL
  BY <1>1 DEF SqlSum, Worths
<1>4. Cardinality({}) = 0
  BY FS_EmptySet
<1>5. /\ Aggregate(dim, d, key, E).pageviews = Cardinality(Pageviews(G))
      /\ Aggregate(dim, d, key, E).visitors = Cardinality(VisitorsIn(G))
      /\ Aggregate(dim, d, key, E).sessions = Cardinality(SessionsIn(G))
      /\ Aggregate(dim, d, key, E).bounces = Cardinality(Bounced(G, E))
      /\ Aggregate(dim, d, key, E).engagement = SqlSum(Worths(G))
  BY AggregateFields
<1> HIDE DEF G
<1> QED BY <1>2, <1>3, <1>4, <1>5 DEF Amount

\* The rows of one key, each with the value u of its day.
KeyRows(dim, key, F, I) == {r \in AllParts(DayRows(dim, F), I) : r.key = key}
KeyValues(w, u, dim, key, F, I) ==
  /\ IsFiniteSet(I) /\ I \subseteq Int
  /\ \A d \in I : /\ u[d] \in Nat /\ (key \notin Keys(dim, F[d]) => u[d] = 0)
                  /\ key \in Keys(dim, F[d]) => w[Aggregate(dim, d, key, F[d])] = u[d]

\* The rows of one key add up to the values of their days.
LEMMA KeyTotal ==
  ASSUME NEW w, NEW u, NEW dim, NEW key, NEW F, NEW I, KeyValues(w, u, dim, key, F, I)
  PROVE  /\ Summable(u, I)
         /\ SumFunctionOnSet(w, KeyRows(dim, key, F, I)) = SumFunctionOnSet(u, I)
<1> DEFINE D == {d \in I : key \in Keys(dim, F[d])}
           m == [d \in D |-> Aggregate(dim, d, key, F[d])]
           R == KeyRows(dim, key, F, I)
<1>1. Summable(u, I) /\ I \subseteq Int
  BY DEF KeyValues, Summable
<1>2. \A d \in D : m[d].day = d /\ m[d].key = key /\ m[d] = Aggregate(dim, d, key, F[d])
  BY AggregateFields
<1>3. R = {m[d] : d \in D}
  <2>1. ASSUME NEW r \in R PROVE \E d \in D : r = m[d]
    <3>1. PICK d \in I : r \in Aggregated(dim, d, F[d]) /\ r.key = key
      BY <1>1 DEF KeyRows, AllParts, DayRows
    <3>2. PICK k \in Keys(dim, F[d]) : r = Aggregate(dim, d, k, F[d])
      BY <3>1 DEF Aggregated
    <3>3. k = key
      BY <3>1, <3>2, AggregateFields
    <3> QED BY <1>2, <3>2, <3>3
  <2>2. ASSUME NEW d \in D PROVE m[d] \in R
    <3>1. m[d] \in Aggregated(dim, d, F[d])
      BY <1>2 DEF Aggregated
    <3>2. m[d] \in AllParts(DayRows(dim, F), I)
      BY <1>1, <3>1 DEF AllParts, DayRows
    <3> HIDE DEF m
    <3> QED BY <1>2, <3>2 DEF KeyRows
  <2> HIDE DEF m, R, D
  <2> QED BY <2>1, <2>2
<1>4. Skips(u, I, D)
  BY <1>1 DEF Skips, KeyValues
<1>5. Renames(m, u, D, w, R)
  <2>1. Summable(u, D)
    <3>1. D \in SUBSET I
      OBVIOUS
    <3> HIDE DEF D
    <3> QED BY <1>1, <3>1, SummablePart
  <2>2. \A d \in D : w[m[d]] = u[d]
    BY DEF KeyValues
  <2>3. \A d, c \in D : m[d] = m[c] => d = c
    BY <1>2
  <2> HIDE DEF m, R, D
  <2> QED BY <1>3, <2>1, <2>2, <2>3 DEF Renames
<1>6. SumFunctionOnSet(u, D) = SumFunctionOnSet(w, R)
  <2> HIDE DEF m, R, D
  <2> QED BY <1>5, SumRenamed
<1>7. SumFunctionOnSet(u, I) = SumFunctionOnSet(u, D)
  <2> HIDE DEF D
  <2> QED BY <1>4, SumSkip
<1> HIDE DEF D
<1> QED BY <1>1, <1>6, <1>7

\* All rows, with t the sum of each day's.
DayValues(w, t, dim, F, I) ==
  /\ IsFiniteSet(I) /\ I \subseteq Int
  /\ \A d \in I : /\ Summable(w, Aggregated(dim, d, F[d]))
                  /\ SumFunctionOnSet(w, Aggregated(dim, d, F[d])) = t[d]

\* All rows add up to the totals of their days.
LEMMA RangeTotal ==
  ASSUME NEW w, NEW t, NEW dim, NEW F, NEW I, DayValues(w, t, dim, F, I)
  PROVE  /\ Summable(t, I)
         /\ SumFunctionOnSet(w, AllParts(DayRows(dim, F), I)) = SumFunctionOnSet(t, I)
<1> DEFINE P == DayRows(dim, F)
           s == Sums(w, P, I)
<1>1. \A d \in I : P[d] = Aggregated(dim, d, F[d])
  BY DEF DayRows, DayValues
<1>2. Parted(w, P, I)
  <2>1. ASSUME NEW d \in I, NEW r \in P[d] PROVE r.day = d
    <3>1. r \in Aggregated(dim, d, F[d])
      BY <1>1
    <3> QED BY <3>1, RowsOfDay
  <2> HIDE DEF P
  <2> QED BY <1>1, <2>1 DEF Parted, DayValues
<1>3. /\ Summable(s, I) /\ SumFunctionOnSet(w, AllParts(P, I)) = SumFunctionOnSet(s, I)
  <2> HIDE DEF P
  <2> QED BY <1>2, SumParts
<1>4. \A d \in I : s[d] = t[d]
  BY <1>1 DEF Sums, DayValues
<1>5. Agree(s, t, I) /\ Summable(t, I)
  <2> HIDE DEF s
  <2> QED BY <1>3, <1>4 DEF Agree, Summable
<1>6. SumFunctionOnSet(s, I) = SumFunctionOnSet(t, I)
  <2> HIDE DEF s
  <2> QED BY <1>5, SumSame
<1> HIDE DEF s, P
<1> QED BY <1>3, <1>5, <1>6 DEF P

\* One day's rows, each with the number of things of its key: together, the things of all.
GroupParts(w, P, dim, d, E) ==
  /\ IsFiniteSet(E)
  /\ \A key \in Keys(dim, E) : /\ IsFiniteSet(P[key])
                               /\ w[Aggregate(dim, d, key, E)] = Cardinality(P[key])
  /\ \A key, k \in Keys(dim, E) : key # k => P[key] \cap P[k] = {}

\* The same, each with the amount s of its key.
GroupValues(w, s, dim, d, E) ==
  /\ Summable(s, Keys(dim, E))
  /\ \A key \in Keys(dim, E) : w[Aggregate(dim, d, key, E)] = s[key]

\* The rows of one day add up to the amounts of its keys ...
LEMMA GroupsAdd ==
  ASSUME NEW w, NEW s, NEW dim, NEW d, NEW E, GroupValues(w, s, dim, d, E)
  PROVE  /\ Summable(w, Aggregated(dim, d, E))
         /\ SumFunctionOnSet(w, Aggregated(dim, d, E)) = SumFunctionOnSet(s, Keys(dim, E))
<1> DEFINE K == Keys(dim, E)
           m == [key \in K |-> Aggregate(dim, d, key, E)]
           R == Aggregated(dim, d, E)
<1>1. R = {m[key] : key \in K}
  BY DEF Aggregated
<1>2. \A key, k \in K : m[key] = m[k] => key = k
  <2>1. \A key \in K : m[key].key = key
    BY AggregateFields
  <2> HIDE DEF m, K
  <2> QED BY <2>1
<1>3. Summable(s, K) /\ \A key \in K : w[m[key]] = s[key]
  BY DEF GroupValues
<1>4. Renames(m, s, K, w, R)
  <2> HIDE DEF m, K, R
  <2> QED BY <1>1, <1>2, <1>3 DEF Renames
<1> HIDE DEF m
<1> QED BY <1>4, SumRenamed

\* ... or to the number of things that its keys have, none of them in two.
LEMMA GroupsCount ==
  ASSUME NEW w, NEW P, NEW dim, NEW d, NEW E, GroupParts(w, P, dim, d, E)
  PROVE  /\ Summable(w, Aggregated(dim, d, E))
         /\ SumFunctionOnSet(w, Aggregated(dim, d, E)) = Cardinality(AllParts(P, Keys(dim, E)))
<1> DEFINE K == Keys(dim, E)
           s == Sizes(P, K)
<1>1. IsFiniteSet(K)
  BY EventImages DEF GroupParts
<1>2. Disjoint(P, K)
  BY <1>1 DEF GroupParts, Disjoint
<1>3. Summable(s, K) /\ Cardinality(AllParts(P, K)) = SumFunctionOnSet(s, K)
  <2> HIDE DEF K
  <2> QED BY <1>2, CardParts
<1>4. GroupValues(w, s, dim, d, E)
  <2>1. \A key \in K : w[Aggregate(dim, d, key, E)] = s[key]
    BY DEF GroupParts, Sizes
  <2> HIDE DEF s
  <2> QED BY <1>3, <2>1 DEF GroupValues
<1>5. /\ Summable(w, Aggregated(dim, d, E))
      /\ SumFunctionOnSet(w, Aggregated(dim, d, E)) = SumFunctionOnSet(s, K)
  <2> HIDE DEF s
  <2> QED BY <1>4, GroupsAdd
<1> QED BY <1>3, <1>5

-----------------------------------------------------------------------------------
(* Merged rows, metric by metric. *)

PageviewColumn(R) == [r \in R |-> r.pageviews]
VisitorColumn(R) == [r \in R |-> r.visitors]
SessionColumn(R) == [r \in R |-> r.sessions]
BounceColumn(R) == [r \in R |-> r.bounces]
EngagementColumn(R) == [r \in R |-> Amount(r.engagement)]

\* Each metric of merged rows is the sum of a column.
LEMMA MergedFields ==
  ASSUME NEW R
  PROVE  /\ Merged(R).pageviews = SumFunctionOnSet(PageviewColumn(R), R)
         /\ Merged(R).visitors = SumFunctionOnSet(VisitorColumn(R), R)
         /\ Merged(R).sessions = SumFunctionOnSet(SessionColumn(R), R)
         /\ Merged(R).bounces = SumFunctionOnSet(BounceColumn(R), R)
         /\ Merged(R).engagement = SumFunctionOnSet(EngagementColumn(R), R)
<1>1. /\ DOMAIN PageviewColumn(R) = R /\ DOMAIN VisitorColumn(R) = R
      /\ DOMAIN SessionColumn(R) = R /\ DOMAIN BounceColumn(R) = R
      /\ DOMAIN EngagementColumn(R) = R
  BY DEF PageviewColumn, VisitorColumn, SessionColumn, BounceColumn, EngagementColumn
<1>2. Merged(R) = [pageviews |-> SumFunction(PageviewColumn(R)),
                   visitors |-> SumFunction(VisitorColumn(R)),
                   sessions |-> SumFunction(SessionColumn(R)),
                   bounces |-> SumFunction(BounceColumn(R)),
                   engagement |-> SumFunction(EngagementColumn(R))]
  BY DEF Merged, PageviewColumn, VisitorColumn, SessionColumn, BounceColumn, EngagementColumn
<1> QED BY <1>1, <1>2 DEF SumFunction

\* What the rows of one key hold, day by day.
PageviewDays(dim, key, F, I) == [d \in I |-> Aggregate(dim, d, key, F[d]).pageviews]
VisitorDays(dim, key, F, I) == [d \in I |-> Aggregate(dim, d, key, F[d]).visitors]
SessionDays(dim, key, F, I) == [d \in I |-> Aggregate(dim, d, key, F[d]).sessions]
BounceDays(dim, key, F, I) == [d \in I |-> Aggregate(dim, d, key, F[d]).bounces]
EngagementDays(dim, key, F, I) == [d \in I |-> Amount(Aggregate(dim, d, key, F[d]).engagement)]

\* The events of each of the days.
DaySets(F, I) == IsFiniteSet(I) /\ I \subseteq Int /\ \A d \in I : EventSet(F[d])

\* The merged rows of one key, metric by metric and day by day.
LEMMA KeyMerged ==
  ASSUME NEW dim \in Dimensions, NEW key, NEW F, NEW I, DaySets(F, I)
  PROVE  LET R == KeyRows(dim, key, F, I) IN
         /\ Merged(R).pageviews = SumFunctionOnSet(PageviewDays(dim, key, F, I), I)
         /\ Merged(R).visitors = SumFunctionOnSet(VisitorDays(dim, key, F, I), I)
         /\ Merged(R).sessions = SumFunctionOnSet(SessionDays(dim, key, F, I), I)
         /\ Merged(R).bounces = SumFunctionOnSet(BounceDays(dim, key, F, I), I)
         /\ Merged(R).engagement = SumFunctionOnSet(EngagementDays(dim, key, F, I), I)
         /\ Summable(PageviewDays(dim, key, F, I), I) /\ Summable(VisitorDays(dim, key, F, I), I)
         /\ Summable(SessionDays(dim, key, F, I), I) /\ Summable(BounceDays(dim, key, F, I), I)
         /\ Summable(EngagementDays(dim, key, F, I), I)
<1> DEFINE R == KeyRows(dim, key, F, I)
           a(d) == Aggregate(dim, d, key, F[d])
<1>1. ASSUME NEW d \in I
      PROVE  /\ a(d).pageviews \in Nat /\ a(d).visitors \in Nat /\ a(d).sessions \in Nat
             /\ a(d).bounces \in Nat /\ Amount(a(d).engagement) \in Nat
  BY AggregateTypes DEF DaySets, Amount
<1>2. ASSUME NEW d \in I, key \notin Keys(dim, F[d])
      PROVE  /\ a(d).pageviews = 0 /\ a(d).visitors = 0 /\ a(d).sessions = 0
             /\ a(d).bounces = 0 /\ Amount(a(d).engagement) = 0
  BY <1>2, AbsentKey
<1>3. ASSUME NEW d \in I, key \in Keys(dim, F[d]) PROVE a(d) \in R
  <2>1. a(d) \in Aggregated(dim, d, F[d])
    BY <1>3 DEF Aggregated
  <2>2. a(d) \in AllParts(DayRows(dim, F), I)
    BY <2>1 DEF AllParts, DayRows, DaySets
  <2> QED BY <2>2, AggregateFields DEF KeyRows
<1>4. IsFiniteSet(I) /\ I \subseteq Int
  BY DEF DaySets
<1> HIDE DEF R
<1>5. /\ KeyValues(PageviewColumn(R), PageviewDays(dim, key, F, I), dim, key, F, I)
      /\ KeyValues(VisitorColumn(R), VisitorDays(dim, key, F, I), dim, key, F, I)
      /\ KeyValues(SessionColumn(R), SessionDays(dim, key, F, I), dim, key, F, I)
      /\ KeyValues(BounceColumn(R), BounceDays(dim, key, F, I), dim, key, F, I)
      /\ KeyValues(EngagementColumn(R), EngagementDays(dim, key, F, I), dim, key, F, I)
  <2>pageviews. KeyValues(PageviewColumn(R), PageviewDays(dim, key, F, I), dim, key, F, I)
    BY <1>1, <1>2, <1>3, <1>4 DEF KeyValues, PageviewColumn, PageviewDays
  <2>visitors. KeyValues(VisitorColumn(R), VisitorDays(dim, key, F, I), dim, key, F, I)
    BY <1>1, <1>2, <1>3, <1>4 DEF KeyValues, VisitorColumn, VisitorDays
  <2>sessions. KeyValues(SessionColumn(R), SessionDays(dim, key, F, I), dim, key, F, I)
    BY <1>1, <1>2, <1>3, <1>4 DEF KeyValues, SessionColumn, SessionDays
  <2>bounces. KeyValues(BounceColumn(R), BounceDays(dim, key, F, I), dim, key, F, I)
    BY <1>1, <1>2, <1>3, <1>4 DEF KeyValues, BounceColumn, BounceDays
  <2>engagement. KeyValues(EngagementColumn(R), EngagementDays(dim, key, F, I), dim, key, F, I)
    BY <1>1, <1>2, <1>3, <1>4 DEF KeyValues, EngagementColumn, EngagementDays
  <2> QED BY <2>pageviews, <2>visitors, <2>sessions, <2>bounces, <2>engagement
<1>6. /\ Summable(PageviewDays(dim, key, F, I), I)
      /\ SumFunctionOnSet(PageviewColumn(R), R) = SumFunctionOnSet(PageviewDays(dim, key, F, I), I)
  BY <1>5, KeyTotal DEF R
<1>7. /\ Summable(VisitorDays(dim, key, F, I), I)
      /\ SumFunctionOnSet(VisitorColumn(R), R) = SumFunctionOnSet(VisitorDays(dim, key, F, I), I)
  BY <1>5, KeyTotal DEF R
<1>8. /\ Summable(SessionDays(dim, key, F, I), I)
      /\ SumFunctionOnSet(SessionColumn(R), R) = SumFunctionOnSet(SessionDays(dim, key, F, I), I)
  BY <1>5, KeyTotal DEF R
<1>9. /\ Summable(BounceDays(dim, key, F, I), I)
      /\ SumFunctionOnSet(BounceColumn(R), R) = SumFunctionOnSet(BounceDays(dim, key, F, I), I)
  BY <1>5, KeyTotal DEF R
<1>10. /\ Summable(EngagementDays(dim, key, F, I), I)
       /\ SumFunctionOnSet(EngagementColumn(R), R)
            = SumFunctionOnSet(EngagementDays(dim, key, F, I), I)
  BY <1>5, KeyTotal DEF R
<1>11. /\ Merged(R).pageviews = SumFunctionOnSet(PageviewDays(dim, key, F, I), I)
       /\ Merged(R).visitors = SumFunctionOnSet(VisitorDays(dim, key, F, I), I)
       /\ Merged(R).sessions = SumFunctionOnSet(SessionDays(dim, key, F, I), I)
       /\ Merged(R).bounces = SumFunctionOnSet(BounceDays(dim, key, F, I), I)
       /\ Merged(R).engagement = SumFunctionOnSet(EngagementDays(dim, key, F, I), I)
  BY <1>6, <1>7, <1>8, <1>9, <1>10, MergedFields
<1> QED BY <1>6, <1>7, <1>8, <1>9, <1>10, <1>11 DEF R

-----------------------------------------------------------------------------------
(* All rows of a range: each day's rows add up to what its events say. *)

PageviewTotals(F) == [d \in Int |-> Cardinality(Pageviews(F[d]))]
VisitorTotals(F) == [d \in Int |-> Cardinality(VisitorsIn(F[d]))]
SessionTotals(F) == [d \in Int |-> Cardinality(SessionsIn(F[d]))]
BounceTotals(F) == [d \in Int |-> Cardinality(Bounced(F[d], F[d]))]
EngagementTotals(F) == [d \in Int |-> SumFunctionOnSet(WorthOf(F[d]), F[d])]

\* A column that holds what the rows of one day do.
LEMMA DayPageviews ==
  ASSUME NEW dim, NEW d, NEW E, EventSet(E), NEW R, Aggregated(dim, d, E) \subseteq R
  PROVE  /\ Summable(PageviewColumn(R), Aggregated(dim, d, E))
         /\ SumFunctionOnSet(PageviewColumn(R), Aggregated(dim, d, E)) = Cardinality(Pageviews(E))
<1> DEFINE K == Keys(dim, E)
           P == [key \in K |-> Pageviews(GroupOf(dim, key, E))]
<1>1. IsFiniteSet(E)
  BY DEF EventSet
<1>2. ASSUME NEW key \in K
      PROVE  /\ IsFiniteSet(P[key])
             /\ PageviewColumn(R)[Aggregate(dim, d, key, E)] = Cardinality(P[key])
  <2>1. P[key] \in SUBSET E
    BY DEF Pageviews, GroupOf
  <2>2. Aggregate(dim, d, key, E) \in R
    BY DEF Aggregated
  <2>3. Aggregate(dim, d, key, E).pageviews = Cardinality(P[key])
    BY AggregateFields
  <2> HIDE DEF P, K
  <2> QED BY <1>1, <2>1, <2>2, <2>3, FS_Subset DEF PageviewColumn
<1>3. \A key, k \in K : key # k => P[key] \cap P[k] = {}
  BY DEF Pageviews, GroupOf
<1>4. AllParts(P, K) = Pageviews(E)
  <2>1. ASSUME NEW e \in Pageviews(E) PROVE \E key \in K : e \in P[key]
    <3>1. e \in E /\ KeyOf(dim, e) \in K
      BY DEF Keys, Pageviews, GroupOf
    <3>2. e \in P[KeyOf(dim, e)]
      BY <3>1 DEF Pageviews, GroupOf
    <3> HIDE DEF P, K
    <3> QED BY <3>1, <3>2
  <2>2. ASSUME NEW key \in K, NEW e \in P[key] PROVE e \in Pageviews(E)
    BY DEF Pageviews, GroupOf
  <2> HIDE DEF P, K
  <2> QED BY <2>1, <2>2 DEF AllParts
<1> HIDE DEF P
<1>5. GroupParts(PageviewColumn(R), P, dim, d, E)
  BY <1>1, <1>2, <1>3 DEF GroupParts
<1>6. /\ Summable(PageviewColumn(R), Aggregated(dim, d, E))
      /\ SumFunctionOnSet(PageviewColumn(R), Aggregated(dim, d, E)) = Cardinality(AllParts(P, K))
  BY <1>5, GroupsCount
<1> HIDE DEF K
<1> QED BY <1>4, <1>6

\* The bounces of all keys are the bounces of the day.
LEMMA DayBounces ==
  ASSUME NEW dim, NEW d, NEW E, EventSet(E), NEW R, Aggregated(dim, d, E) \subseteq R
  PROVE  /\ Summable(BounceColumn(R), Aggregated(dim, d, E))
         /\ SumFunctionOnSet(BounceColumn(R), Aggregated(dim, d, E)) = Cardinality(Bounced(E, E))
<1> DEFINE K == Keys(dim, E)
           P == [key \in K |-> Bounced(GroupOf(dim, key, E), E)]
<1>1. IsFiniteSet(E)
  BY DEF EventSet
<1>2. ASSUME NEW key \in K
      PROVE  /\ IsFiniteSet(P[key])
             /\ BounceColumn(R)[Aggregate(dim, d, key, E)] = Cardinality(P[key])
  <2>1. P[key] \in SUBSET E
    BY DEF Pageviews, Bounced, GroupOf
  <2>2. Aggregate(dim, d, key, E) \in R
    BY DEF Aggregated
  <2>3. Aggregate(dim, d, key, E).bounces = Cardinality(P[key])
    BY AggregateFields
  <2> HIDE DEF P, K
  <2> QED BY <1>1, <2>1, <2>2, <2>3, FS_Subset DEF BounceColumn
<1>3. \A key, k \in K : key # k => P[key] \cap P[k] = {}
  BY DEF Pageviews, Bounced, GroupOf
<1>4. AllParts(P, K) = Bounced(E, E)
  <2>1. ASSUME NEW e \in Bounced(E, E) PROVE \E key \in K : e \in P[key]
    <3>1. e \in E /\ KeyOf(dim, e) \in K
      BY DEF Keys, Pageviews, Bounced, GroupOf
    <3>2. e \in P[KeyOf(dim, e)]
      BY <3>1 DEF Pageviews, Bounced, GroupOf
    <3> HIDE DEF P, K
    <3> QED BY <3>1, <3>2
  <2>2. ASSUME NEW key \in K, NEW e \in P[key] PROVE e \in Bounced(E, E)
    BY DEF Pageviews, Bounced, GroupOf
  <2> HIDE DEF P, K
  <2> QED BY <2>1, <2>2 DEF AllParts
<1> HIDE DEF P
<1>5. GroupParts(BounceColumn(R), P, dim, d, E)
  BY <1>1, <1>2, <1>3 DEF GroupParts
<1>6. /\ Summable(BounceColumn(R), Aggregated(dim, d, E))
      /\ SumFunctionOnSet(BounceColumn(R), Aggregated(dim, d, E)) = Cardinality(AllParts(P, K))
  BY <1>5, GroupsCount
<1> HIDE DEF K
<1> QED BY <1>4, <1>6

\* A visitor has one device, and so has each of its sessions.
LEMMA DayPeople ==
  ASSUME NEW d, NEW E, EventSet(E), NEW R, Aggregated("device", d, E) \subseteq R
  PROVE  /\ Summable(VisitorColumn(R), Aggregated("device", d, E))
         /\ SumFunctionOnSet(VisitorColumn(R), Aggregated("device", d, E))
              = Cardinality(VisitorsIn(E))
         /\ Summable(SessionColumn(R), Aggregated("device", d, E))
         /\ SumFunctionOnSet(SessionColumn(R), Aggregated("device", d, E))
              = Cardinality(SessionsIn(E))
<1> DEFINE dim == "device"
           K == Keys(dim, E)
           P == [key \in K |-> VisitorsIn(GroupOf(dim, key, E))]
           Q == [key \in K |-> SessionsIn(GroupOf(dim, key, E))]
<1>1. \A e \in E : KeyOf(dim, e) = Device[e.visitor] /\ e.session[1] = e.visitor
  BY DEF EventSet, KeyOf
<1> HIDE DEF dim
<1>2. ASSUME NEW key \in K
      PROVE  /\ IsFiniteSet(P[key]) /\ IsFiniteSet(Q[key])
             /\ VisitorColumn(R)[Aggregate(dim, d, key, E)] = Cardinality(P[key])
             /\ SessionColumn(R)[Aggregate(dim, d, key, E)] = Cardinality(Q[key])
  <2> DEFINE G == GroupOf(dim, key, E)
  <2>finite. IsFiniteSet(G)
    BY GroupIsSet DEF EventSet
  <2> HIDE DEF G
  <2>images. IsFiniteSet(VisitorsIn(G)) /\ IsFiniteSet(SessionsIn(G))
    BY <2>finite, EventImages DEF VisitorsIn, SessionsIn
  <2>parts. P[key] = VisitorsIn(G) /\ Q[key] = SessionsIn(G)
    BY DEF G
  <2>row. Aggregate(dim, d, key, E) \in R
    BY DEF Aggregated, dim
  <2>counts. /\ Aggregate(dim, d, key, E).visitors = Cardinality(VisitorsIn(G))
             /\ Aggregate(dim, d, key, E).sessions = Cardinality(SessionsIn(G))
    BY AggregateFields DEF G
  <2> HIDE DEF P, Q, K
  <2> QED BY <2>images, <2>parts, <2>row, <2>counts DEF VisitorColumn, SessionColumn
<1>3. \A key, k \in K : key # k => P[key] \cap P[k] = {}
  BY <1>1 DEF VisitorsIn, GroupOf
<1>4. \A key, k \in K : key # k => Q[key] \cap Q[k] = {}
  BY <1>1 DEF SessionsIn, GroupOf
<1>5. AllParts(P, K) = VisitorsIn(E)
  <2>1. ASSUME NEW x \in VisitorsIn(E) PROVE \E key \in K : x \in P[key]
    <3>1. PICK e \in E : x = e.visitor
      BY DEF VisitorsIn
    <3>2. KeyOf(dim, e) \in K /\ e \in GroupOf(dim, KeyOf(dim, e), E)
      BY DEF Keys, GroupOf
    <3>3. x \in P[KeyOf(dim, e)]
      BY <3>1, <3>2 DEF VisitorsIn
    <3> HIDE DEF P, Q, K
    <3> QED BY <3>2, <3>3
  <2>2. ASSUME NEW key \in K, NEW x \in P[key] PROVE x \in VisitorsIn(E)
    BY DEF VisitorsIn, GroupOf
  <2> HIDE DEF P, Q, K
  <2> QED BY <2>1, <2>2 DEF AllParts
<1>6. AllParts(Q, K) = SessionsIn(E)
  <2>1. ASSUME NEW x \in SessionsIn(E) PROVE \E key \in K : x \in Q[key]
    <3>1. PICK e \in E : x = e.session
      BY DEF SessionsIn
    <3>2. KeyOf(dim, e) \in K /\ e \in GroupOf(dim, KeyOf(dim, e), E)
      BY DEF Keys, GroupOf
    <3>3. x \in Q[KeyOf(dim, e)]
      BY <3>1, <3>2 DEF SessionsIn
    <3> HIDE DEF P, Q, K
    <3> QED BY <3>2, <3>3
  <2>2. ASSUME NEW key \in K, NEW x \in Q[key] PROVE x \in SessionsIn(E)
    BY DEF SessionsIn, GroupOf
  <2> HIDE DEF P, Q, K
  <2> QED BY <2>1, <2>2 DEF AllParts
<1> HIDE DEF P, Q
<1>7. GroupParts(VisitorColumn(R), P, dim, d, E) /\ GroupParts(SessionColumn(R), Q, dim, d, E)
  BY <1>2, <1>3, <1>4 DEF GroupParts, EventSet
<1>8. /\ Summable(VisitorColumn(R), Aggregated(dim, d, E))
      /\ SumFunctionOnSet(VisitorColumn(R), Aggregated(dim, d, E)) = Cardinality(AllParts(P, K))
  BY <1>7, GroupsCount
<1>9. /\ Summable(SessionColumn(R), Aggregated(dim, d, E))
      /\ SumFunctionOnSet(SessionColumn(R), Aggregated(dim, d, E)) = Cardinality(AllParts(Q, K))
  BY <1>7, GroupsCount
<1> HIDE DEF K
<1> QED BY <1>5, <1>6, <1>8, <1>9 DEF dim

\* The engagement of some of the events.
LEMMA EngagementOfPart ==
  ASSUME NEW E, EventSet(E), NEW G \in SUBSET E
  PROVE  Amount(SqlSum(Worths(G))) = SumFunctionOnSet(WorthOf(E), G)
<1>1. EventSet(G)
  BY EventSubset
<1>2. Summable(WorthOf(G), G) /\ Amount(SqlSum(Worths(G))) = SumFunctionOnSet(WorthOf(G), G)
  BY <1>1, EngagementIs
<1>3. Agree(WorthOf(G), WorthOf(E), G)
  <2>1. \A e \in G : WorthOf(G)[e] = WorthOf(E)[e]
    BY DEF WorthOf
  <2> QED BY <1>2, <2>1 DEF Agree
<1>4. SumFunctionOnSet(WorthOf(G), G) = SumFunctionOnSet(WorthOf(E), G)
  BY <1>3, SumSame
<1> QED BY <1>2, <1>4

\* The engagement of all keys is the engagement of the day.
LEMMA DayEngagement ==
  ASSUME NEW dim, NEW d, NEW E, EventSet(E), NEW R, Aggregated(dim, d, E) \subseteq R
  PROVE  /\ Summable(EngagementColumn(R), Aggregated(dim, d, E))
         /\ SumFunctionOnSet(EngagementColumn(R), Aggregated(dim, d, E))
              = SumFunctionOnSet(WorthOf(E), E)
<1> DEFINE K == Keys(dim, E)
           P == [key \in K |-> GroupOf(dim, key, E)]
           w == WorthOf(E)
           s == Sums(w, P, K)
<1>1. IsFiniteSet(K) /\ Summable(w, E)
  BY EventImages, EngagementIs DEF EventSet
<1>2. \A key \in K : P[key] = GroupOf(dim, key, E) /\ P[key] \in SUBSET E
  BY DEF GroupOf
<1>3. \A key, k \in K : key # k => P[key] \cap P[k] = {}
  BY DEF GroupOf
<1>4. AllParts(P, K) = E
  <2>1. ASSUME NEW e \in E PROVE \E key \in K : e \in P[key]
    <3>1. KeyOf(dim, e) \in K
      BY DEF Keys
    <3>2. e \in P[KeyOf(dim, e)]
      BY <3>1 DEF GroupOf
    <3> HIDE DEF P, K
    <3> QED BY <3>1, <3>2
  <2> HIDE DEF P, K
  <2> QED BY <1>2, <2>1 DEF AllParts
<1> HIDE DEF P, w
<1>5. Parted(w, P, K)
  <2>1. \A key \in K : Summable(w, P[key])
    BY <1>1, <1>2, SummablePart
  <2> QED BY <1>1, <1>3, <2>1 DEF Parted
<1>6. Summable(s, K) /\ SumFunctionOnSet(w, AllParts(P, K)) = SumFunctionOnSet(s, K)
  <2> HIDE DEF K
  <2> QED BY <1>5, SumParts
<1>7. ASSUME NEW key \in K
      PROVE  EngagementColumn(R)[Aggregate(dim, d, key, E)] = s[key]
  <2>row. Aggregate(dim, d, key, E) \in R
    BY DEF Aggregated
  <2>merged. Aggregate(dim, d, key, E).engagement = SqlSum(Worths(P[key]))
    BY <1>2, AggregateFields
  <2>total. Amount(SqlSum(Worths(P[key]))) = SumFunctionOnSet(w, P[key])
    BY <1>2, EngagementOfPart DEF w
  <2>share. s[key] = SumFunctionOnSet(w, P[key])
    BY DEF Sums
  <2> HIDE DEF s, K
  <2> QED BY <2>row, <2>merged, <2>total, <2>share DEF EngagementColumn
<1> HIDE DEF s
<1>8. GroupValues(EngagementColumn(R), s, dim, d, E)
  BY <1>6, <1>7 DEF GroupValues
<1>9. /\ Summable(EngagementColumn(R), Aggregated(dim, d, E))
      /\ SumFunctionOnSet(EngagementColumn(R), Aggregated(dim, d, E)) = SumFunctionOnSet(s, K)
  BY <1>8, GroupsAdd
<1> HIDE DEF K
<1> QED BY <1>4, <1>6, <1>9 DEF w

\* What all rows of a range add up to, by any dimension ...
LEMMA RangeMerged ==
  ASSUME NEW dim, NEW F, NEW I, DaySets(F, I)
  PROVE  LET R == AllParts(DayRows(dim, F), I) IN
         /\ Summable(PageviewTotals(F), I) /\ Summable(BounceTotals(F), I)
         /\ Merged(R).pageviews = SumFunctionOnSet(PageviewTotals(F), I)
         /\ Merged(R).bounces = SumFunctionOnSet(BounceTotals(F), I)
         /\ Merged(R).engagement = SumFunctionOnSet(EngagementTotals(F), I)
<1> DEFINE R == AllParts(DayRows(dim, F), I)
<1>1. IsFiniteSet(I) /\ I \subseteq Int /\ \A d \in I : EventSet(F[d])
  BY DEF DaySets
<1>2. \A d \in I : Aggregated(dim, d, F[d]) \subseteq R
  BY <1>1 DEF AllParts, DayRows
<1> HIDE DEF R
<1>3. DayValues(PageviewColumn(R), PageviewTotals(F), dim, F, I)
  <2>1. \A d \in I : PageviewTotals(F)[d] = Cardinality(Pageviews(F[d]))
    BY <1>1 DEF PageviewTotals
  <2> QED BY <1>1, <1>2, <2>1, DayPageviews DEF DayValues
<1>4. DayValues(BounceColumn(R), BounceTotals(F), dim, F, I)
  <2>1. \A d \in I : BounceTotals(F)[d] = Cardinality(Bounced(F[d], F[d]))
    BY <1>1 DEF BounceTotals
  <2> QED BY <1>1, <1>2, <2>1, DayBounces DEF DayValues
<1>5. DayValues(EngagementColumn(R), EngagementTotals(F), dim, F, I)
  <2>1. \A d \in I : EngagementTotals(F)[d] = SumFunctionOnSet(WorthOf(F[d]), F[d])
    BY <1>1 DEF EngagementTotals
  <2> QED BY <1>1, <1>2, <2>1, DayEngagement DEF DayValues
<1>6. /\ Summable(PageviewTotals(F), I)
      /\ SumFunctionOnSet(PageviewColumn(R), R) = SumFunctionOnSet(PageviewTotals(F), I)
  BY <1>3, RangeTotal DEF R
<1>7. /\ Summable(BounceTotals(F), I)
      /\ SumFunctionOnSet(BounceColumn(R), R) = SumFunctionOnSet(BounceTotals(F), I)
  BY <1>4, RangeTotal DEF R
<1>8. SumFunctionOnSet(EngagementColumn(R), R) = SumFunctionOnSet(EngagementTotals(F), I)
  BY <1>5, RangeTotal DEF R
<1>9. /\ Merged(R).pageviews = SumFunctionOnSet(PageviewTotals(F), I)
      /\ Merged(R).bounces = SumFunctionOnSet(BounceTotals(F), I)
      /\ Merged(R).engagement = SumFunctionOnSet(EngagementTotals(F), I)
  BY <1>6, <1>7, <1>8, MergedFields
<1> QED BY <1>6, <1>7, <1>9 DEF R

\* ... and by device.
LEMMA RangePeople ==
  ASSUME NEW F, NEW I, DaySets(F, I)
  PROVE  LET R == AllParts(DayRows("device", F), I) IN
         /\ Summable(VisitorTotals(F), I) /\ Summable(SessionTotals(F), I)
         /\ Merged(R).visitors = SumFunctionOnSet(VisitorTotals(F), I)
         /\ Merged(R).sessions = SumFunctionOnSet(SessionTotals(F), I)
<1> DEFINE dim == "device"
           R == AllParts(DayRows(dim, F), I)
<1>1. IsFiniteSet(I) /\ I \subseteq Int /\ \A d \in I : EventSet(F[d])
  BY DEF DaySets
<1>2. \A d \in I : Aggregated(dim, d, F[d]) \subseteq R
  BY <1>1 DEF AllParts, DayRows
<1> HIDE DEF R
<1>3. \A d \in I : /\ Summable(VisitorColumn(R), Aggregated(dim, d, F[d]))
                   /\ SumFunctionOnSet(VisitorColumn(R), Aggregated(dim, d, F[d]))
                        = Cardinality(VisitorsIn(F[d]))
                   /\ Summable(SessionColumn(R), Aggregated(dim, d, F[d]))
                   /\ SumFunctionOnSet(SessionColumn(R), Aggregated(dim, d, F[d]))
                        = Cardinality(SessionsIn(F[d]))
  BY <1>1, <1>2, DayPeople
<1>4. DayValues(VisitorColumn(R), VisitorTotals(F), dim, F, I)
  <2>1. \A d \in I : VisitorTotals(F)[d] = Cardinality(VisitorsIn(F[d]))
    BY <1>1 DEF VisitorTotals
  <2> HIDE DEF dim
  <2> QED BY <1>1, <1>3, <2>1 DEF DayValues
<1>5. DayValues(SessionColumn(R), SessionTotals(F), dim, F, I)
  <2>1. \A d \in I : SessionTotals(F)[d] = Cardinality(SessionsIn(F[d]))
    BY <1>1 DEF SessionTotals
  <2> HIDE DEF dim
  <2> QED BY <1>1, <1>3, <2>1 DEF DayValues
<1> HIDE DEF dim
<1>6. /\ Summable(VisitorTotals(F), I)
      /\ SumFunctionOnSet(VisitorColumn(R), R) = SumFunctionOnSet(VisitorTotals(F), I)
  BY <1>4, RangeTotal DEF R
<1>7. /\ Summable(SessionTotals(F), I)
      /\ SumFunctionOnSet(SessionColumn(R), R) = SumFunctionOnSet(SessionTotals(F), I)
  BY <1>5, RangeTotal DEF R
<1>8. /\ Merged(R).visitors = SumFunctionOnSet(VisitorTotals(F), I)
      /\ Merged(R).sessions = SumFunctionOnSet(SessionTotals(F), I)
  BY <1>6, <1>7, MergedFields
<1> QED BY <1>6, <1>7, <1>8 DEF R, dim

-----------------------------------------------------------------------------------
(* Breakdowns agree. *)

\* The days of a range.
LEMMA RangeDays ==
  ASSUME IInv, NEW F, ReadFrom(F), NEW from \in Int, NEW to \in Int
  PROVE  DaySets(F, from..to)
<1>1. IsFiniteSet(from..to) /\ from..to \subseteq Int
  BY FS_Interval
<1> QED BY <1>1 DEF DaySets, ReadFrom

\* What a breakdown adds up to does not depend on its dimension.
LEMMA InvariantAgrees == IInv => BreakdownsAgree
<1> SUFFICES ASSUME IInv, NEW r \in Ranges
             PROVE  LET paths == Merged(MetricRows("path", r[1], r[2]))
                        devices == Merged(MetricRows("device", r[1], r[2]))
                    IN  /\ paths.pageviews = devices.pageviews /\ paths.bounces = devices.bounces
                        /\ paths.engagement = devices.engagement
  BY DEF BreakdownsAgree
<1> DEFINE from == r[1]
           to == r[2]
<1>1. from \in Int /\ to \in Int /\ from <= to /\ to <= today
  BY ReportingAssumption DEF ReportingAssumption, Ranges, IInv
<1>2. PICK F : ReadFrom(F) /\ RowsAreFrom(F)
  BY SourcesExist
<1> HIDE DEF from, to
<1>3. DaySets(F, from..to)
  BY <1>1, <1>2, RangeDays
<1>4. ASSUME NEW dim \in Dimensions
      PROVE  /\ Merged(MetricRows(dim, from, to)).pageviews
                  = SumFunctionOnSet(PageviewTotals(F), from..to)
             /\ Merged(MetricRows(dim, from, to)).bounces
                  = SumFunctionOnSet(BounceTotals(F), from..to)
             /\ Merged(MetricRows(dim, from, to)).engagement
                  = SumFunctionOnSet(EngagementTotals(F), from..to)
  <2>1. MetricRows(dim, from, to) = AllParts(DayRows(dim, F), from..to)
    BY <1>1, <1>2 DEF RowsAreFrom
  <2> QED BY <1>3, <2>1, RangeMerged
<1>5. "path" \in Dimensions /\ "device" \in Dimensions
  BY DEF Dimensions
<1> QED BY <1>4, <1>5 DEF from, to

(* All breakdowns of a range add up to the same views, bounces and engagement, in    *)
(* every state: the tables of a day are rebuilt in one transaction, from one set of  *)
(* events, so they cannot disagree even while the events themselves are incomplete.  *)
THEOREM BreakdownsAlwaysAgree == Spec => []BreakdownsAgree
BY InvariantHolds, InvariantAgrees, PTL

-----------------------------------------------------------------------------------
(* The headline counts people. *)

\* Naming each element by one more thing does not change how many there are.
LEMMA CardRenamed ==
  ASSUME NEW f, NEW S, IsFiniteSet(S), \A x, y \in S : f[x] = f[y] => x = y
  PROVE  IsFiniteSet({f[x] : x \in S}) /\ Cardinality({f[x] : x \in S}) = Cardinality(S)
<1> DEFINE T == {f[x] : x \in S}
           g == [x \in S |-> f[x]]
<1>1. g \in Bijection(S, T)
  <2>1. g \in [S -> T] /\ \A x \in S : g[x] = f[x]
    OBVIOUS
  <2>2. \A y \in T : \E x \in S : g[x] = y
    OBVIOUS
  <2>3. \A x, y \in S : g[x] = g[y] => x = y
    BY <2>1
  <2> HIDE DEF g, T
  <2>4. g \in Injection(S, T)
    BY <2>1, <2>3 DEF Injection, IsInjective
  <2>5. g \in Surjection(S, T)
    BY <2>1, <2>2 DEF Surjection
  <2> QED BY <2>4, <2>5 DEF Bijection
<1>2. ExistsBijection(S, T)
  BY <1>1 DEF ExistsBijection
<1> HIDE DEF T
<1>3. IsFiniteSet(T) /\ Cardinality(T) = Cardinality(S)
  BY <1>2, FS_Bijection
<1> QED BY <1>3 DEF T

\* Pairs of an index and one of its elements.
Tagged(S, I) == [i \in I |-> {<<i, x>> : x \in S[i]}]

\* Counting the pairs is adding the sizes.
LEMMA TaggedParts ==
  ASSUME NEW S, NEW I, IsFiniteSet(I), \A i \in I : IsFiniteSet(S[i])
  PROVE  Cardinality(AllParts(Tagged(S, I), I)) = SumFunctionOnSet(Sizes(S, I), I)
<1> DEFINE P == Tagged(S, I)
<1>1. ASSUME NEW i \in I
      PROVE  IsFiniteSet(P[i]) /\ Cardinality(P[i]) = Cardinality(S[i])
  <2> DEFINE X == S[i]
             f == [x \in X |-> <<i, x>>]
  <2>1. P[i] = {f[x] : x \in X}
    BY DEF Tagged
  <2>2. \A x, y \in X : f[x] = f[y] => x = y
    OBVIOUS
  <2>3. IsFiniteSet(X)
    OBVIOUS
  <2> HIDE DEF X, f
  <2>4. IsFiniteSet({f[x] : x \in X}) /\ Cardinality({f[x] : x \in X}) = Cardinality(X)
    BY <2>2, <2>3, CardRenamed
  <2> HIDE DEF P
  <2> QED BY <2>1, <2>4 DEF X
<1>2. Disjoint(P, I)
  <2>1. \A i, k \in I : i # k => P[i] \cap P[k] = {}
    BY DEF Tagged
  <2> HIDE DEF P
  <2> QED BY <1>1, <2>1 DEF Disjoint
<1>3. Sizes(P, I) = Sizes(S, I)
  <2> HIDE DEF P
  <2> QED BY <1>1 DEF Sizes
<1>4. Cardinality(AllParts(P, I)) = SumFunctionOnSet(Sizes(P, I), I)
  <2> HIDE DEF P
  <2> QED BY <1>2, CardParts
<1> QED BY <1>3, <1>4

\* A served day's rows were made from all its events.
LEMMA ServedDays ==
  ASSUME IInv, NEW F, ReadFrom(F), NEW r \in Ranges, Served(r)
  PROVE  /\ r[1] \in Int /\ r[2] \in Int /\ r[1] <= r[2] /\ r[2] <= today /\ today \in Nat
         /\ Days(r) \subseteq 0..today /\ \A d \in Days(r) : F[d] = On(d, collected)
<1>1. today \in Nat /\ r[1] \in 0..today /\ r[2] \in 0..today /\ r[1] <= r[2]
  BY ReportingAssumption DEF ReportingAssumption, Ranges, IInv
<1>2. ASSUME NEW d \in Days(r) PROVE d \in 0..today /\ F[d] = On(d, collected)
  <2>1. d \in 0..today
    BY <1>1 DEF Days
  <2>2. d < today => d \in covered /\ ~ Unaccountable(d)
    BY DEF Served
  <2>3. d = today => d \notin 0..(today - 1)
    BY <1>1
  <2> QED BY <1>1, <2>1, <2>2, <2>3 DEF ReadFrom
<1> QED BY <1>1, <1>2

\* The pairs of a day and a visitor are counted day by day.
LEMMA InvariantCountsPeople == IInv => HeadlineCountsPeople
<1> SUFFICES ASSUME IInv, NEW r \in Ranges, Served(r)
             PROVE  LET headline == Headline(r[1], r[2])
                        seen == {e \in collected : e.day \in Days(r)}
                    IN  /\ headline.visitors = Cardinality({<<e.day, e.visitor>> : e \in seen})
                        /\ headline.sessions = Cardinality({<<e.day, e.session>> : e \in seen})
  BY DEF HeadlineCountsPeople
<1> DEFINE I == Days(r)
           seen == {e \in collected : e.day \in Days(r)}
<1>1. PICK F : ReadFrom(F) /\ RowsAreFrom(F)
  BY SourcesExist
<1>2. /\ r[1] \in Int /\ r[2] \in Int /\ r[1] <= r[2] /\ r[2] <= today
      /\ I \subseteq 0..today /\ \A d \in I : F[d] = On(d, collected)
  BY <1>1, ServedDays
<1>3. DaySets(F, I)
  BY <1>1, <1>2, RangeDays DEF Days
<1>4. /\ Headline(r[1], r[2]).visitors = SumFunctionOnSet(VisitorTotals(F), I)
      /\ Headline(r[1], r[2]).sessions = SumFunctionOnSet(SessionTotals(F), I)
      /\ Summable(VisitorTotals(F), I) /\ Summable(SessionTotals(F), I)
  <2>1. MetricRows("device", r[1], r[2]) = AllParts(DayRows("device", F), I)
    BY <1>1, <1>2 DEF RowsAreFrom, Dimensions, Days
  <2> HIDE DEF I
  <2> QED BY <1>3, <2>1, RangePeople DEF Headline
<1> DEFINE V == [d \in I |-> VisitorsIn(F[d])]
           S == [d \in I |-> SessionsIn(F[d])]
<1>5. IsFiniteSet(I) /\ \A d \in I : IsFiniteSet(V[d]) /\ IsFiniteSet(S[d])
  BY <1>3, EventImages DEF DaySets, EventSet, VisitorsIn, SessionsIn
<1>6. AllParts(Tagged(V, I), I) = {<<e.day, e.visitor>> : e \in seen}
  BY <1>2 DEF AllParts, Tagged, VisitorsIn, On
<1>7. AllParts(Tagged(S, I), I) = {<<e.day, e.session>> : e \in seen}
  BY <1>2 DEF AllParts, Tagged, SessionsIn, On
<1>8. SumFunctionOnSet(Sizes(V, I), I) = SumFunctionOnSet(VisitorTotals(F), I)
  <2>1. Agree(VisitorTotals(F), Sizes(V, I), I)
    BY <1>3, <1>4 DEF Agree, Sizes, VisitorTotals, DaySets
  <2> HIDE DEF I, V
  <2> QED BY <2>1, SumSame
<1>9. SumFunctionOnSet(Sizes(S, I), I) = SumFunctionOnSet(SessionTotals(F), I)
  <2>1. Agree(SessionTotals(F), Sizes(S, I), I)
    BY <1>3, <1>4 DEF Agree, Sizes, SessionTotals, DaySets
  <2> HIDE DEF I, S
  <2> QED BY <2>1, SumSame
<1>10. /\ Cardinality(AllParts(Tagged(V, I), I)) = SumFunctionOnSet(Sizes(V, I), I)
       /\ Cardinality(AllParts(Tagged(S, I), I)) = SumFunctionOnSet(Sizes(S, I), I)
  <2> HIDE DEF I, V, S
  <2> QED BY <1>5, TaggedParts
<1> HIDE DEF V, S, I
<1> QED BY <1>4, <1>6, <1>7, <1>8, <1>9, <1>10

(* The overview's totals, added up from the device breakdown, count each visitor and *)
(* each session once a day however many pages it saw: the device is part of the      *)
(* identity, so the rows of the devices count disjoint sets.                         *)
THEOREM HeadlineAlwaysCountsPeople == Spec => []HeadlineCountsPeople
BY InvariantHolds, InvariantCountsPeople, PTL

-----------------------------------------------------------------------------------
(* Reports are exact. *)

\* Rows m[d] of some days, each with the value u of its day; other days have none.
Picked(m, w, u, D, I, R) ==
  /\ Summable(u, I) /\ D \in SUBSET I /\ R = {m[d] : d \in D}
  /\ \A d \in D : w[m[d]] = u[d]
  /\ \A d, c \in D : m[d] = m[c] => d = c
  /\ \A d \in I \ D : u[d] = 0

\* Such rows add up to the values of all days.
LEMMA PickedTotal ==
  ASSUME NEW m, NEW w, NEW u, NEW D, NEW I, NEW R, Picked(m, w, u, D, I, R)
  PROVE  SumFunctionOnSet(w, R) = SumFunctionOnSet(u, I)
<1>1. Summable(u, I) /\ D \in SUBSET I
  BY DEF Picked
<1>2. Summable(u, D)
  BY <1>1, SummablePart
<1>3. Renames(m, u, D, w, R) /\ Skips(u, I, D)
  BY <1>1, <1>2 DEF Picked, Renames, Skips
<1> QED BY <1>3, SumRenamed, SumSkip

\* A bounce session has one page view.
LEMMA BouncedIs ==
  ASSUME NEW E, EventSet(E), NEW G \in SUBSET E
  PROVE  Bounced(G, E)
           = {e \in Pageviews(G) : \A x \in Pageviews(E) : x.session = e.session => x = e}
<1> SUFFICES ASSUME NEW e \in Pageviews(G)
             PROVE  e.session \in BounceSessions(E)
                      <=> \A x \in Pageviews(E) : x.session = e.session => x = e
  BY DEF Bounced
<1> DEFINE V == {x \in Pageviews(E) : x.session = e.session}
<1>1. IsFiniteSet(V)
  <2>1. V \in SUBSET E /\ IsFiniteSet(E)
    BY DEF Pageviews, EventSet
  <2> HIDE DEF V
  <2> QED BY <2>1, FS_Subset
<1>2. e \in V /\ e.session \in {x.session : x \in E}
  BY DEF Pageviews
<1>3. e.session \in BounceSessions(E) <=> Cardinality(V) = 1
  BY <1>2 DEF BounceSessions
<1>4. Cardinality(V) = 1 <=> \E x : V = {x}
  <2> HIDE DEF V
  <2> QED BY <1>1, FS_Singleton
<1>5. (\E x : V = {x}) <=> V = {e}
  BY <1>2
<1>6. V = {e} <=> \A x \in Pageviews(E) : x.session = e.session => x = e
  BY <1>2
<1> QED BY <1>3, <1>4, <1>5, <1>6

\* The engagement of a group, counted without NULLs.
LEMMA EngagementExact ==
  ASSUME NEW E, EventSet(E)
  PROVE  LET D == {x \in E : x.type = "engagement" /\ x.value # NULL}
         IN  SumFunction([e \in D |-> e.value]) = SumFunctionOnSet(WorthOf(E), E)
<1> DEFINE D == {x \in E : x.type = "engagement" /\ x.value # NULL}
           w == [e \in D |-> e.value]
           v == WorthOf(E)
<1>1. Summable(v, E) /\ D \in SUBSET E
  BY EngagementIs
<1>2. \A e \in E \ D : v[e] = 0
  BY DEF WorthOf, Worth, Amount
<1>3. \A e \in D : v[e] = w[e]
  BY DEF WorthOf, Worth, Amount
<1>4. DOMAIN w = D
  OBVIOUS
<1> HIDE DEF D, v, w
<1>5. Skips(v, E, D)
  BY <1>1, <1>2 DEF Skips
<1>6. Summable(v, D)
  BY <1>1, SummablePart
<1>7. Agree(v, w, D)
  BY <1>3, <1>6 DEF Agree
<1>8. /\ SumFunctionOnSet(v, D) = SumFunctionOnSet(w, D)
      /\ SumFunctionOnSet(v, E) = SumFunctionOnSet(v, D)
  BY <1>5, <1>7, SumSame, SumSkip
<1>9. SumFunction(w) = SumFunctionOnSet(w, D)
  BY <1>4 DEF SumFunction
<1>10. SumFunction(w) = SumFunctionOnSet(v, E)
  BY <1>8, <1>9
<1> QED BY <1>10 DEF D, v, w

\* The count over all events says of a day what an aggregate of all its events does.
LEMMA ExactIsAggregate ==
  ASSUME IInv, NEW dim \in Dimensions, NEW key, NEW d
  PROVE  LET E == On(d, collected) IN
         /\ ExactOn(dim, key, d).day = d
         /\ ExactOn(dim, key, d).pageviews = Aggregate(dim, d, key, E).pageviews
         /\ ExactOn(dim, key, d).visitors = Aggregate(dim, d, key, E).visitors
         /\ ExactOn(dim, key, d).sessions = Aggregate(dim, d, key, E).sessions
         /\ ExactOn(dim, key, d).bounces = Aggregate(dim, d, key, E).bounces
         /\ ExactOn(dim, key, d).engagement = Amount(Aggregate(dim, d, key, E).engagement)
<1> DEFINE E == On(d, collected)
           G == GroupOf(dim, key, E)
<1>1. EventSet(E) /\ G \in SUBSET E /\ E \in SUBSET collected
  <2>1. E \in SUBSET collected
    BY DEF On
  <2> HIDE DEF E
  <2> QED BY <2>1, EventsAreSets DEF GroupOf
<1>2. EventSet(G)
  <2> HIDE DEF G, E
  <2> QED BY <1>1, EventSubset
<1>3. {v \in Visitors : \E e \in G : e.visitor = v} = VisitorsIn(G)
  <2> HIDE DEF G
  <2> QED BY <1>2 DEF EventSet, VisitorsIn
<1>4. {s \in Sessions : \E e \in G : e.session = s} = SessionsIn(G)
  <2>1. G \subseteq collected
    BY <1>1
  <2> HIDE DEF G, E
  <2> QED BY <2>1 DEF Sessions, SessionsIn
<1>5. {e \in Pageviews(G) : \A x \in Pageviews(E) : x.session = e.session => x = e} = Bounced(G, E)
  <2> HIDE DEF G, E
  <2> QED BY <1>1, BouncedIs
<1> DEFINE worth == SumFunction([e \in {x \in G : x.type = "engagement" /\ x.value # NULL} |->
                                   e.value])
<1>6. worth = Amount(SqlSum(Worths(G)))
  <2> HIDE DEF G
  <2>1. worth = SumFunctionOnSet(WorthOf(G), G)
    BY <1>2, EngagementExact
  <2>2. Amount(SqlSum(Worths(G))) = SumFunctionOnSet(WorthOf(G), G)
    BY <1>2, EngagementIs
  <2> QED BY <2>1, <2>2
<1>7. ExactOn(dim, key, d) =
        [day |-> d, pageviews |-> Cardinality(Pageviews(G)),
         visitors |-> Cardinality({v \in Visitors : \E e \in G : e.visitor = v}),
         sessions |-> Cardinality({s \in Sessions : \E e \in G : e.session = s}),
         bounces |-> Cardinality({e \in Pageviews(G) :
                                    \A x \in Pageviews(E) : x.session = e.session => x = e}),
         engagement |-> worth]
  BY DEF ExactOn, GroupOf
<1> HIDE DEF worth
<1>8. ExactOn(dim, key, d) =
        [day |-> d, pageviews |-> Cardinality(Pageviews(G)),
         visitors |-> Cardinality(VisitorsIn(G)), sessions |-> Cardinality(SessionsIn(G)),
         bounces |-> Cardinality(Bounced(G, E)), engagement |-> worth]
  BY <1>3, <1>4, <1>5, <1>7
<1>9. /\ Aggregate(dim, d, key, E).pageviews = Cardinality(Pageviews(G))
      /\ Aggregate(dim, d, key, E).visitors = Cardinality(VisitorsIn(G))
      /\ Aggregate(dim, d, key, E).sessions = Cardinality(SessionsIn(G))
      /\ Aggregate(dim, d, key, E).bounces = Cardinality(Bounced(G, E))
      /\ Aggregate(dim, d, key, E).engagement = SqlSum(Worths(G))
  BY AggregateFields
<1> HIDE DEF G, E
<1> QED BY <1>6, <1>8, <1>9 DEF E

\* What the exact rows of one key hold, day by day.
ExactRows(dim, key, I) == {x \in {ExactOn(dim, key, d) : d \in I} : x.sessions > 0}

\* When all events of every day were read, a day's rows and the count say the same.
AllRead(F, I) == DaySets(F, I) /\ \A d \in I : F[d] = On(d, collected)

\* Merged, they say the same key by key.
LEMMA ExactMerged ==
  ASSUME IInv, NEW dim \in Dimensions, NEW key, NEW F, NEW I, AllRead(F, I)
  PROVE  Merged(KeyRows(dim, key, F, I)) = Merged(ExactRows(dim, key, I))
<1> DEFINE x(d) == ExactOn(dim, key, d)
           a(d) == Aggregate(dim, d, key, F[d])
           D == {d \in I : x(d).sessions > 0}
           m == [d \in D |-> x(d)]
           R == ExactRows(dim, key, I)
           Q == KeyRows(dim, key, F, I)
<1>1. ASSUME NEW d \in I
      PROVE  /\ x(d).day = d /\ x(d).pageviews = a(d).pageviews /\ x(d).visitors = a(d).visitors
             /\ x(d).sessions = a(d).sessions /\ x(d).bounces = a(d).bounces
             /\ x(d).engagement = Amount(a(d).engagement)
  <2>1. F[d] = On(d, collected)
    BY DEF AllRead
  <2> QED BY <2>1, ExactIsAggregate
<1>2. DaySets(F, I)
  BY DEF AllRead
<1>3. R = {m[d] : d \in D} /\ D \in SUBSET I
  BY DEF ExactRows
<1>4. \A d, c \in D : m[d] = m[c] => d = c
  <2>1. \A d \in D : m[d].day = d
    BY <1>1
  <2> HIDE DEF m, D
  <2> QED BY <2>1
<1>5. ASSUME NEW d \in I \ D
      PROVE  /\ a(d).pageviews = 0 /\ a(d).visitors = 0 /\ a(d).sessions = 0
             /\ a(d).bounces = 0 /\ Amount(a(d).engagement) = 0
  <2>1. key \notin Keys(dim, F[d])
    <3> SUFFICES ASSUME key \in Keys(dim, F[d]) PROVE FALSE
      OBVIOUS
    <3> DEFINE G == GroupOf(dim, key, F[d])
    <3>1. PICK e \in F[d] : KeyOf(dim, e) = key
      BY DEF Keys
    <3>2. EventSet(F[d])
      BY <1>2 DEF DaySets
    <3>3. e.session \in SessionsIn(G) /\ IsFiniteSet(SessionsIn(G))
      <4>1. e \in G
        BY <3>1 DEF GroupOf
      <4>2. IsFiniteSet(G)
        BY <3>2, GroupIsSet DEF EventSet
      <4> HIDE DEF G
      <4> QED BY <4>1, <4>2, EventImages DEF SessionsIn
    <3>4. a(d).sessions = Cardinality(SessionsIn(G))
      BY AggregateFields
    <3> HIDE DEF G
    <3>5. Cardinality(SessionsIn(G)) \in Nat /\ Cardinality(SessionsIn(G)) # 0
      BY <3>3, FS_EmptySet, FS_CardinalityType
    <3>6. x(d).sessions > 0
      BY <1>1, <3>4, <3>5
    <3> QED BY <3>6
  <2> QED BY <2>1, AbsentKey
<1>6. \A d \in D : m[d] \in R /\ m[d] = x(d) /\ d \in I
  BY <1>3
<1>7. /\ Summable(PageviewDays(dim, key, F, I), I) /\ Summable(VisitorDays(dim, key, F, I), I)
      /\ Summable(SessionDays(dim, key, F, I), I) /\ Summable(BounceDays(dim, key, F, I), I)
      /\ Summable(EngagementDays(dim, key, F, I), I)
      /\ Merged(Q).pageviews = SumFunctionOnSet(PageviewDays(dim, key, F, I), I)
      /\ Merged(Q).visitors = SumFunctionOnSet(VisitorDays(dim, key, F, I), I)
      /\ Merged(Q).sessions = SumFunctionOnSet(SessionDays(dim, key, F, I), I)
      /\ Merged(Q).bounces = SumFunctionOnSet(BounceDays(dim, key, F, I), I)
      /\ Merged(Q).engagement = SumFunctionOnSet(EngagementDays(dim, key, F, I), I)
  BY <1>2, KeyMerged
<1> HIDE DEF D, m, R, Q
<1>8. Picked(m, PageviewColumn(R), PageviewDays(dim, key, F, I), D, I, R)
  <2>1. \A d \in D : PageviewColumn(R)[m[d]] = PageviewDays(dim, key, F, I)[d]
    BY <1>1, <1>6 DEF PageviewColumn, PageviewDays
  <2>2. \A d \in I \ D : PageviewDays(dim, key, F, I)[d] = 0
    BY <1>5 DEF PageviewDays
  <2> QED BY <1>3, <1>4, <1>7, <2>1, <2>2 DEF Picked
<1>9. Picked(m, VisitorColumn(R), VisitorDays(dim, key, F, I), D, I, R)
  <2>1. \A d \in D : VisitorColumn(R)[m[d]] = VisitorDays(dim, key, F, I)[d]
    BY <1>1, <1>6 DEF VisitorColumn, VisitorDays
  <2>2. \A d \in I \ D : VisitorDays(dim, key, F, I)[d] = 0
    BY <1>5 DEF VisitorDays
  <2> QED BY <1>3, <1>4, <1>7, <2>1, <2>2 DEF Picked
<1>10. Picked(m, SessionColumn(R), SessionDays(dim, key, F, I), D, I, R)
  <2>1. \A d \in D : SessionColumn(R)[m[d]] = SessionDays(dim, key, F, I)[d]
    BY <1>1, <1>6 DEF SessionColumn, SessionDays
  <2>2. \A d \in I \ D : SessionDays(dim, key, F, I)[d] = 0
    BY <1>5 DEF SessionDays
  <2> QED BY <1>3, <1>4, <1>7, <2>1, <2>2 DEF Picked
<1>11. Picked(m, BounceColumn(R), BounceDays(dim, key, F, I), D, I, R)
  <2>1. \A d \in D : BounceColumn(R)[m[d]] = BounceDays(dim, key, F, I)[d]
    BY <1>1, <1>6 DEF BounceColumn, BounceDays
  <2>2. \A d \in I \ D : BounceDays(dim, key, F, I)[d] = 0
    BY <1>5 DEF BounceDays
  <2> QED BY <1>3, <1>4, <1>7, <2>1, <2>2 DEF Picked
<1>12. Picked(m, EngagementColumn(R), EngagementDays(dim, key, F, I), D, I, R)
  <2>1. \A d \in D : EngagementColumn(R)[m[d]] = EngagementDays(dim, key, F, I)[d]
    <3> SUFFICES ASSUME NEW d \in D
                 PROVE  EngagementColumn(R)[m[d]] = EngagementDays(dim, key, F, I)[d]
      OBVIOUS
    <3>1. a(d).engagement \in Nat \cup {NULL} /\ NULL \notin Nat
      <4>1. EventSet(F[d])
        BY <1>2, <1>6 DEF DaySets
      <4> QED BY <4>1, AggregateTypes, ReportingAssumption DEF ReportingAssumption
    <3>3. x(d).engagement = Amount(a(d).engagement)
      BY <1>1, <1>6
    <3> HIDE DEF x, a
    <3>2. Amount(x(d).engagement) = x(d).engagement
      BY <3>1, <3>3 DEF Amount
    <3> USE DEF x, a
    <3> QED BY <1>6, <3>2, <3>3 DEF EngagementColumn, EngagementDays
  <2>2. \A d \in I \ D : EngagementDays(dim, key, F, I)[d] = 0
    BY <1>5 DEF EngagementDays
  <2> QED BY <1>3, <1>4, <1>7, <2>1, <2>2 DEF Picked
<1>13. /\ Merged(R).pageviews = SumFunctionOnSet(PageviewDays(dim, key, F, I), I)
       /\ Merged(R).visitors = SumFunctionOnSet(VisitorDays(dim, key, F, I), I)
       /\ Merged(R).sessions = SumFunctionOnSet(SessionDays(dim, key, F, I), I)
       /\ Merged(R).bounces = SumFunctionOnSet(BounceDays(dim, key, F, I), I)
       /\ Merged(R).engagement = SumFunctionOnSet(EngagementDays(dim, key, F, I), I)
  <2>pageviews. SumFunctionOnSet(PageviewColumn(R), R) = SumFunctionOnSet(PageviewDays(dim, key, F, I), I)
    BY <1>8, PickedTotal
  <2>visitors. SumFunctionOnSet(VisitorColumn(R), R) = SumFunctionOnSet(VisitorDays(dim, key, F, I), I)
    BY <1>9, PickedTotal
  <2>sessions. SumFunctionOnSet(SessionColumn(R), R) = SumFunctionOnSet(SessionDays(dim, key, F, I), I)
    BY <1>10, PickedTotal
  <2>bounces. SumFunctionOnSet(BounceColumn(R), R) = SumFunctionOnSet(BounceDays(dim, key, F, I), I)
    BY <1>11, PickedTotal
  <2>engagement. SumFunctionOnSet(EngagementColumn(R), R)
                   = SumFunctionOnSet(EngagementDays(dim, key, F, I), I)
    BY <1>12, PickedTotal
  <2> QED BY <2>pageviews, <2>visitors, <2>sessions, <2>bounces, <2>engagement, MergedFields
<1>14. \A S : Merged(S) = [pageviews |-> Merged(S).pageviews, visitors |-> Merged(S).visitors,
                           sessions |-> Merged(S).sessions, bounces |-> Merged(S).bounces,
                           engagement |-> Merged(S).engagement]
  BY DEF Merged
<1>15. Merged(Q) = Merged(R)
  <2>1. Merged(Q) = [pageviews |-> Merged(Q).pageviews, visitors |-> Merged(Q).visitors,
                     sessions |-> Merged(Q).sessions, bounces |-> Merged(Q).bounces,
                     engagement |-> Merged(Q).engagement]
    BY <1>14
  <2>2. Merged(R) = [pageviews |-> Merged(R).pageviews, visitors |-> Merged(R).visitors,
                     sessions |-> Merged(R).sessions, bounces |-> Merged(R).bounces,
                     engagement |-> Merged(R).engagement]
    BY <1>14
  <2> QED BY <1>7, <1>13, <2>1, <2>2
<1> QED BY <1>15 DEF Q, R

\* The keys are the same as well.
LEMMA InvariantIsExact == IInv => ReportsAreExact
<1> SUFFICES ASSUME IInv, NEW dim \in Dimensions, NEW r \in Ranges, Served(r)
             PROVE  Report(dim, r[1], r[2]) = Exact(dim, r)
  BY DEF ReportsAreExact
<1> DEFINE I == Days(r)
           R == MetricRows(dim, r[1], r[2])
<1>1. PICK F : ReadFrom(F) /\ RowsAreFrom(F)
  BY SourcesExist
<1>2. /\ r[1] \in Int /\ r[2] \in Int /\ r[1] <= r[2] /\ r[2] <= today
      /\ I \subseteq 0..today /\ \A d \in I : F[d] = On(d, collected)
  BY <1>1, ServedDays
<1>3. DaySets(F, I)
  BY <1>1, <1>2, RangeDays DEF Days
<1>4. AllRead(F, I)
  <2> HIDE DEF I
  <2> QED BY <1>2, <1>3 DEF AllRead
<1>5. R = AllParts(DayRows(dim, F), I)
  BY <1>1, <1>2 DEF RowsAreFrom, Days
<1>6. I \subseteq Int
  BY <1>3 DEF DaySets
<1>7. {x.key : x \in R} = Keys(dim, {e \in collected : e.day \in I})
  <2>1. ASSUME NEW x \in R PROVE x.key \in Keys(dim, {e \in collected : e.day \in I})
    <3>1. PICK d \in I : x \in Aggregated(dim, d, F[d])
      BY <1>5, <1>6 DEF AllParts, DayRows
    <3>2. PICK key \in Keys(dim, F[d]) : x = Aggregate(dim, d, key, F[d])
      BY <3>1 DEF Aggregated
    <3>3. x.key = key
      BY <3>2, AggregateFields
    <3>4. F[d] = On(d, collected)
      BY <1>2
    <3> HIDE DEF I
    <3> QED BY <3>2, <3>3, <3>4 DEF Keys, On
  <2>2. ASSUME NEW e \in collected, e.day \in I PROVE \E x \in R : x.key = KeyOf(dim, e)
    <3> DEFINE d == e.day
               key == KeyOf(dim, e)
    <3>1. e \in F[d]
      BY <1>2, <2>2 DEF On
    <3>2. Aggregate(dim, d, key, F[d]) \in Aggregated(dim, d, F[d])
      BY <3>1 DEF Aggregated, Keys
    <3>3. Aggregate(dim, d, key, F[d]) \in R
      <4> HIDE DEF d, key, I, R
      <4>1. d \in I
        BY <2>2 DEF d
      <4> QED BY <1>5, <1>6, <3>2, <4>1 DEF AllParts, DayRows
    <3>4. Aggregate(dim, d, key, F[d]).key = key
      BY AggregateFields
    <3> HIDE DEF d, key
    <3> QED BY <3>3, <3>4 DEF key
  <2> HIDE DEF I, R
  <2> QED BY <2>1, <2>2 DEF Keys
<1>8. ASSUME NEW key
      PROVE  Merged({x \in R : x.key = key}) = Merged(ExactRows(dim, key, I))
  <2>1. {x \in R : x.key = key} = KeyRows(dim, key, F, I)
    <3> HIDE DEF I, R
    <3> QED BY <1>5 DEF KeyRows
  <2>2. Merged(KeyRows(dim, key, F, I)) = Merged(ExactRows(dim, key, I))
    <3> HIDE DEF I
    <3> QED BY <1>4, ExactMerged
  <2> HIDE DEF I, R
  <2> QED BY <2>1, <2>2
<1>9. Report(dim, r[1], r[2]) = [key \in {x.key : x \in R} |-> Merged({x \in R : x.key = key})]
  BY DEF Report
<1>10. Exact(dim, r) = [key \in Keys(dim, {e \in collected : e.day \in I}) |->
                          Merged(ExactRows(dim, key, I))]
  BY DEF Exact, ExactRows
<1> HIDE DEF I, R
<1> QED BY <1>7, <1>8, <1>9, <1>10

(* Over closed days that a run has covered and today, a report is what a count over  *)
(* all events ever stored would say, key by key, through late flushes, rebuilds and  *)
(* purges of the events that the rows were made from.                                *)
THEOREM ReportsAreAlwaysExact == Spec => []ReportsAreExact
BY InvariantHolds, InvariantIsExact, PTL

-----------------------------------------------------------------------------------
(* Scroll depths. *)

DepthColumn(R) == [r \in R |-> Amount(r.depthSum)]
CountColumn(R) == [r \in R |-> r.sessionCount]
DepthDays(path, F, I) == [d \in I |-> Amount(DepthSum(ScrollsOf(path, F[d])))]
CountDays(path, F, I) == [d \in I |-> Cardinality(SessionsIn(ScrollsOf(path, F[d])))]
PathRows(path, F, I) == {r \in AllParts(DayScrolls(F), I) : r.path = path}

\* A path that nobody scrolled counts for nothing.
LEMMA AbsentPath ==
  ASSUME NEW E, NEW path, path \notin ScrolledPaths(E)
  PROVE  /\ Amount(DepthSum(ScrollsOf(path, E))) = 0
         /\ Cardinality(SessionsIn(ScrollsOf(path, E))) = 0
<1>1. ScrollsOf(path, E) = {}
  BY DEF ScrollsOf, ScrolledPaths
<1>2. SessionsIn({}) = {} /\ DepthSum({}) = NULL
  BY DEF SessionsIn, DepthSum, SqlSum
<1>3. Cardinality({}) = 0
  BY FS_EmptySet
<1> QED BY <1>1, <1>2, <1>3 DEF Amount

\* A path's rows add up to its days.
LEMMA PathMerged ==
  ASSUME NEW path, NEW F, NEW I, DaySets(F, I)
  PROVE  LET R == PathRows(path, F, I) IN
         /\ Summable(DepthDays(path, F, I), I) /\ Summable(CountDays(path, F, I), I)
         /\ SumFunctionOnSet(DepthColumn(R), R) = SumFunctionOnSet(DepthDays(path, F, I), I)
         /\ SumFunctionOnSet(CountColumn(R), R) = SumFunctionOnSet(CountDays(path, F, I), I)
<1> DEFINE R == PathRows(path, F, I)
           D == {d \in I : path \in ScrolledPaths(F[d])}
           a(d) == ScrollAggregate(d, path, F[d])
           m == [d \in D |-> a(d)]
<1>1. IsFiniteSet(I) /\ I \subseteq Int /\ \A d \in I : EventSet(F[d])
  BY DEF DaySets
<1>2. ASSUME NEW d \in I
      PROVE  /\ a(d).day = d /\ a(d).path = path
             /\ Amount(a(d).depthSum) = DepthDays(path, F, I)[d]
             /\ a(d).sessionCount = CountDays(path, F, I)[d]
  BY ScrollFields DEF DepthDays, CountDays
<1>3. ASSUME NEW d \in I
      PROVE  DepthDays(path, F, I)[d] \in Nat /\ CountDays(path, F, I)[d] \in Nat
  <2>1. a(d).depthSum \in Nat \cup {NULL} /\ a(d).sessionCount \in Nat
    BY <1>1, ScrollTypes
  <2> HIDE DEF a
  <2> QED BY <1>2, <2>1 DEF Amount
<1>4. Summable(DepthDays(path, F, I), I) /\ Summable(CountDays(path, F, I), I)
  BY <1>1, <1>3 DEF Summable
<1>5. \A d \in I \ D : DepthDays(path, F, I)[d] = 0 /\ CountDays(path, F, I)[d] = 0
  BY AbsentPath DEF DepthDays, CountDays
<1>6. \A d \in D : m[d] = a(d) /\ d \in I
  OBVIOUS
<1>7. D \in SUBSET I /\ R = {m[d] : d \in D}
  <2>1. ASSUME NEW r \in R PROVE \E d \in D : r = m[d]
    <3>1. PICK d \in I : r \in ScrollAggregated(d, F[d]) /\ r.path = path
      BY <1>1 DEF PathRows, AllParts, DayScrolls
    <3>2. PICK p \in ScrolledPaths(F[d]) : r = ScrollAggregate(d, p, F[d])
      BY <3>1 DEF ScrollAggregated
    <3>3. p = path
      BY <3>1, <3>2, ScrollFields
    <3> QED BY <1>6, <3>2, <3>3
  <2>2. ASSUME NEW d \in D PROVE m[d] \in R
    <3>1. m[d] \in ScrollAggregated(d, F[d]) /\ m[d].path = path
      BY <1>2 DEF ScrollAggregated
    <3>2. m[d] \in AllParts(DayScrolls(F), I)
      BY <1>1, <3>1 DEF AllParts, DayScrolls
    <3> HIDE DEF m
    <3> QED BY <3>1, <3>2 DEF PathRows
  <2>3. D \in SUBSET I
    OBVIOUS
  <2> HIDE DEF m, R, D
  <2> QED BY <2>1, <2>2, <2>3
<1>8. \A d, c \in D : m[d] = m[c] => d = c
  BY <1>2, <1>6
<1>9. \A d \in D : m[d] \in R
  BY <1>7
<1> HIDE DEF m, R, D
<1>10. Picked(m, DepthColumn(R), DepthDays(path, F, I), D, I, R)
  <2>1. \A d \in D : DepthColumn(R)[m[d]] = DepthDays(path, F, I)[d]
    BY <1>2, <1>6, <1>9 DEF DepthColumn
  <2> QED BY <1>4, <1>5, <1>7, <1>8, <2>1 DEF Picked
<1>11. Picked(m, CountColumn(R), CountDays(path, F, I), D, I, R)
  <2>1. \A d \in D : CountColumn(R)[m[d]] = CountDays(path, F, I)[d]
    BY <1>2, <1>6, <1>9 DEF CountColumn
  <2> QED BY <1>4, <1>5, <1>7, <1>8, <2>1 DEF Picked
<1>12. /\ SumFunctionOnSet(DepthColumn(R), R) = SumFunctionOnSet(DepthDays(path, F, I), I)
       /\ SumFunctionOnSet(CountColumn(R), R) = SumFunctionOnSet(CountDays(path, F, I), I)
  BY <1>10, <1>11, PickedTotal
<1> QED BY <1>4, <1>12 DEF R

\* What is reported of a page, day by day.
LEMMA ScrollDepthIs ==
  ASSUME IInv, NEW F, ReadFrom(F), RowsAreFrom(F), NEW from \in Int, NEW to \in Int,
         from <= to, to <= today, NEW path \in DOMAIN ScrollDepth(from, to)
  PROVE  LET I == from..to IN
         /\ DaySets(F, I)
         /\ ScrollDepth(from, to)[path].depthSum = SumFunctionOnSet(DepthDays(path, F, I), I)
         /\ ScrollDepth(from, to)[path].sessionsWithData
              = SumFunctionOnSet(CountDays(path, F, I), I)
         /\ Summable(DepthDays(path, F, I), I) /\ Summable(CountDays(path, F, I), I)
<1> DEFINE I == from..to
           R == ScrollRows(from, to)
           Q == {r \in R : r.path = path}
<1>1. DaySets(F, I)
  BY RangeDays
<1>2. R = AllParts(DayScrolls(F), I)
  BY DEF RowsAreFrom
<1>3. Q = PathRows(path, F, I)
  BY <1>2 DEF PathRows
<1>4. DOMAIN ScrollDepth(from, to) = {r.path : r \in R}
  BY DEF ScrollDepth
<1>5. /\ ScrollDepth(from, to)[path].depthSum = SumFunction(DepthColumn(Q))
      /\ ScrollDepth(from, to)[path].sessionsWithData = SumFunction(CountColumn(Q))
  BY <1>4 DEF ScrollDepth, DepthColumn, CountColumn
<1>6. DOMAIN DepthColumn(Q) = Q /\ DOMAIN CountColumn(Q) = Q
  BY DEF DepthColumn, CountColumn
<1> HIDE DEF Q, I
<1>7. /\ ScrollDepth(from, to)[path].depthSum = SumFunctionOnSet(DepthColumn(Q), Q)
      /\ ScrollDepth(from, to)[path].sessionsWithData = SumFunctionOnSet(CountColumn(Q), Q)
  BY <1>5, <1>6 DEF SumFunction
<1>8. /\ Summable(DepthDays(path, F, I), I) /\ Summable(CountDays(path, F, I), I)
      /\ SumFunctionOnSet(DepthColumn(Q), Q) = SumFunctionOnSet(DepthDays(path, F, I), I)
      /\ SumFunctionOnSet(CountColumn(Q), Q) = SumFunctionOnSet(CountDays(path, F, I), I)
  BY <1>1, <1>3, PathMerged
<1> QED BY <1>1, <1>7, <1>8 DEF I

\* The milestones of a day that the sessions reached or passed.
Reached(S) ==
  UNION {{<<e.day, e.session, m>> : m \in 1..e.value} : e \in {x \in S : x.value # NULL}}

\* They are as many as the deepest milestones add up to.
LEMMA ReachedCount ==
  ASSUME NEW d, NEW S, EventSet(S), \A e \in S : e.day = d
  PROVE  IsFiniteSet(Reached(S)) /\ Cardinality(Reached(S)) = Amount(DepthSum(S))
<1> DEFINE T == {e.session : e \in S}
           n(s) == Amount(Deepests(S)[s])
           w == [s \in T |-> n(s)]
           Q == [s \in T |-> {<<d, s, m>> : m \in 1..n(s)}]
<1>1. NULL \notin Nat
  BY ReportingAssumption DEF ReportingAssumption
<1>2. Summable(w, T) /\ Amount(DepthSum(S)) = SumFunctionOnSet(w, T)
  BY DeepestIs
<1>3. ASSUME NEW s \in T
      PROVE  /\ IsFiniteSet(ValuesOf(s, S)) /\ ValuesOf(s, S) \subseteq Nat \cup {NULL}
             /\ Deepests(S)[s] = SqlMax(ValuesOf(s, S))
  BY DeepestIs
<1>4. IsFiniteSet(T)
  BY <1>2 DEF Summable
<1>5. ASSUME NEW s \in T
      PROVE  /\ n(s) \in Nat
             /\ \A v \in ValuesOf(s, S) \ {NULL} : v <= n(s)
             /\ n(s) # 0 => n(s) \in ValuesOf(s, S)
  <2> DEFINE V == ValuesOf(s, S)
  <2>1. IsFiniteSet(V) /\ V \subseteq Nat \cup {NULL} /\ Deepests(S)[s] = SqlMax(V)
    BY <1>3
  <2> HIDE DEF V
  <2>2. /\ SqlMax(V) = NULL => V \subseteq {NULL}
        /\ SqlMax(V) \in V \cup {NULL}
        /\ \A x \in V \ {NULL} : SqlMax(V) \in Nat /\ x <= SqlMax(V)
    BY <2>1, SqlMaxIs
  <2>3. n(s) = IF SqlMax(V) = NULL THEN 0 ELSE SqlMax(V)
    BY <2>1 DEF Amount
  <2> HIDE DEF n
  <2>4. CASE SqlMax(V) = NULL
    BY <2>2, <2>3, <2>4 DEF V
  <2>5. CASE SqlMax(V) # NULL
    <3>1. n(s) = SqlMax(V) /\ SqlMax(V) \in V /\ SqlMax(V) \in Nat
      BY <2>1, <2>2, <2>3, <2>5
    <3> QED BY <2>2, <3>1 DEF V
  <2> QED BY <2>4, <2>5
<1> HIDE DEF n
<1>6. ASSUME NEW s \in T
      PROVE  IsFiniteSet(Q[s]) /\ Cardinality(Q[s]) = n(s)
  <2> DEFINE M == 1..n(s)
             f == [m \in M |-> <<d, s, m>>]
  <2>1. Q[s] = {f[m] : m \in M}
    OBVIOUS
  <2>2. \A x, y \in M : f[x] = f[y] => x = y
    OBVIOUS
  <2>3. IsFiniteSet(M) /\ Cardinality(M) = n(s)
    <3>1. IsFiniteSet(M) /\ Cardinality(M) = IF 1 > n(s) THEN 0 ELSE n(s) - 1 + 1
      BY <1>5, FS_Interval
    <3> HIDE DEF M
    <3> QED BY <1>5, <3>1
  <2> HIDE DEF M, f, Q
  <2>4. IsFiniteSet({f[m] : m \in M}) /\ Cardinality({f[m] : m \in M}) = Cardinality(M)
    BY <2>2, <2>3, CardRenamed
  <2> QED BY <2>1, <2>3, <2>4
<1>7. \A s, u \in T : s # u => Q[s] \cap Q[u] = {}
  OBVIOUS
<1>8. AllParts(Q, T) = Reached(S)
  <2>1. ASSUME NEW x \in Reached(S) PROVE \E s \in T : x \in Q[s]
    <3>1. PICK e \in S : e.value # NULL /\ \E m \in 1..e.value : x = <<e.day, e.session, m>>
      BY DEF Reached
    <3>2. PICK m \in 1..e.value : x = <<d, e.session, m>>
      BY <3>1
    <3> DEFINE s == e.session
    <3>3. s \in T /\ e.value \in ValuesOf(s, S) \ {NULL} /\ e.value \in Nat
      BY <3>1, EventFields DEF ValuesOf
    <3>4. m \in 1..n(s)
      <4>1. e.value <= n(s) /\ n(s) \in Nat
        BY <1>5, <3>3
      <4> HIDE DEF s
      <4> QED BY <3>3, <4>1
    <3> QED BY <3>2, <3>3, <3>4
  <2>2. ASSUME NEW s \in T, NEW x \in Q[s] PROVE x \in Reached(S)
    <3>1. PICK m \in 1..n(s) : x = <<d, s, m>>
      OBVIOUS
    <3>2. n(s) \in Nat /\ n(s) # 0
      BY <1>5, <3>1
    <3>3. n(s) \in ValuesOf(s, S)
      BY <1>5, <3>2
    <3>4. PICK e \in S : e.session = s /\ e.value = n(s)
      BY <3>3 DEF ValuesOf
    <3>5. e.value # NULL /\ e.day = d
      BY <1>1, <3>2, <3>4
    <3> HIDE DEF T, Q
    <3> QED BY <3>1, <3>4, <3>5 DEF Reached
  <2> HIDE DEF T, Q
  <2> QED BY <2>1, <2>2 DEF AllParts
<1> HIDE DEF Q
<1>9. Disjoint(Q, T)
  BY <1>4, <1>6, <1>7 DEF Disjoint
<1>10. Agree(w, Sizes(Q, T), T)
  BY <1>2, <1>6 DEF Agree, Sizes
<1> HIDE DEF T, w
<1>11. /\ IsFiniteSet(AllParts(Q, T)) /\ Cardinality(AllParts(Q, T)) = SumFunctionOnSet(Sizes(Q, T), T)
  BY <1>9, CardParts
<1>12. SumFunctionOnSet(w, T) = SumFunctionOnSet(Sizes(Q, T), T)
  BY <1>10, SumSame
<1> QED BY <1>2, <1>8, <1>11, <1>12

\* Day by day, the depth counts what was reached and the sessions that scrolled.
LEMMA InvariantScrolls == IInv => ScrollCountsTheDeepest
<1> SUFFICES ASSUME IInv, NEW r \in Ranges, Served(r), NEW path \in DOMAIN ScrollDepth(r[1], r[2])
             PROVE  LET depth == ScrollDepth(r[1], r[2])
                        scrolled == {e \in collected : /\ e.type = "scroll" /\ e.path = path
                                                       /\ e.day \in Days(r)}
                        reached == UNION {{<<e.day, e.session, m>> : m \in 1..e.value} :
                                            e \in {x \in scrolled : x.value # NULL}}
                    IN  /\ depth[path].depthSum = Cardinality(reached)
                        /\ depth[path].sessionsWithData
                             = Cardinality({<<e.day, e.session>> : e \in scrolled})
  BY DEF ScrollCountsTheDeepest
<1> DEFINE I == Days(r)
           scrolled == {e \in collected : e.type = "scroll" /\ e.path = path /\ e.day \in Days(r)}
<1>1. PICK F : ReadFrom(F) /\ RowsAreFrom(F)
  BY SourcesExist
<1>2. /\ r[1] \in Int /\ r[2] \in Int /\ r[1] <= r[2] /\ r[2] <= today
      /\ I \subseteq 0..today /\ \A d \in I : F[d] = On(d, collected)
  BY <1>1, ServedDays
<1>3. /\ DaySets(F, I)
      /\ ScrollDepth(r[1], r[2])[path].depthSum = SumFunctionOnSet(DepthDays(path, F, I), I)
      /\ ScrollDepth(r[1], r[2])[path].sessionsWithData
           = SumFunctionOnSet(CountDays(path, F, I), I)
      /\ Summable(DepthDays(path, F, I), I) /\ Summable(CountDays(path, F, I), I)
  BY <1>1, <1>2, ScrollDepthIs DEF Days
<1> DEFINE S(d) == ScrollsOf(path, F[d])
           P == [d \in I |-> Reached(S(d))]
           Q == [d \in I |-> SessionsIn(S(d))]
<1>4. ASSUME NEW d \in I
      PROVE  /\ EventSet(S(d)) /\ S(d) = {e \in scrolled : e.day = d}
             /\ \A e \in S(d) : e.day = d
  <2>1. EventSet(F[d])
    BY <1>3 DEF DaySets
  <2>2. EventSet(S(d))
    BY <2>1, ScrollTypes
  <2>3. F[d] = On(d, collected)
    BY <1>2
  <2> QED BY <2>2, <2>3 DEF ScrollsOf, On
<1>5. \A e \in scrolled : e.day \in I
  OBVIOUS
<1> HIDE DEF S, I, scrolled
<1>6. ASSUME NEW d \in I
      PROVE  IsFiniteSet(P[d]) /\ Cardinality(P[d]) = DepthDays(path, F, I)[d]
  <2>1. P[d] = Reached(S(d))
    OBVIOUS
  <2>2. IsFiniteSet(Reached(S(d))) /\ Cardinality(Reached(S(d))) = Amount(DepthSum(S(d)))
    BY <1>4, ReachedCount
  <2>3. DepthDays(path, F, I)[d] = Amount(DepthSum(S(d)))
    BY DEF DepthDays, S
  <2> HIDE DEF P
  <2> QED BY <2>1, <2>2, <2>3
<1>7. Disjoint(P, I)
  <2>1. \A d \in I : \A x \in P[d] : x[1] = d
    BY <1>4 DEF Reached
  <2> HIDE DEF P
  <2> QED BY <1>3, <1>6, <2>1 DEF Disjoint, DaySets
<1>8. AllParts(P, I) = Reached(scrolled)
  <2>1. ASSUME NEW x \in AllParts(P, I) PROVE x \in Reached(scrolled)
    <3>1. PICK d \in I : x \in Reached(S(d))
      BY DEF AllParts
    <3>2. S(d) \subseteq scrolled
      BY <1>4
    <3> QED BY <3>1, <3>2 DEF Reached
  <2>2. ASSUME NEW x \in Reached(scrolled) PROVE x \in AllParts(P, I)
    <3>1. PICK e \in scrolled :
                 e.value # NULL /\ \E m \in 1..e.value : x = <<e.day, e.session, m>>
      BY DEF Reached
    <3>2. e.day \in I /\ e \in S(e.day)
      BY <1>4, <1>5
    <3>3. x \in Reached(S(e.day))
      BY <3>1, <3>2 DEF Reached
    <3>4. P[e.day] = Reached(S(e.day))
      BY <3>2
    <3> HIDE DEF P
    <3> QED BY <3>2, <3>3, <3>4 DEF AllParts
  <2> HIDE DEF P
  <2> QED BY <2>1, <2>2
<1>9. Cardinality(Reached(scrolled)) = SumFunctionOnSet(DepthDays(path, F, I), I)
  <2> HIDE DEF P
  <2>1. Cardinality(AllParts(P, I)) = SumFunctionOnSet(Sizes(P, I), I)
    BY <1>7, CardParts
  <2>2. Agree(DepthDays(path, F, I), Sizes(P, I), I)
    BY <1>3, <1>6 DEF Agree, Sizes
  <2>3. SumFunctionOnSet(DepthDays(path, F, I), I) = SumFunctionOnSet(Sizes(P, I), I)
    BY <2>2, SumSame
  <2> QED BY <1>8, <2>1, <2>3
<1>10. Cardinality({<<e.day, e.session>> : e \in scrolled})
         = SumFunctionOnSet(CountDays(path, F, I), I)
  <2>1. AllParts(Tagged(Q, I), I) = {<<e.day, e.session>> : e \in scrolled}
    <3>1. ASSUME NEW e \in scrolled PROVE \E d \in I : <<e.day, e.session>> \in Tagged(Q, I)[d]
      <4>1. e.day \in I /\ e \in S(e.day)
        BY <1>4, <1>5
      <4>2. <<e.day, e.session>> \in Tagged(Q, I)[e.day]
        BY <4>1 DEF Tagged, SessionsIn
      <4> QED BY <4>1, <4>2
    <3>2. ASSUME NEW d \in I, NEW x \in Tagged(Q, I)[d]
          PROVE  \E e \in scrolled : x = <<e.day, e.session>>
      BY <1>4 DEF Tagged, SessionsIn
    <3> HIDE DEF Q
    <3> QED BY <3>1, <3>2 DEF AllParts
  <2>2. \A d \in I : IsFiniteSet(Q[d]) /\ CountDays(path, F, I)[d] = Cardinality(Q[d])
    BY <1>4, EventImages DEF EventSet, SessionsIn, CountDays, S
  <2> HIDE DEF Q
  <2>3. Agree(CountDays(path, F, I), Sizes(Q, I), I)
    BY <1>3, <2>2 DEF Agree, Sizes
  <2>4. SumFunctionOnSet(CountDays(path, F, I), I) = SumFunctionOnSet(Sizes(Q, I), I)
    BY <2>3, SumSame
  <2>5. Cardinality(AllParts(Tagged(Q, I), I)) = SumFunctionOnSet(Sizes(Q, I), I)
    BY <1>3, <2>2, TaggedParts DEF DaySets
  <2> QED BY <2>1, <2>4, <2>5
<1> QED BY <1>3, <1>9, <1>10 DEF scrolled, Reached

(* The depth reported of a page is the sum, over days and sessions, of the deepest   *)
(* milestone: session_max takes one maximum for each session before anything adds.   *)
THEOREM ScrollAlwaysCountsTheDeepest == Spec => []ScrollCountsTheDeepest
BY InvariantHolds, InvariantScrolls, PTL

-----------------------------------------------------------------------------------
(* The pages. *)

\* A headline adds up its days.
LEMMA HeadlineDays ==
  ASSUME IInv, NEW F, ReadFrom(F), RowsAreFrom(F), NEW from \in Int, NEW to \in Int,
         from <= to, to <= today
  PROVE  /\ Headline(from, to).visitors = SumFunctionOnSet(VisitorTotals(F), from..to)
         /\ Headline(from, to).sessions = SumFunctionOnSet(SessionTotals(F), from..to)
         /\ Headline(from, to).bounces = SumFunctionOnSet(BounceTotals(F), from..to)
         /\ Summable(VisitorTotals(F), from..to) /\ Summable(SessionTotals(F), from..to)
         /\ Summable(BounceTotals(F), from..to)
<1> DEFINE I == from..to
<1>1. DaySets(F, I)
  BY RangeDays
<1>2. MetricRows("device", from, to) = AllParts(DayRows("device", F), I)
  BY DEF RowsAreFrom, Dimensions
<1> HIDE DEF I
<1>3. Headline(from, to) = Merged(AllParts(DayRows("device", F), I))
  BY <1>2 DEF Headline
<1>4. /\ Summable(VisitorTotals(F), I) /\ Summable(SessionTotals(F), I)
      /\ Headline(from, to).visitors = SumFunctionOnSet(VisitorTotals(F), I)
      /\ Headline(from, to).sessions = SumFunctionOnSet(SessionTotals(F), I)
  BY <1>1, <1>3, RangePeople
<1>5. /\ Summable(BounceTotals(F), I)
      /\ Headline(from, to).bounces = SumFunctionOnSet(BounceTotals(F), I)
  BY <1>1, <1>3, RangeMerged
<1> QED BY <1>4, <1>5 DEF I

\* A day has no more bounces than sessions.
LEMMA BouncesAreSessions ==
  ASSUME NEW E, EventSet(E)
  PROVE  Cardinality(Bounced(E, E)) <= Cardinality(SessionsIn(E))
<1> DEFINE B == Bounced(E, E)
           f == [e \in B |-> e.session]
           T == {f[e] : e \in B}
<1>1. B = {e \in Pageviews(E) : \A x \in Pageviews(E) : x.session = e.session => x = e}
  BY BouncedIs
<1>2. B \in SUBSET E /\ T \in SUBSET SessionsIn(E)
  BY DEF Bounced, Pageviews, SessionsIn
<1>3. \A x, y \in B : f[x] = f[y] => x = y
  BY <1>1
<1>4. IsFiniteSet(E) /\ IsFiniteSet(SessionsIn(E))
  BY EventImages DEF EventSet, SessionsIn
<1>5. IsFiniteSet(B)
  <2> HIDE DEF B
  <2> QED BY <1>2, <1>4, FS_Subset
<1>6. Cardinality(T) = Cardinality(B)
  <2> HIDE DEF B, f
  <2> QED BY <1>3, <1>5, CardRenamed
<1>7. Cardinality(T) <= Cardinality(SessionsIn(E))
  <2> HIDE DEF T
  <2> QED BY <1>2, <1>4, FS_Subset
<1> QED BY <1>6, <1>7

\* A part of a whole is at most 100.0%.
LEMMA PercentAtMost ==
  ASSUME NEW part \in Nat, NEW whole \in Nat, part <= whole
  PROVE  Percent(part, whole) <= 1000
<1>1. CASE whole = 0
  BY <1>1 DEF Percent
<1>2. CASE whole # 0
  <2> DEFINE q == (2000 * part + whole) \div (2 * whole)
  <2>1. q \in Int /\ q * (2 * whole) <= 2000 * part + whole
    BY <1>2
  <2> HIDE DEF q
  <2>2. ASSUME q >= 1001 PROVE FALSE
    <3>1. 1001 * (2 * whole) <= q * (2 * whole)
      BY <1>2, <2>1, <2>2
    <3> QED BY <1>2, <2>1, <3>1
  <2>3. q <= 1000
    BY <2>1, <2>2
  <2> QED BY <1>2, <2>3 DEF Percent, q
<1> QED BY <1>1, <1>2

\* The days of an overview.
LEMMA TrailingDay ==
  ASSUME IInv, NEW n \in TrailingDays
  PROVE  /\ today \in Nat /\ StartOf(n) \in Int /\ StartOf(n) <= today
         /\ n = 1 => StartOf(n) = today
<1>1. n \in Nat /\ n # 0 /\ today \in Nat
  BY DashboardAssumption, ReportingAssumption DEF DashboardAssumption, ReportingAssumption, IInv
<1> QED BY <1>1 DEF StartOf

\* The sum over one day.
LEMMA SingleDay ==
  ASSUME NEW w, NEW d \in Int, Summable(w, d..d)
  PROVE  SumFunctionOnSet(w, d..d) = w[d]
<1> DEFINE I == d..d
<1>1. d \in I /\ I \ {d} = {}
  OBVIOUS
<1> HIDE DEF I
<1>2. Summable(w, I)
  BY DEF I
<1>3. SumFunctionOnSet(w, I) = w[d] + SumFunctionOnSet(w, I \ {d})
  BY <1>1, <1>2, SumRemove
<1>4. SumFunctionOnSet(w, I \ {d}) = 0
  BY <1>1, SumNone
<1>5. w[d] \in Nat
  BY <1>1, <1>2 DEF Summable
<1>6. SumFunctionOnSet(w, I) = w[d]
  BY <1>3, <1>4, <1>5
<1> QED BY <1>6 DEF I

\* The days of the chart add up to the headline.
LEMMA ChartAddsUp ==
  ASSUME IInv, NEW F, ReadFrom(F), RowsAreFrom(F), NEW n \in TrailingDays
  PROVE  SumFunction(DailyVisitors(n)) = Totals(n).visitors
<1> DEFINE I == StartOf(n)..today
           T == VisitorTotals(F)
           chart == DailyVisitors(n)
<1>1. /\ today \in Int /\ StartOf(n) \in Int /\ StartOf(n) <= today
      /\ n = 1 => StartOf(n) = today
  BY TrailingDay
<1>2. Totals(n).visitors = SumFunctionOnSet(T, I) /\ Summable(T, I)
  BY <1>1, HeadlineDays DEF Totals
<1>3. DOMAIN chart = I
  BY DEF DailyVisitors
<1>4. ASSUME NEW d \in I PROVE chart[d] = T[d]
  <2>1. d \in Int /\ d <= d /\ d <= today
    BY <1>1
  <2> HIDE DEF I, chart
  <2>2. Headline(d, d).visitors = SumFunctionOnSet(T, d..d) /\ Summable(T, d..d)
    BY <2>1, HeadlineDays
  <2>3. SumFunctionOnSet(T, d..d) = T[d]
    BY <2>1, <2>2, SingleDay
  <2>4. CASE n = 1
    <3>1. StartOf(n) = d /\ today = d
      BY <1>1, <2>4 DEF I
    <3>2. chart[d] = Totals(n).visitors
      BY <2>4 DEF DailyVisitors, chart, I
    <3>3. Totals(n) = Headline(d, d)
      BY <3>1 DEF Totals
    <3> QED BY <2>2, <2>3, <3>2, <3>3
  <2>5. CASE n # 1
    <3>1. chart[d] = Headline(d, d).visitors
      BY <2>5 DEF DailyVisitors, chart, I
    <3> QED BY <2>2, <2>3, <3>1
  <2> QED BY <2>4, <2>5
<1> HIDE DEF I, chart, T
<1>5. Agree(T, chart, I)
  BY <1>2, <1>4 DEF Agree
<1>6. SumFunctionOnSet(T, I) = SumFunctionOnSet(chart, I)
  BY <1>5, SumSame
<1>7. SumFunction(chart) = SumFunctionOnSet(chart, I)
  BY <1>3 DEF SumFunction
<1> QED BY <1>2, <1>6, <1>7 DEF chart

\* The bounce rate is at most 100.0%.
LEMMA BouncesAreRated ==
  ASSUME IInv, NEW F, ReadFrom(F), RowsAreFrom(F), NEW n \in TrailingDays
  PROVE  BounceRate(n) <= 1000
<1> DEFINE I == StartOf(n)..today
           B == BounceTotals(F)
           S == SessionTotals(F)
<1>1. today \in Int /\ StartOf(n) \in Int /\ StartOf(n) <= today
  BY TrailingDay
<1>2. /\ Totals(n).bounces = SumFunctionOnSet(B, I) /\ Summable(B, I)
      /\ Totals(n).sessions = SumFunctionOnSet(S, I) /\ Summable(S, I)
  BY <1>1, HeadlineDays DEF Totals
<1>3. \A d \in I : B[d] <= 1 * S[d]
  <2> SUFFICES ASSUME NEW d \in I PROVE B[d] <= 1 * S[d]
    OBVIOUS
  <2>1. d \in Int /\ EventSet(F[d])
    BY <1>1 DEF ReadFrom
  <2>2. Cardinality(Bounced(F[d], F[d])) <= Cardinality(SessionsIn(F[d]))
    BY <2>1, BouncesAreSessions
  <2>3. B[d] = Cardinality(Bounced(F[d], F[d])) /\ S[d] = Cardinality(SessionsIn(F[d]))
    BY <2>1 DEF BounceTotals, SessionTotals
  <2>4. S[d] \in Nat
    BY <1>2 DEF Summable
  <2> HIDE DEF B, S
  <2> QED BY <2>2, <2>3, <2>4
<1> HIDE DEF I, B, S
<1>4. Within(B, S, 1, I)
  BY <1>2, <1>3 DEF Within
<1>5. SumFunctionOnSet(B, I) <= 1 * SumFunctionOnSet(S, I)
  BY <1>4, SumCompare
<1>6. SumFunctionOnSet(B, I) \in Nat /\ SumFunctionOnSet(S, I) \in Nat
  BY <1>2, SumType
<1>7. SumFunctionOnSet(B, I) <= SumFunctionOnSet(S, I)
  BY <1>5, <1>6
<1>8. Percent(SumFunctionOnSet(B, I), SumFunctionOnSet(S, I)) <= 1000
  BY <1>6, <1>7, PercentAtMost
<1> QED BY <1>2, <1>8 DEF BounceRate

\* The key of an event that was read is reported.
LEMMA KeyIsReported ==
  ASSUME NEW F, RowsAreFrom(F), NEW from \in Int, NEW to \in Int, from <= to, to <= today,
         NEW d \in from..to, NEW dim \in Dimensions, NEW e \in F[d]
  PROVE  KeyOf(dim, e) \in DOMAIN Report(dim, from, to)
<1> DEFINE I == from..to
           R == MetricRows(dim, from, to)
           key == KeyOf(dim, e)
<1>1. R = AllParts(DayRows(dim, F), I)
  BY DEF RowsAreFrom
<1>2. Aggregate(dim, d, key, F[d]) \in Aggregated(dim, d, F[d])
  BY DEF Aggregated, Keys
<1>3. Aggregate(dim, d, key, F[d]) \in R
  <2>1. d \in Int /\ d \in I
    OBVIOUS
  <2> HIDE DEF I, R, key
  <2> QED BY <1>1, <1>2, <2>1 DEF AllParts, DayRows
<1>4. Aggregate(dim, d, key, F[d]).key = key
  BY AggregateFields
<1>5. DOMAIN Report(dim, from, to) = {r.key : r \in R}
  BY DEF Report
<1> HIDE DEF R, key
<1>6. key \in DOMAIN Report(dim, from, to)
  BY <1>3, <1>4, <1>5
<1> QED BY <1>6 DEF key

\* A served overview without data covers days without events.
LEMMA SilentPage ==
  ASSUME IInv, NEW F, ReadFrom(F), RowsAreFrom(F), NEW n \in TrailingDays,
         \A d \in StartOf(n)..(today - 1) : d >= 0 => Served(<<d, d>>),
         ~ HasAnyData(n), NEW e \in collected
  PROVE  e.day < StartOf(n)
<1> SUFFICES ASSUME e.day >= StartOf(n) PROVE FALSE
  <2> e.day \in Int /\ StartOf(n) \in Int
    BY TrailingDay DEF IInv, EventsOK, Event
  <2> QED OBVIOUS
<1> DEFINE d == e.day
           I == StartOf(n)..today
           key == KeyOf("path", e)
<1>1. today \in Nat /\ StartOf(n) \in Int /\ StartOf(n) <= today
  BY TrailingDay
<1>2. d \in 0..today /\ d \in I
  BY <1>1 DEF IInv, EventsOK, Event
<1>3. F[d] = On(d, collected)
  <2>1. CASE d = today
    BY <1>1, <1>2, <2>1 DEF ReadFrom
  <2>2. CASE d # today
    <3>1. d \in StartOf(n)..(today - 1) /\ d >= 0 /\ d \in Int
      BY <1>1, <1>2, <2>2
    <3>2. Served(<<d, d>>)
      BY <3>1
    <3>3. d \in Days(<<d, d>>) /\ d < today
      BY <1>1, <3>1 DEF Days
    <3>4. d \in covered /\ ~ Unaccountable(d)
      BY <3>2, <3>3 DEF Served
    <3> QED BY <3>1, <3>4 DEF ReadFrom
  <2> QED BY <2>1, <2>2
<1>4. e \in F[d]
  BY <1>3 DEF On
<1>5. key \in DOMAIN Report("path", StartOf(n), today)
  <2>1. "path" \in Dimensions /\ d \in StartOf(n)..today /\ today <= today /\ today \in Int
    BY <1>1, <1>2 DEF Dimensions
  <2> HIDE DEF d
  <2> QED BY <1>1, <1>4, <2>1, KeyIsReported
<1>6. Report("path", StartOf(n), today) = <<>>
  BY DEF HasAnyData, Dimensions
<1>7. DOMAIN <<>> = {}
  OBVIOUS
<1> QED BY <1>5, <1>6, <1>7

\* A site without events has had none within the retention.
LEMMA SilentSite ==
  ASSUME IInv, SiteActivity.totalEvents = 0, NEW e \in collected
  PROVE  e.day <= today - Retention
<1>1. Cardinality(rows) = 0
  BY DEF SiteActivity
<1>2. IsFiniteSet(rows)
  BY FS_Subset DEF IInv, EventsOK, RowsRetained
<1>3. rows = {}
  BY <1>1, <1>2, FS_EmptySet
<1>4. e.day \in Int /\ today \in Int /\ Retention \in Int
  BY ReportingAssumption DEF ReportingAssumption, IInv, EventsOK, Event
<1>5. ~ (e.day > today - Retention)
  BY <1>3 DEF IInv, RowsRetained
<1> QED BY <1>4, <1>5

\* No session is deeper than the last milestone.
LEMMA DepthIsAtMost ==
  ASSUME NEW S, EventSet(S), \A e \in S : e.type = "scroll"
  PROVE  Amount(DepthSum(S)) <= Deepest * Cardinality(SessionsIn(S))
<1> DEFINE T == {e.session : e \in S}
           w == [s \in T |-> Amount(Deepests(S)[s])]
           one == [s \in T |-> 1]
<1>1. Summable(w, T) /\ Amount(DepthSum(S)) = SumFunctionOnSet(w, T)
  BY DeepestIs
<1>2. Deepest \in Nat
  BY DashboardAssumption DEF DashboardAssumption
<1>3. ASSUME NEW s \in T PROVE w[s] <= Deepest
  <2> DEFINE V == ValuesOf(s, S)
  <2>1. IsFiniteSet(V) /\ V \subseteq Nat \cup {NULL} /\ Deepests(S)[s] = SqlMax(V)
    BY DeepestIs
  <2>2. \A v \in V : v = NULL \/ v <= Deepest
    <3> SUFFICES ASSUME NEW e \in S PROVE e.value = NULL \/ e.value <= Deepest
      BY DEF ValuesOf
    <3>1. PICK h \in Hits : e.type = h.type /\ e.value = h.value
      BY DEF EventSet
    <3>2. h.type = "scroll"
      BY <3>1
    <3> QED BY <3>1, <3>2, DashboardAssumption DEF DashboardAssumption
  <2> HIDE DEF V
  <2>3. SqlMax(V) \in V \cup {NULL}
    BY <2>1, SqlMaxIs
  <2>4. w[s] = IF SqlMax(V) = NULL THEN 0 ELSE SqlMax(V)
    BY <2>1 DEF Amount
  <2> HIDE DEF w, T
  <2> QED BY <1>2, <2>2, <2>3, <2>4
<1>4. IsFiniteSet(T) /\ \A s \in T : one[s] = 1
  BY <1>1 DEF Summable
<1> HIDE DEF T, w, one
<1>5. Summable(one, T) /\ SumFunctionOnSet(one, T) = Cardinality(T)
  BY <1>4, SumOnes
<1>6. \A s \in T : w[s] <= Deepest * one[s]
  <2> SUFFICES ASSUME NEW s \in T PROVE w[s] <= Deepest * one[s]
    OBVIOUS
  <2>1. Deepest * 1 = Deepest
    BY <1>2
  <2> QED BY <1>3, <1>4, <2>1
<1>7. Within(w, one, Deepest, T)
  BY <1>1, <1>2, <1>5, <1>6 DEF Within
<1>8. SumFunctionOnSet(w, T) <= Deepest * SumFunctionOnSet(one, T)
  BY <1>7, SumCompare
<1> QED BY <1>1, <1>5, <1>8 DEF T, SessionsIn

\* Of one day: the sessions that scrolled a page saw it.
LEMMA ScrollersAreSessions ==
  ASSUME NEW E, EventSet(E), NEW path, NEW d
  PROVE  /\ Cardinality(SessionsIn(ScrollsOf(path, E))) <= Aggregate("path", d, path, E).sessions
         /\ Amount(DepthSum(ScrollsOf(path, E)))
              <= Deepest * Cardinality(SessionsIn(ScrollsOf(path, E)))
<1> DEFINE S == ScrollsOf(path, E)
           G == GroupOf("path", path, E)
<1>1. EventSet(S) /\ EventSet(G)
  BY ScrollTypes, GroupIsSet
<1>2. SessionsIn(S) \in SUBSET SessionsIn(G)
  BY DEF ScrollsOf, GroupOf, SessionsIn, KeyOf
<1>3. \A e \in S : e.type = "scroll"
  BY DEF ScrollsOf
<1>4. Aggregate("path", d, path, E).sessions = Cardinality(SessionsIn(G))
  BY AggregateFields
<1> HIDE DEF S, G
<1>5. IsFiniteSet(SessionsIn(G))
  BY <1>1, EventImages DEF EventSet, SessionsIn
<1>6. Cardinality(SessionsIn(S)) <= Cardinality(SessionsIn(G))
  BY <1>2, <1>5, FS_Subset
<1>7. Amount(DepthSum(S)) <= Deepest * Cardinality(SessionsIn(S))
  BY <1>1, <1>3, DepthIsAtMost
<1> QED BY <1>4, <1>6, <1>7 DEF S

\* The rows of the scroll depth table.
LEMMA ScrolledIsSeen ==
  ASSUME IInv, NEW F, ReadFrom(F), RowsAreFrom(F), NEW n \in TrailingDays,
         NEW path \in DOMAIN ScrollDepthRows(n)
  PROVE  /\ ScrollDepthRows(n)[path].sessionsWithData <= ScrollDepthRows(n)[path].totalSessions
         /\ ScrollDepthRows(n)[path].depthSum
              <= Deepest * ScrollDepthRows(n)[path].sessionsWithData
<1> DEFINE from == StartOf(n)
           I == from..today
           row == ScrollDepthRows(n)[path]
           depths == ScrollDepth(from, today)
           paths == Report("path", from, today)
           C == CountDays(path, F, I)
           D == DepthDays(path, F, I)
           S == SessionDays("path", path, F, I)
<1>1. today \in Int /\ from \in Int /\ from <= today /\ "path" \in Dimensions
  BY TrailingDay DEF Dimensions
<1>2. path \in DOMAIN depths
  BY DEF ScrollDepthRows
<1>3. /\ row.sessionsWithData = depths[path].sessionsWithData
      /\ row.depthSum = depths[path].depthSum
      /\ path \in DOMAIN paths => row.totalSessions = paths[path].sessions
  BY DEF ScrollDepthRows, CoverageOf
<1> HIDE DEF row
<1>4. /\ DaySets(F, I)
      /\ depths[path].depthSum = SumFunctionOnSet(D, I)
      /\ depths[path].sessionsWithData = SumFunctionOnSet(C, I)
      /\ Summable(D, I) /\ Summable(C, I)
  BY <1>1, <1>2, ScrollDepthIs
<1>5. path \in DOMAIN paths
  <2>1. DOMAIN depths = {r.path : r \in ScrollRows(from, today)}
    BY DEF ScrollDepth
  <2>2. ScrollRows(from, today) = AllParts(DayScrolls(F), I)
    BY <1>1 DEF RowsAreFrom
  <2>3. PICK r \in AllParts(DayScrolls(F), I) : r.path = path
    BY <1>2, <2>1, <2>2
  <2>4. PICK d \in I : r \in ScrollAggregated(d, F[d])
    BY <1>4, <2>3 DEF AllParts, DayScrolls, DaySets
  <2>5. PICK p \in ScrolledPaths(F[d]) : r = ScrollAggregate(d, p, F[d])
    BY <2>4 DEF ScrollAggregated
  <2>6. p = path
    BY <2>3, <2>5, ScrollFields
  <2>7. PICK e \in F[d] : e.path = path
    BY <2>5, <2>6 DEF ScrolledPaths
  <2>8. KeyOf("path", e) = path
    BY <2>7 DEF KeyOf
  <2>9. KeyOf("path", e) \in DOMAIN paths
    BY <1>1, KeyIsReported
  <2> QED BY <2>8, <2>9
<1>6. paths[path].sessions = SumFunctionOnSet(S, I) /\ Summable(S, I)
  <2> DEFINE R == MetricRows("path", from, today)
             K == KeyRows("path", path, F, I)
  <2>1. R = AllParts(DayRows("path", F), I)
    BY <1>1 DEF RowsAreFrom
  <2>2. {r \in R : r.key = path} = K
    BY <2>1 DEF KeyRows
  <2>3. paths = [key \in {r.key : r \in R} |-> Merged({r \in R : r.key = key})]
    BY DEF Report
  <2> HIDE DEF R, paths, K
  <2>4. paths[path] = Merged(K)
    BY <1>5, <2>2, <2>3
  <2>5. Merged(K).sessions = SumFunctionOnSet(S, I) /\ Summable(S, I)
    <3> HIDE DEF I
    <3> QED BY <1>1, <1>4, KeyMerged DEF K
  <2> QED BY <2>4, <2>5
<1>7. ASSUME NEW d \in I
      PROVE  C[d] <= 1 * S[d] /\ D[d] <= Deepest * C[d]
  <2> DEFINE E == F[d]
             c == Cardinality(SessionsIn(ScrollsOf(path, E)))
  <2>1. EventSet(E)
    BY <1>4 DEF DaySets
  <2>2. C[d] = c /\ S[d] = Aggregate("path", d, path, E).sessions
    BY DEF CountDays, SessionDays
  <2>3. D[d] = Amount(DepthSum(ScrollsOf(path, E)))
    BY DEF DepthDays
  <2>4. S[d] \in Nat
    BY <1>6 DEF Summable
  <2> HIDE DEF E
  <2>5. c <= Aggregate("path", d, path, E).sessions
    BY <2>1, ScrollersAreSessions
  <2>6. Amount(DepthSum(ScrollsOf(path, E))) <= Deepest * c
    BY <2>1, ScrollersAreSessions
  <2> HIDE DEF C, D, S, c
  <2> QED BY <2>2, <2>3, <2>4, <2>5, <2>6
<1>8. Deepest \in Nat
  BY DashboardAssumption DEF DashboardAssumption
<1> HIDE DEF C, D, S, I
<1>9. Within(C, S, 1, I) /\ Within(D, C, Deepest, I)
  BY <1>4, <1>6, <1>7, <1>8 DEF Within
<1>10. SumFunctionOnSet(C, I) <= 1 * SumFunctionOnSet(S, I)
  BY <1>9, SumCompare
<1>11. SumFunctionOnSet(D, I) <= Deepest * SumFunctionOnSet(C, I)
  BY <1>9, SumCompare
<1>12. SumFunctionOnSet(C, I) \in Nat /\ SumFunctionOnSet(S, I) \in Nat
  BY <1>4, <1>6, SumType
<1>13. row.sessionsWithData <= row.totalSessions
  BY <1>3, <1>4, <1>5, <1>6, <1>10, <1>12
<1>14. row.depthSum <= Deepest * row.sessionsWithData
  BY <1>3, <1>4, <1>11
<1> QED BY <1>13, <1>14 DEF row

\* All parts of the pages.
LEMMA InvariantPages == IInv => PagesAreConsistent
<1> SUFFICES ASSUME IInv PROVE PagesAreConsistent
  OBVIOUS
<1>1. PICK F : ReadFrom(F) /\ RowsAreFrom(F)
  BY SourcesExist
<1>2. ASSUME NEW n \in TrailingDays
      PROVE  SumFunction(DailyVisitors(n)) = Totals(n).visitors /\ BounceRate(n) <= 1000
  BY <1>1, ChartAddsUp, BouncesAreRated
<1>3. ASSUME NEW n \in TrailingDays, NEW path \in DOMAIN ScrollDepthRows(n)
      PROVE  /\ ScrollDepthRows(n)[path].sessionsWithData
                  <= ScrollDepthRows(n)[path].totalSessions
             /\ ScrollDepthRows(n)[path].depthSum
                  <= Deepest * ScrollDepthRows(n)[path].sessionsWithData
  BY <1>1, ScrolledIsSeen
<1>4. ASSUME NEW n \in TrailingDays,
             \A d \in StartOf(n)..(today - 1) : d >= 0 => Served(<<d, d>>), ~ HasAnyData(n)
      PROVE  \A e \in collected : e.day < StartOf(n)
  BY <1>1, <1>4, SilentPage
<1>5. ASSUME SiteActivity.totalEvents = 0
      PROVE  \A e \in collected : e.day <= today - Retention
  BY <1>5, SilentSite
<1> QED BY <1>2, <1>3, <1>4, <1>5 DEF PagesAreConsistent

(* The parts of an overview fit together, built or not: the chart adds up to the     *)
(* headline, rates and depths stay within 100%, no page is scrolled in more sessions *)
(* than saw it, and a page without data or a silent site means that nothing happened.*)
THEOREM PagesAreAlwaysConsistent == Spec => []PagesAreConsistent
BY InvariantHolds, InvariantPages, PTL
===================================================================================
