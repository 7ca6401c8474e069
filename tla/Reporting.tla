--------------------------------- MODULE Reporting ---------------------------------
(* What the rollup tables count and what a report adds up.  Closed days are read   *)
(* from tables that the hourly rollup job rebuilds for yesterday, today from the   *)
(* events table, and the two are merged by key.  Every query and rebuild runs to   *)
(* its end between two callbacks of the event loop (all its awaits are of          *)
(* synchronous adapters), so a report sees one state of the database.  All of it   *)
(* is for one site: every statement filters by site_id.                            *)
EXTENDS Integers, FiniteSets, FiniteSetsExt, Functions

CONSTANTS Visitors,   \* visitor identities
          Device,     \* each visitor's device: part of the identity, so it never varies
          Hits,       \* the type, path and value of the events that may arrive
          NULL,       \* SQL's NULL
          Retention   \* rawEventMonths, in days

CONSTANTS MaxDay, MaxEvents, MaxBuffered  \* bounds

\* The retention is at least a month: longer than the day the rollup job looks back on.
ASSUME ReportingAssumption ==
  /\ \A h \in Hits : h.type \in {"pageview", "engagement", "scroll"}
  /\ \A h \in Hits : h.path \in STRING /\ h.value \in Nat \union {NULL}
  /\ Device \in [Visitors -> STRING]
  /\ NULL \notin Nat /\ Retention \in Nat /\ Retention >= 2 /\ MaxDay \in Nat
  /\ MaxEvents \in Nat /\ MaxBuffered \in Nat

VARIABLES
  today,      \* the current UTC day
  buffered,   \* events waiting for the flush
  rows,       \* the events table
  tables,     \* the rollup tables of the dimensions
  scroll,     \* rollup_daily_scroll
  collected,  \* every event ever stored (history)
  covered     \* days that a rollup run covered after their last event was stored (history)

database == <<rows, tables, scroll>>
vars == <<today, buffered, database, collected, covered>>

\* Two of the ten dimensions stand for the two kinds: path may differ between the events
\* of a visitor, device may not.
Dimensions == {"path", "device"}
KeyOf(dim, e) == IF dim = "path" THEN e.path ELSE Device[e.visitor]
Keys(dim, E) == {KeyOf(dim, e) : e \in E}
On(day, E) == {e \in E : e.day = day}

Row == [day : 0..MaxDay, key : STRING, pageviews : Nat, visitors : Nat, sessions : Nat,
        bounces : Nat, engagement : Nat]
ScrollRow == [day : 0..MaxDay, path : STRING, depthSum : Nat, sessionCount : Nat]

\* Types, and the primary keys of the rollup tables.
TypeOK ==
  /\ today \in 0..MaxDay /\ covered \subseteq 0..today - 1
  /\ rows \subseteq collected /\ buffered \intersect collected = {}
  /\ \A e \in collected \union buffered : e.visitor \in Visitors /\ e.day \in 0..today
  /\ \A dim \in Dimensions : /\ tables[dim] \subseteq Row
                              /\ \A r, q \in tables[dim] : r.day = q.day /\ r.key = q.key => r = q
  /\ scroll \subseteq ScrollRow
  /\ \A r, q \in scroll : r.day = q.day /\ r.path = q.path => r = q

Init ==
  /\ today = 0 /\ buffered = {} /\ rows = {} /\ collected = {} /\ covered = {}
  /\ tables = [dim \in Dimensions |-> {}] /\ scroll = {}

-----------------------------------------------------------------------------
\* SQL.

\* SUM and MAX skip NULLs and are NULL when nothing is left.
SqlSum(f) ==
  LET D == {x \in DOMAIN f : f[x] # NULL}
  IN  IF D = {} THEN NULL ELSE SumFunctionOnSet(f, D)
SqlMax(S) == IF S \ {NULL} = {} THEN NULL ELSE Max(S \ {NULL})

Pageviews(E) == {e \in E : e.type = "pageview"}
PathAndSession(E) == {<<e.path, e.session>> : e \in E}

\* bounce_sessions: one pageview among the events at hand.
BounceSessions(E) ==
  {s \in {e.session : e \in E} : Cardinality({e \in Pageviews(E) : e.session = s}) = 1}

\* Deliberate fault: every event is a visitor.
EachEventCounts(G) == Cardinality(G)
CountDistinctVisitors(G) == Cardinality({e.visitor : e \in G})

\* The row that dimension_agg and bounce_agg make of the events of one key.
Aggregate(dim, day, key, E) ==
  LET G == {e \in E : KeyOf(dim, e) = key}
  IN  [day |-> day, key |-> key,
       pageviews |-> Cardinality(Pageviews(G)),
       visitors |-> CountDistinctVisitors(G),
       sessions |-> Cardinality({e.session : e \in G}),
       bounces |-> Cardinality({e \in Pageviews(G) : e.session \in BounceSessions(E)}),
       engagement |-> SqlSum([e \in G |-> IF e.type = "engagement" THEN e.value ELSE 0])]

Aggregated(dim, day, E) == {Aggregate(dim, day, key, E) : key \in Keys(dim, E)}

\* Deliberate fault: the depths of all milestones are added.
AllMilestones(S) == SqlSum([e \in S |-> e.value])
\* session_max: the deepest milestone of each session on a path, then their sum.
DepthSum(S) ==
  SqlSum([s \in {e.session : e \in S} |-> SqlMax({e.value : e \in {x \in S : x.session = s}})])

\* The row of a path, and the rows of all paths with a scroll event.
ScrollsOf(path, E) == {e \in E : e.type = "scroll" /\ e.path = path}
ScrollAggregate(day, path, E) ==
  [day |-> day, path |-> path, depthSum |-> DepthSum(ScrollsOf(path, E)),
   sessionCount |-> Cardinality({e.session : e \in ScrollsOf(path, E)})]

ScrolledPaths(E) == {e.path : e \in {x \in E : x.type = "scroll"}}
ScrollAggregated(day, E) == {ScrollAggregate(day, path, E) : path \in ScrolledPaths(E)}

-----------------------------------------------------------------------------
\* The writers.

SessionsOf(v) == {e.session[2] : e \in {x \in collected \union buffered : x.visitor = v}}
LatestDay(v) == {e.day : e \in {x \in collected \union buffered : x.visitor = v}}

\* An event opens a session, or continues the visitor's latest one if that is not too old.
Collect(v, h) ==
  /\ Cardinality(collected \union buffered) < MaxEvents
  /\ Cardinality(buffered) < MaxBuffered
  /\ \E n \in {Cardinality(SessionsOf(v)), Cardinality(SessionsOf(v)) + 1} :
       /\ n > 0 /\ (n \in SessionsOf(v) => \E d \in LatestDay(v) : d >= today - 1)
       /\ LET e(copy) == [day |-> today, visitor |-> v, session |-> <<v, n>>, type |-> h.type,
                          path |-> h.path, value |-> h.value, copy |-> copy]
              copies == {x \in collected \union buffered : x = e(x.copy)}
          IN  buffered' = buffered \union {e(Cardinality(copies))}
  /\ UNCHANGED <<today, database, collected, covered>>

Flush ==
  /\ buffered # {}
  /\ rows' = rows \union buffered /\ collected' = collected \union buffered
  /\ covered' = covered \ {e.day : e \in buffered}
  /\ buffered' = {}
  /\ UNCHANGED <<today, tables, scroll>>

\* The buffer is flushed within seconds: an event waits past one midnight at most.
Midnight ==
  /\ today < MaxDay /\ buffered = On(today, buffered)
  /\ today' = today + 1
  /\ UNCHANGED <<buffered, database, collected, covered>>

\* Deliberate fault: the day's old rows are not deleted.
Kept(day, table) == table
WithoutDay(day, table) == {r \in table : r.day # day}

\* Every column of the rollup tables is NOT NULL: one NULL rejects the whole transaction.
Accepted(metrics, depths) ==
  /\ \A dim \in Dimensions : \A r \in metrics[dim] : r.engagement # NULL
  /\ \A r \in depths : r.depthSum # NULL

\* Deliberate fault: without the transaction, the tables that accept their rows keep them.
RebuiltByTable(day, metrics, depths) ==
  /\ tables' = [dim \in Dimensions |->
                  IF \A r \in metrics[dim] : r.engagement # NULL
                  THEN WithoutDay(day, tables[dim]) \union metrics[dim] ELSE tables[dim]]
  /\ scroll' = WithoutDay(day, scroll) \union {r \in depths : r.depthSum # NULL}
Rebuilt(day, metrics, depths) ==
  IF Accepted(metrics, depths)
  THEN /\ tables' = [dim \in Dimensions |-> WithoutDay(day, tables[dim]) \union metrics[dim]]
       /\ scroll' = WithoutDay(day, scroll) \union depths
  ELSE UNCHANGED <<tables, scroll>>

\* SqliteRollupBuilder.execute for yesterday (before day 1 there is nothing to rebuild).
RollupBuild ==
  LET day == today - 1
  IN  /\ today > 0
      /\ Rebuilt(day, [dim \in Dimensions |-> Aggregated(dim, day, On(day, rows))],
                      ScrollAggregated(day, On(day, rows)))
      /\ covered' = covered \union {day}
      /\ UNCHANGED <<today, buffered, rows, collected>>

\* The cutoff falls somewhere in its day.
RetentionPurge ==
  LET cutoff == today - Retention IN
  /\ \E early \in SUBSET On(cutoff, rows) :
       rows' = {e \in rows : e.day >= cutoff} \ early
  /\ UNCHANGED <<today, buffered, tables, scroll, collected, covered>>

Next == \/ \E v \in Visitors, h \in Hits : Collect(v, h)
        \/ Flush \/ Midnight \/ RollupBuild \/ RetentionPurge

Spec == Init /\ [][Next]_vars

-----------------------------------------------------------------------------
\* The readers: QuerySiteMetrics and QuerySiteScrollDepth over the days from..to.

Closed(from, to, table) == {r \in table : from <= r.day /\ r.day <= to /\ r.day < today}

Open(from, to) == {e \in rows : from <= e.day /\ e.day <= to /\ e.day >= today}

MetricRows(dim, from, to) ==
  Closed(from, to, tables[dim]) \union Aggregated(dim, today, Open(from, to))
ScrollRows(from, to) == Closed(from, to, scroll) \union ScrollAggregated(today, Open(from, to))

\* A null adds like zero in JavaScript.
Amount(x) == IF x = NULL THEN 0 ELSE x

\* sumMetricRows, and mergeMetricRowsByKey for the rows of one key.
Merged(R) ==
  [pageviews |-> SumFunction([r \in R |-> r.pageviews]),
   visitors |-> SumFunction([r \in R |-> r.visitors]),
   sessions |-> SumFunction([r \in R |-> r.sessions]),
   bounces |-> SumFunction([r \in R |-> r.bounces]),
   engagement |-> SumFunction([r \in R |-> Amount(r.engagement)])]

Report(dim, from, to) ==
  LET R == MetricRows(dim, from, to)
  IN  [key \in {r.key : r \in R} |-> Merged({r \in R : r.key = key})]

\* Deliberate fault: the headline adds up the paths.
PathHeadline(from, to) == Merged(MetricRows("path", from, to))
\* The overview's totals add up the device breakdown.
Headline(from, to) == Merged(MetricRows("device", from, to))

ScrollDepth(from, to) ==
  LET R == ScrollRows(from, to)
      Of(path) == {r \in R : r.path = path}
  IN  [path \in {r.path : r \in R} |->
         [depthSum |-> SumFunction([r \in Of(path) |-> Amount(r.depthSum)]),
          sessionsWithData |-> SumFunction([r \in Of(path) |-> r.sessionCount])]]

-----------------------------------------------------------------------------
(* Properties *)

Ranges == {r \in (0..today) \X (0..today) : r[1] <= r[2]}
Days(r) == r[1]..r[2]
Sessions == {e.session : e \in collected}

\* A count over everything collected on a day, with no groups, joins or tables.
ExactOn(dim, key, d) ==
  LET E == On(d, collected)
      G == {e \in E : KeyOf(dim, e) = key}
  IN  [day |-> d,
       pageviews |-> Cardinality(Pageviews(G)),
       visitors |-> Cardinality({v \in Visitors : \E e \in G : e.visitor = v}),
       sessions |-> Cardinality({s \in Sessions : \E e \in G : e.session = s}),
       bounces |-> Cardinality({e \in Pageviews(G) :
                                  \A x \in Pageviews(E) : x.session = e.session => x = e}),
       engagement |-> SumFunction([e \in {x \in G : x.type = "engagement" /\ x.value # NULL} |->
                                     e.value])]

Exact(dim, r) ==
  [key \in Keys(dim, {e \in collected : e.day \in Days(r)}) |->
     Merged({x \in {ExactOn(dim, key, d) : d \in Days(r)} : x.sessions > 0})]

\* A key whose events of the day are all engagement without a value, or a path whose
\* scroll events are: their sum is NULL.
Unaccountable(d) ==
  \/ \E dim \in Dimensions : \E key \in Keys(dim, On(d, collected)) :
       \A e \in On(d, collected) :
          KeyOf(dim, e) = key => e.type = "engagement" /\ e.value = NULL
  \/ \E e \in On(d, collected) :
       /\ e.type = "scroll"
       /\ \A x \in On(d, collected) : x.type = "scroll" /\ x.path = e.path => x.value = NULL

Served(r) == \A d \in Days(r) : d < today => d \in covered /\ ~ Unaccountable(d)

(* A report over closed days and today is what a count over all events would say,  *)
(* key by key and metric by metric, whatever was flushed late, rebuilt twice or    *)
(* purged, once a rollup run has covered its closed days and none is unaccountable.*)
ReportsAreExact ==
  \A dim \in Dimensions, r \in Ranges : Served(r) => Report(dim, r[1], r[2]) = Exact(dim, r)

(* The overview's totals count people: each day's distinct visitors and sessions,  *)
(* once however many pages they saw.                                               *)
HeadlineCountsPeople ==
  \A r \in Ranges : Served(r) =>
    LET headline == Headline(r[1], r[2])
        seen == {e \in collected : e.day \in Days(r)}
    IN  /\ headline.visitors = Cardinality({<<e.day, e.visitor>> : e \in seen})
        /\ headline.sessions = Cardinality({<<e.day, e.session>> : e \in seen})

(* The depth reported for a page adds up, for each day and session, the deepest    *)
(* milestone it reached: a session that reaches 75% counts 75, not 25 + 50 + 75.   *)
(* The sessions it is the mean of are those that scrolled, each once a day.        *)
ScrollCountsTheDeepest ==
  \A r \in Ranges : Served(r) =>
    LET depth == ScrollDepth(r[1], r[2])
        scrolled(path) ==
          {e \in collected : e.type = "scroll" /\ e.path = path /\ e.day \in Days(r)}
        reached(path) == UNION {{<<e.day, e.session, m>> : m \in 1..e.value} :
                                  e \in {x \in scrolled(path) : x.value # NULL}}
    IN  \A path \in DOMAIN depth :
          /\ depth[path].depthSum = Cardinality(reached(path))
          /\ depth[path].sessionsWithData
               = Cardinality({<<e.day, e.session>> : e \in scrolled(path)})

(* Every breakdown of one range adds up to the same views, bounces and engagement, *)
(* served or not: the tables are never from different runs.                        *)
BreakdownsAgree ==
  \A r \in Ranges :
    LET paths == Merged(MetricRows("path", r[1], r[2]))
        devices == Merged(MetricRows("device", r[1], r[2]))
    IN  /\ paths.pageviews = devices.pageviews /\ paths.bounces = devices.bounces
        /\ paths.engagement = devices.engagement

(* Completed days are served from the rollup tables (the requirement of the        *)
(* reporting specification): after a run of the rollup job, yesterday is exact.    *)
CompletedDaysAreServed ==
  \A d \in covered : Report("path", d, d) = Exact("path", <<d, d>>)
=============================================================================
