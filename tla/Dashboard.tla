--------------------------------- MODULE Dashboard ---------------------------------
(* The pages an administrator reads: the sites page, and a site's overview, which   *)
(* is put together from a dozen separate queries.  Neither keeps any state, and the *)
(* queries of one page run to their end within one callback of the event loop, so   *)
(* they see one database; the clock is taken not to pass midnight meanwhile.        *)
EXTENDS Reporting

CONSTANTS Deepest,       \* the value of the last scroll milestone
          TrailingDays   \* how many days the range selector's entries reach back

ASSUME DashboardAssumption ==
  /\ Deepest \in Nat
  /\ \A h \in Hits : h.type = "scroll" => h.value = NULL \/ h.value <= Deepest
  /\ TrailingDays \subseteq Nat \ {0} /\ 1 \in TrailingDays

-----------------------------------------------------------------------------
\* The overview of a range that ends today.

StartOf(n) == today - (n - 1)

Totals(n) == Headline(StartOf(n), today)

\* The chart's days are queried one by one, unless the range has only one.
DailyVisitors(n) ==
  [d \in StartOf(n)..today |-> IF n = 1 THEN Totals(n).visitors ELSE Headline(d, d).visitors]

\* Deliberate fault: depths are counted in sessions, and compared with page views.
ViewsOf(row) == row.pageviews
CoverageOf(row) == row.sessions

\* toScrollDepthRows: sessions that scrolled, out of the sessions that saw the page.
ScrollDepthRows(n) ==
  LET depths == ScrollDepth(StartOf(n), today)
      paths == Report("path", StartOf(n), today)
      measured == {path \in DOMAIN depths : depths[path].sessionsWithData # 0}
  IN  [path \in measured |->
         [depthSum |-> depths[path].depthSum,
          sessionsWithData |-> depths[path].sessionsWithData,
          totalSessions |-> IF path \in DOMAIN paths THEN CoverageOf(paths[path]) ELSE 0]]

\* formatPercent: a fraction in tenths of a percent, halves rounded up.
Percent(part, whole) == IF whole = 0 THEN 0 ELSE (2000 * part + whole) \div (2 * whole)
BounceRate(n) == Percent(Totals(n).bounces, Totals(n).sessions)

HasAnyData(n) ==
  \/ \E dim \in Dimensions : Report(dim, StartOf(n), today) # <<>>
  \/ \E f \in {"visitors", "pageviews", "sessions", "bounces"} : Totals(n)[f] # 0

-----------------------------------------------------------------------------
\* The sites page: whether anything has arrived, and when it did so last.

SiteActivity ==
  [totalEvents |-> Cardinality(rows),
   lastEvent |-> IF rows = {} THEN NULL ELSE Max({e.day : e \in rows})]

-----------------------------------------------------------------------------
(* Properties *)

(* The parts of an overview, each from a query of its own, fit together, rollups   *)
(* built or not: the chart's days add up to the headline's visitors, no bounce rate*)
(* or mean depth is above 100%, and no page was scrolled in more sessions than saw *)
(* it.  Once its days are served, a page without data means that nothing happened; *)
(* and a site shown as silent has heard nothing within the retention.              *)
PagesAreConsistent ==
  /\ \A n \in TrailingDays :
       LET chart == DailyVisitors(n)
           scrolled == ScrollDepthRows(n)
           served == \A d \in StartOf(n)..(today - 1) : d >= 0 => Served(<<d, d>>)
       IN  /\ SumFunction(chart) = Totals(n).visitors
           /\ BounceRate(n) <= 1000
           /\ \A path \in DOMAIN scrolled :
                /\ scrolled[path].sessionsWithData <= scrolled[path].totalSessions
                /\ scrolled[path].depthSum <= Deepest * scrolled[path].sessionsWithData
           /\ served /\ ~ HasAnyData(n) => \A e \in collected : e.day < StartOf(n)
  /\ SiteActivity.totalEvents = 0 => \A e \in collected : e.day <= today - Retention
=============================================================================
