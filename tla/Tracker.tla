--------------------------------- MODULE Tracker ---------------------------------
(* The browser tracker on one page: the script decides once whether to measure,    *)
(* then reports page views, scroll milestones, engagement and vitals as the        *)
(* browser calls its listeners.  The browser is external: it changes the location, *)
(* the visibility and the scroll offset at any moment, in any order, and may keep  *)
(* the page in its back/forward cache.  A listener runs to its end, so a call is   *)
(* one step.  The clock is in ticks, PerSecond of them to a second.                *)
EXTENDS Integers, Selection

CONSTANTS Hrefs,      \* addresses the page may have
          Signals,    \* what the script may find when it is loaded
          Offsets,    \* window.scrollY
          Heights,    \* scrollHeight - innerHeight
          Kinds,      \* other events: outbound, download, goal, LCP, INP
          PerSecond,
          NULL

CONSTANTS MaxTime, MaxSent, MaxViews, MaxShift  \* bounds

ASSUME TrackerAssumption ==
  /\ Offsets \subseteq Nat /\ Heights \subseteq Int /\ PerSecond \in Nat \ {0}
  /\ MaxTime \in Nat /\ MaxSent \in Nat /\ MaxViews \in Nat /\ MaxShift \in Nat
  /\ NULL \notin Nat /\ Kinds \subseteq STRING \ {"pageview", "engagement", "scroll"}

VARIABLES
  signals,     \* ConsentSignals, as found at the load
  phase,       \* "loading", "open", or "leaving" once pagehide was fired
  location,
  visibility,  \* document.visibilityState
  now,
  listening,   \* the script went on to register its listeners
  tracker,     \* the variables of its closure, and what it has handed to the browser
  views        \* the visit as it was: one record per stay on a path (history)

browser == <<phase, location, visibility, now>>
vars == <<signals, browser, listening, tracker, views>>

SCROLL_MILESTONES == <<25, 50, 75, 100>>
DO_NOT_TRACK_ENABLED == {"1", "yes", "true"}

\* Math.round of n / d: a half goes up.
Round(n, d) == (2 * n + d) \div (2 * d)

\* A path is what sanitizePagePath leaves of an address: its segments and its parameters.
Segment == [looks : {"plain", "email", "uuid", "digits", "token"}, text : STRING]
Named == {s \in Segment : s.text # ""}
Path == [segments : Seq(Segment), params : SUBSET STRING]
Payload == [type : {"pageview", "engagement", "scroll", "vitals"} \cup Kinds,
            path : Path, value : Nat]
View == [path : Path, born : {"visible", "hidden", "prerender"},
         seen : Nat, deepest : 0..100]

\* The time a view has accumulated never exceeds the time there was.
TypeOK ==
  /\ signals \in Signals /\ phase \in {"loading", "open", "leaving"} /\ location \in Hrefs
  /\ visibility \in {"visible", "hidden", "prerender"} /\ now \in 0..MaxTime
  /\ listening \in BOOLEAN /\ views \in Seq(View)
  /\ tracker.currentPath \in Path \cup {NULL} /\ tracker.deepestScroll \in 0..100
  /\ tracker.engagement.accumulated \in 0..now /\ tracker.clsValue \in Nat
  /\ tracker.engagement.shownAt \in 0..now \cup {NULL}
  /\ tracker.sent \in Seq(Payload)

ALLOWED_QUERY_PARAMS ==
  {"utm_source", "utm_medium", "utm_campaign", "utm_content", "utm_term", "ref"}
Marker == [email |-> ":email", uuid |-> ":uuid", digits |-> ":id", token |-> ":token"]
redactSegment(s) ==
  IF s.looks \in DOMAIN Marker THEN [looks |-> "plain", text |-> Marker[s.looks]] ELSE s

\* Deliberate fault: the query is kept as it is.
KeepsQuery(href) ==
  LET named == SelectIn(href.segments, Named)
  IN [segments |-> [i \in DOMAIN named |-> redactSegment(named[i])], params |-> href.params]
\* Double and trailing slashes are empty segments, and the fragment is dropped.
sanitizePagePath(href) ==
  LET named == SelectIn(href.segments, Named)
  IN [segments |-> [i \in DOMAIN named |-> redactSegment(named[i])],
      params |-> href.params \cap ALLOWED_QUERY_PARAMS]

\* No path is the empty string, which NULL stands for.
ASSUME PageAssumption ==
  /\ \A href \in Hrefs : /\ href.segments \in Seq(Segment) /\ href.params \subseteq STRING
                         /\ sanitizePagePath(href) # NULL
  /\ \A l \in DOMAIN Marker : Marker[l] \in STRING
  /\ Signals \subseteq [doNotTrack : STRING, globalPrivacyControl : BOOLEAN, protocol : STRING,
                       visibilityState : {"visible", "hidden", "prerender"}, isLocal : BOOLEAN]

\* Whether the page is measured at all.  doNotTrack is in lower case, or "" when unset.
shouldTrack(s) ==
  /\ ~s.globalPrivacyControl
  /\ s.doNotTrack \notin DO_NOT_TRACK_ENABLED
  /\ s.visibilityState # "prerender"
  /\ s.protocol # "file:" /\ ~s.isLocal

-----------------------------------------------------------------------------------
(* The engagement timer. *)

createEngagementTimer == [accumulated |-> 0, shownAt |-> now]

\* Deliberate fault: the time is added and the clock runs on.
HideRunsOn(e) ==
  IF e.shownAt = NULL THEN e
  ELSE [accumulated |-> e.accumulated + (now - e.shownAt), shownAt |-> e.shownAt]
hide(e) ==
  IF e.shownAt = NULL THEN e
  ELSE [accumulated |-> e.accumulated + (now - e.shownAt), shownAt |-> NULL]

show(e) == IF e.shownAt = NULL THEN [e EXCEPT !.shownAt = now] ELSE e

\* Date.now() - shownAt is 0 for a timer that does not run.
visibleSeconds(e) ==
  LET live == IF e.shownAt = NULL THEN 0 ELSE now - e.shownAt
  IN Round(e.accumulated + live, PerSecond)

-----------------------------------------------------------------------------------
(* What the listeners do, as functions of the closure's variables t. *)

Event(t, type, value) == [type |-> type, path |-> t.currentPath, value |-> value]

\* By fetch or by beacon; an error of either is swallowed.
send(t, type, value) == [t EXCEPT !.sent = Append(@, Event(t, type, value))]

flushEngagement(t) ==
  LET seconds == visibleSeconds(t.engagement)
  IN IF seconds <= 0 THEN t ELSE send(t, "engagement", seconds)

\* Deliberate fault: a path seen before is tracked again when the address changes.
TrackAnyway(t, path) ==
  send([t EXCEPT !.currentPath = path, !.deepestScroll = 0,
                 !.engagement = createEngagementTimer], "pageview", 0)
\* An address that is reported under the same path is the same page view.
trackPageview(t, path) ==
  IF path = t.currentPath THEN t
  ELSE send([t EXCEPT !.currentPath = path, !.deepestScroll = 0,
                      !.engagement = createEngagementTimer], "pageview", 0)

newlyCrossedMilestones(previousMax, current) ==
  SelectIn(SCROLL_MILESTONES, (previousMax + 1)..current)

\* Deliberate fault: the point reached last, not the deepest.
ScrolledLast(t, percent) ==
  LET crossed == newlyCrossedMilestones(t.deepestScroll, percent)
  IN [t EXCEPT !.sent = @ \o [i \in DOMAIN crossed |-> Event(t, "scroll", crossed[i])],
               !.deepestScroll = percent]
Scrolled(t, percent) ==
  LET crossed == newlyCrossedMilestones(t.deepestScroll, percent)
  IN [t EXCEPT !.sent = @ \o [i \in DOMAIN crossed |-> Event(t, "scroll", crossed[i])],
               !.deepestScroll = Max({@, percent})]

sendCls(t) == IF t.clsValue > 0 THEN send(t, "vitals", t.clsValue) ELSE t

-----------------------------------------------------------------------------------
\* currentPath is the empty string, which is no path.
Unloaded == [currentPath |-> NULL, deepestScroll |-> 0, clsValue |-> 0, sent |-> <<>>,
             engagement |-> [accumulated |-> 0, shownAt |-> NULL]]

NewView(href) ==
  [path |-> sanitizePagePath(href), born |-> visibility, seen |-> 0, deepest |-> 0]

Init ==
  /\ signals \in Signals /\ visibility = signals.visibilityState
  /\ phase = "loading" /\ location \in Hrefs /\ now = 0
  /\ listening = FALSE /\ tracker = Unloaded /\ views = <<NewView(location)>>

\* The script: it measures or returns, for as long as the page lives.
Load ==
  /\ phase = "loading" /\ phase' = "open"
  /\ listening' = shouldTrack(signals)
  /\ tracker' = IF listening' THEN trackPageview(tracker, sanitizePagePath(location)) ELSE tracker
  /\ UNCHANGED <<signals, location, visibility, now, views>>

\* A listener leaves the closure as t; on a page that is not measured there is none.
Handle(t) ==
  /\ tracker' = IF listening THEN t ELSE tracker
  /\ Len(tracker'.sent) <= MaxSent
  /\ UNCHANGED <<signals, listening>>

Here(f(_)) == [views EXCEPT ![Len(views)] = f(@)]

Tick ==
  /\ phase # "loading" /\ now < MaxTime /\ now' = now + 1
  /\ phase = "leaving" => visibility # "visible"
  /\ views' = Here(LAMBDA v : [v EXCEPT !.seen =
                     IF visibility = "visible" /\ phase = "open" THEN @ + 1 ELSE @])
  /\ UNCHANGED <<phase, location, visibility>> /\ Handle(tracker)

\* Deliberate fault: the engagement is reported after the new page has been tracked.
TrackedThenFlushed(t, path) == flushEngagement(trackPageview(t, path))
\* The wrapped pushState and replaceState, and popstate: the address has changed already.
Navigated(t, path) == trackPageview(flushEngagement(t), path)

Navigate(href) ==
  /\ phase = "open" /\ location' = href
  /\ Handle(Navigated(tracker, sanitizePagePath(href)))
  /\ views' = IF sanitizePagePath(href) = sanitizePagePath(location) THEN views
              ELSE Append(views, NewView(href))
  /\ Len(views') <= MaxViews /\ UNCHANGED <<phase, visibility, now>>

\* An offset beyond the end (overscroll) counts as the end.
Scroll(y, scrollable) ==
  LET percent == Min({100, Round(100 * y, scrollable)})
  IN /\ phase = "open" /\ scrollable > 0
     /\ Handle(Scrolled(tracker, percent))
     /\ views' = Here(LAMBDA v : [v EXCEPT !.deepest = Max({@, percent})])
     /\ UNCHANGED browser

\* Links, downloads, goals and the vitals reported as they are observed.
Report(kind) == phase = "open" /\ Handle(send(tracker, kind, 0)) /\ UNCHANGED <<browser, views>>

\* A shift that follows an input is not counted.
LayoutShift ==
  /\ phase = "open" /\ tracker.clsValue < MaxShift
  /\ Handle([tracker EXCEPT !.clsValue = @ + 1]) /\ UNCHANGED <<browser, views>>

Hide ==
  /\ phase # "loading" /\ visibility = "visible" /\ visibility' = "hidden"
  /\ Handle(flushEngagement([tracker EXCEPT !.engagement = hide(@)]))
  /\ UNCHANGED <<phase, location, now, views>>

\* A prerendered page becomes visible the same way.
Show ==
  /\ phase = "open" /\ visibility # "visible" /\ visibility' = "visible"
  /\ Handle([tracker EXCEPT !.engagement = show(@)])
  /\ UNCHANGED <<phase, location, now, views>>

\* Both listeners of pagehide.  The browser hides a visible page next.
PageHide ==
  /\ phase = "open" /\ phase' = "leaving"
  /\ Handle(sendCls(flushEngagement(tracker)))
  /\ UNCHANGED <<location, visibility, now, views>>

\* The page comes back from the back/forward cache, its script as it was.
Restore ==
  /\ phase = "leaving" /\ visibility # "visible" /\ phase' = "open"
  /\ UNCHANGED <<location, visibility, now, views>> /\ Handle(tracker)

Next ==
  \/ Load \/ Tick \/ Hide \/ Show \/ PageHide \/ Restore \/ LayoutShift
  \/ \E href \in Hrefs : Navigate(href)
  \/ \E y \in Offsets, scrollable \in Heights : Scroll(y, scrollable)
  \/ \E kind \in Kinds : Report(kind)
Spec == Init /\ [][Next]_vars

-----------------------------------------------------------------------------------
(* Properties: what is sent, read as the server reads it, against the visit.        *)

Sent(i) == tracker.sent[i]
\* The page views reported up to event i, and the events of view v of one type.
ViewOf(i) == Quantify(1..i, LAMBDA j : Sent(j).type = "pageview")
Reports(v, type) == {i \in DOMAIN tracker.sent : ViewOf(i) = v /\ Sent(i).type = type}
LastReport(v) ==
  LET r == Reports(v, "engagement") IN IF r = {} THEN 0 ELSE Sent(Max(r)).value

\* A visitor who asked not to be tracked, by Do Not Track or by Global Privacy Control.
OptedOut == signals.doNotTrack \in DO_NOT_TRACK_ENABLED \/ signals.globalPrivacyControl
\* A page nobody visits: a prerender, a file, a local host.
Unvisited ==
  signals.visibilityState = "prerender" \/ signals.protocol = "file:" \/ signals.isLocal

\* An opt-out is silent for as long as the page lives, whatever the visitor does on it, and
\* no event, whatever it reports, carries an identifier-shaped segment or a parameter other
\* than a campaign's in its path (consent.ts, payload.ts:50-52, PagePath.ts).
NothingPersonalIsSent ==
  \A i \in DOMAIN tracker.sent :
    /\ ~OptedOut /\ ~Unvisited
    /\ Sent(i).path.params \subseteq ALLOWED_QUERY_PARAMS
    /\ \A k \in DOMAIN Sent(i).path.segments : Sent(i).path.segments[k].looks = "plain"

\* Every stay on a path is one page view, reported once and in order, and every later event
\* names the page it happened on, whichever of the listeners ran first (tracker.ts:70-100).
EventsNameTheirPage ==
  listening =>
    /\ Quantify(DOMAIN tracker.sent, LAMBDA i : Sent(i).type = "pageview") = Len(views)
    /\ \A i \in DOMAIN tracker.sent :
         ViewOf(i) \in DOMAIN views /\ Sent(i).path = views[ViewOf(i)].path

\* Each milestone is reported once per page view if it was reached and never otherwise, with
\* the page growing, the visitor scrolling back and other views between (tracker.ts:103-116).
MilestonesReportedOnce ==
  listening =>
    \A v \in DOMAIN views, m \in {SCROLL_MILESTONES[k] : k \in DOMAIN SCROLL_MILESTONES} :
      Quantify(Reports(v, "scroll"), LAMBDA i : Sent(i).value = m)
        = IF m <= views[v].deepest THEN 1 ELSE 0

\* A view that began visible has, once it is left or out of sight, last reported exactly the
\* time it was visible: none of it is lost to a navigation, a close or the cache, and no time
\* behind another tab is in it (tracker.ts:70-99, 143-151).
LastReportIsWhole ==
  listening =>
    \A v \in DOMAIN views :
      /\ views[v].born = "visible"
      /\ v < Len(views) \/ visibility # "visible" \/ phase = "leaving"
      => LastReport(v) = Round(views[v].seen, PerSecond)

\* Taken from specs/browser-tracker/spec.md: engagement excludes time while hidden.  The
\* server adds the reports up, so their sum may not exceed the time the view was visible.
EngagementIsVisibleTime ==
  \A v \in DOMAIN views :
    MapThenSumSet(LAMBDA i : Sent(i).value, Reports(v, "engagement"))
      <= Round(views[v].seen, PerSecond)
===================================================================================
