-------------------------------- MODULE MCTracker --------------------------------
EXTENDS Tracker

\* "/", "/?secret=..#top", and two orders that differ in their number.
MCHrefs ==
  LET Plain(t) == [looks |-> "plain", text |-> t]
      Number(t) == [looks |-> "digits", text |-> t]
  IN {[segments |-> <<Plain("")>>, params |-> {}, fragment |-> ""],
      [segments |-> <<Plain("")>>, params |-> {"secret"}, fragment |-> "top"],
      [segments |-> <<Plain("order"), Number("1234567")>>, params |-> {"ref"}, fragment |-> ""],
      [segments |-> <<Plain("order"), Number("7654321")>>, params |-> {"ref"}, fragment |-> ""]}

\* A measured page, one opened in the background, and each reason to be silent alone.
MCSignals ==
  LET page == [doNotTrack |-> "unspecified", globalPrivacyControl |-> FALSE,
               visibilityState |-> "visible", protocol |-> "https:", isLocal |-> FALSE]
  IN {page, [page EXCEPT !.visibilityState = "hidden"],
      [page EXCEPT !.doNotTrack = "1"], [page EXCEPT !.globalPrivacyControl = TRUE],
      [page EXCEPT !.visibilityState = "prerender"],
      [page EXCEPT !.protocol = "file:"], [page EXCEPT !.isLocal = TRUE]}
===================================================================================
