--------------------------------- MODULE MCCollect ---------------------------------
EXTENDS Collect

Address(host, www, dot, path) == [host |-> host, www |-> www, dot |-> dot, path |-> path]

\* The operator lists one site with "www.", one without, and a name no site may have.
MCSites == {Address("a.org", 1, FALSE, Home), Address("b.org", 0, TRUE, Home),
            Address("10.0.0.1", 0, FALSE, Home)}
MCIpLiterals == {"10.0.0.1"}
MCKnownSources == [h \in {"google.com"} |-> "Google"]
MCCampaigns == [p \in {"/?utm_source=x"} |-> "x"]
MCDottedPaths == {"/a..b"}

Page(host, www, path) == Address(host, www, FALSE, path)
Beacon(client, page, type, from) ==
  [via |-> "beacon", client |-> client, page |-> page, policy |-> "origin", type |-> type,
   from |-> from, bucket |-> "md", width |-> NULL]
Pixel(client, page, policy) ==
  [via |-> "pixel", client |-> client, page |-> page, policy |-> policy, type |-> NULL,
   from |-> NULL, bucket |-> NULL, width |-> NULL]

\* One visit for each case of the handlers; more pages would only add limiter keys.
MCVisits ==
  {Beacon("c1", Page("a.org", 0, "/x"), "pageview", from) :
     from \in {NULL, Address("a.org", 1, FALSE, Home), Address("a.org", 0, TRUE, Home),
               Address("google.com", 1, FALSE, Home)}}
  \union {Beacon("c1", Page("a.org", 0, "/x"), type, NULL) : type \in {"bogus", NULL}}
  \union {Beacon("c2", Page("a.org", 0, "/?utm_source=x"), "pageview",
                 Address("a.org", 0, FALSE, Home)),
          [Beacon("c1", Page("a.org", 0, Home), "pageview", Address("a.org", 0, FALSE, Home))
             EXCEPT !.bucket = "huge", !.width = 768],
          Beacon("c1", Address("b.org", 0, TRUE, Home), "vitals", Page("a.org", 0, Home)),
          Beacon("c1", Page("z.org", 0, Home), "pageview", NULL),
          Beacon("c1", Page("10.0.0.1", 0, Home), "pageview", NULL),
          Pixel("c1", Page("a.org", 0, "/x"), "none"),
          Pixel("c1", Page("a.org", 0, "/x"), "origin"),
          Pixel("c1", Page("a.org", 1, "/x"), "full"),
          Pixel("c1", Page("a.org", 0, "/a..b"), "full")}

\* The site headers and addresses those visits come with.
MCCallers == <<<<Page("a.org", 0, Home), "c1">>, <<Page("a.org", 0, Home), "c2">>,
               <<Page("a.org", 1, "/x"), "c1">>, <<Page("a.org", 0, "/a..b"), "c1">>,
               <<Address("b.org", 0, TRUE, Home), "c1">>,
               <<Page("z.org", 0, Home), "c1">>, <<Page("10.0.0.1", 0, Home), "c1">>>>
MCKeys == DOMAIN MCCallers
MCKeyFor == [c \in Range(MCCallers) |-> CHOOSE n \in MCKeys : MCCallers[n] = c]
=============================================================================
