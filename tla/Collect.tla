---------------------------------- MODULE Collect ----------------------------------
(* From a browser's request to a row of its site: the collect routes identify the  *)
(* site by a header, spend a token of the limiter of RateLimiter, and hand what    *)
(* passes to RecordEvent, whose events a transaction stores with the site's row.   *)
(* The order of awaits, the buffer's limits and crashes are in Ingest; here every  *)
(* request is a step, and what is asked is which visits are measured, as what, and *)
(* for which site.  An address stands for a URL: its host without any leading      *)
(* "www." and trailing dot, those two apart, and its path with its query.          *)
EXTENDS RateLimiter, Selection

CONSTANTS Sites,         \* the addresses in TADORU_SITES
          IpLiterals,    \* hosts that are IP addresses
          KnownSources,  \* from the hosts of well-known sources to their names
          Campaigns,     \* from the paths with a utm_source to its value
          DottedPaths,   \* paths with two dots in a row
          keyFor,        \* from pairs of a header and an ip address to the limiter's keys
          TrustedProxy,  \* TADORU_TRUSTED_PROXY, TRUE behind a reverse proxy
          Visits,        \* what browsers may do
          NULL

CONSTANT MaxVisits  \* bound

VARIABLES
  pending,  \* recorded events that wait for the next flush
  sites,    \* the sites table: row n is the site with id n
  rows,     \* the events table
  visits,   \* requests so far (history)
  heard     \* the visits given a token since the latest flush (history)

collectVars == <<pending, sites, rows, visits, heard>>

EventTypes == {"pageview", "engagement", "custom", "outbound", "vitals"}
Home == "/"

-----------------------------------------------------------------------------
(* The browser *)

Origin(page) == [page EXCEPT !.path = Home]

Body(v) == [type |-> v.type, path |-> v.page.path, referrer |-> v.from,
            bucket |-> v.bucket, width |-> v.width]

\* A beacon carries the origin of its page and a body; a pixel what the page's
\* referrer policy lets through.  A proxy appends the address it was called from.
Request(v) ==
  [origin    |-> IF v.via = "beacon" THEN Origin(v.page) ELSE NULL,
   referer   |-> CASE v.policy = "none" -> NULL
                   [] v.policy = "origin" -> Origin(v.page)
                   [] v.policy = "full" -> v.page,
   socket    |-> IF TrustedProxy THEN "proxy" ELSE v.client,
   forwarded |-> IF TrustedProxy THEN v.client ELSE NULL,
   body      |-> IF v.via = "beacon" THEN Body(v) ELSE NULL]

-----------------------------------------------------------------------------
(* The collect routes *)

resolveClientIp(request) ==
  IF TrustedProxy /\ request.forwarded # NULL THEN request.forwarded ELSE request.socket

resolveSiteHeader(request) ==
  IF request.origin # NULL THEN request.origin ELSE request.referer

\* The limiter's key is the header as it came, path and all.
Key(request) == keyFor[resolveSiteHeader(request), resolveClientIp(request)]

pathFromReferer(referer) == IF referer = NULL THEN Home ELSE referer.path

\* What the route passes on; a pixel names no type, referrer or screen.
RecordEventInput(request) ==
  LET body == request.body IN
  [site |-> resolveSiteHeader(request), ip |-> resolveClientIp(request),
   type |-> IF body = NULL THEN "pageview" ELSE body.type,
   path |-> IF body = NULL THEN pathFromReferer(request.referer) ELSE body.path,
   referrer |-> IF body = NULL THEN NULL ELSE body.referrer,
   bucket |-> IF body = NULL THEN NULL ELSE body.bucket,
   width |-> IF body = NULL THEN NULL ELSE body.width]

ASSUME CollectAssumption ==
  \A v \in Visits : LET request == Request(v) IN
    resolveSiteHeader(request) # NULL => Key(request) \in Keys

\* An address is a URL, and NULL none of the values it stands beside.
ASSUME VisitsAssumption ==
  \A v \in Visits :
    /\ v.via \in {"beacon", "pixel"} /\ v.policy \in {"none", "origin", "full"}
    /\ v.page \in [host : {v.page.host}, www : Nat, dot : BOOLEAN, path : {v.page.path}]
    /\ v.from # NULL => v.from.www \in Nat
    /\ NULL \notin {v.page, Origin(v.page), Body(v), [host |-> v.page.host, www |-> 0]}
    /\ v.client # NULL /\ NULL \notin EventTypes

\* An operator lists URLs of sites, with at most one leading "www.".
ASSUME SitesAssumption ==
  /\ Home \notin DottedPaths /\ TrustedProxy \in BOOLEAN
  /\ \A s \in Sites : s.www \in {0, 1} /\ s.path \notin DottedPaths

-----------------------------------------------------------------------------
(* RecordEvent *)

StripWww(www) == IF www > 0 THEN www - 1 ELSE 0

\* Deliberate fault: the host is kept as the browser names it.
HostAsNamed(address) ==
  IF address.path \in DottedPaths \/ address.host \in IpLiterals THEN NULL
  ELSE [host |-> address.host, www |-> address.www]
\* Scheme, port and path are dropped, then trailing dots and one "www.".  Two dots
\* in a row anywhere in the header, its path included, are refused.
createSiteId(address) ==
  IF address.path \in DottedPaths \/ address.host \in IpLiterals THEN NULL
  ELSE [host |-> address.host, www |-> StripWww(address.www)]

parseSites == {createSiteId(s) : s \in Sites} \ {NULL}
SiteAddress(site) == [host |-> site.host, www |-> site.www, dot |-> FALSE, path |-> Home]

\* The constructor normalises the configured sites a second time.
allowedSites == {createSiteId(SiteAddress(s)) : s \in parseSites} \ {NULL}

\* Breakpoints of the six buckets.
bucketScreenWidth(width) ==
  CASE width < 640 -> "xs" [] width < 768 -> "sm" [] width < 1024 -> "md"
    [] width < 1280 -> "lg" [] width < 1536 -> "xl" [] OTHER -> "2xl"

resolveScreenBucket(input) ==
  IF input.bucket \in {"xs", "sm", "md", "lg", "xl", "2xl"} THEN input.bucket
  ELSE IF input.width # NULL THEN bucketScreenWidth(input.width) ELSE NULL

Source(kind, name) == [kind |-> kind, name |-> name]

\* A trailing dot stays on a referrer, and such a host is neither the site nor known.
classifyKnownHost(from) ==
  IF StripWww(from.www) = 0 /\ ~ from.dot /\ from.host \in DOMAIN KnownSources
  THEN Source("known", KnownSources[from.host]) ELSE Source("host", from.host)

\* Deliberate fault: the referrer's host is compared as it is.
SourceAsNamed(from, site, utm) ==
  CASE utm # NULL -> Source("campaign", utm)
    [] utm = NULL /\ from = NULL -> Source("direct", NULL)
    [] utm = NULL /\ from # NULL ->
         IF from.host = site.host /\ from.www = site.www /\ ~ from.dot
         THEN Source("internal", NULL) ELSE classifyKnownHost(from)
resolveReferrerSource(from, site, utm) ==
  CASE utm # NULL -> Source("campaign", utm)
    [] utm = NULL /\ from = NULL -> Source("direct", NULL)
    [] utm = NULL /\ from # NULL ->
         IF from.host = site.host /\ StripWww(from.www) = site.www /\ ~ from.dot
         THEN Source("internal", NULL) ELSE classifyKnownHost(from)

extractUtmSource(path) == IF path \in DOMAIN Campaigns THEN Campaigns[path] ELSE NULL

TrackedEvent(input) ==
  LET site == createSiteId(input.site) IN
  [site |-> site, visitor |-> <<site, input.ip>>, type |-> input.type, path |-> input.path,
   source |-> resolveReferrerSource(input.referrer, site, extractUtmSource(input.path)),
   screen |-> resolveScreenBucket(input)]

\* A body needs a type and a path that are strings before RecordEvent sees it: a NULL
\* type stands for either being something else.
Recorded(request) ==
  LET input == RecordEventInput(request) IN
  IF /\ input.type # NULL
     /\ createSiteId(input.site) \in allowedSites
     /\ input.type \in EventTypes
  THEN <<TrackedEvent(input)>> ELSE <<>>

\* A token is spent before the body is looked at, and by a request that is dropped.
Collect(v) ==
  /\ visits < MaxVisits /\ visits' = visits + 1
  /\ LET request == Request(v) IN
     \/ /\ resolveSiteHeader(request) = NULL
        /\ UNCHANGED <<vars, pending, heard>>
     \/ /\ resolveSiteHeader(request) # NULL
        /\ Consume(Key(request))
        /\ IF TokenLeft(Refilled(Found(Key(request))))
           THEN pending' = pending \o Recorded(request) /\ heard' = Append(heard, v)
           ELSE UNCHANGED <<pending, heard>>
  /\ UNCHANGED <<sites, rows>>

-----------------------------------------------------------------------------
(* Storing *)

\* idFor: a site gets its row on first sight.
Registered(table, site) ==
  IF \E n \in DOMAIN table : table[n] = site THEN table ELSE Append(table, site)

Inserted(db, event) ==
  LET table == Registered(db.sites, event.site) IN
  [sites |-> table,
   rows |-> Append(db.rows, [site |-> CHOOSE n \in DOMAIN table : table[n] = event.site,
                             event |-> event])]

saveBatch == FoldLeft(Inserted, [sites |-> sites, rows |-> rows], pending)

\* Deliberate fault: a site is registered outside the transaction.
RegisteredAnyway == sites' = saveBatch.sites /\ UNCHANGED rows
RolledBack == UNCHANGED <<sites, rows>>

\* One transaction: a batch that fails takes its new sites with it.
Flush == /\ pending # <<>>
         /\ pending' = <<>> /\ heard' = <<>>
         /\ \/ sites' = saveBatch.sites /\ rows' = saveBatch.rows
            \/ RolledBack
         /\ UNCHANGED <<vars, visits>>

CollectInit == Init /\ pending = <<>> /\ sites = <<>> /\ rows = <<>>
                    /\ visits = 0 /\ heard = <<>>

CollectNext == \/ \E v \in Visits : Collect(v)
               \/ Flush
               \/ (Tick \/ SetBack \/ Observe) /\ UNCHANGED collectVars

CollectSpec == CollectInit /\ [][CollectNext]_<<vars, collectVars>>
-----------------------------------------------------------------------------
(* Properties *)

\* One site: hosts that differ by a leading "www." or a trailing dot alone.
SameSite(a, b) == a.host = b.host /\ {a.www, b.www} \subseteq {0, 1}

\* The server can tell the page's site, and the operator asked for it.
IsMeasured(v) ==
  /\ \E s \in Sites : SameSite(s, v.page)
  /\ v.page.host \notin IpLiterals
  /\ v.via = "beacon" => v.type \in EventTypes
  /\ v.via = "pixel" /\ v.policy = "full" => v.page.path \notin DottedPaths

Measured == {v \in Visits : IsMeasured(v)}

(* Every visit that is given a token is recorded, once and in order, when its page *)
(* is on a listed site, however the page, the operator or the referrer policy      *)
(* spells the host, and no other is; the event carries its own client, site and    *)
(* path.                                                                           *)
VisitsAreRecorded ==
  LET measured == SelectIn(heard, Measured) IN
  /\ Len(pending) = Len(measured)
  /\ \A i \in DOMAIN pending :
       LET event == pending[i]  v == measured[i] IN
       /\ event.visitor = <<event.site, v.client>>
       /\ SameSite(v.page, event.site) /\ event.site.www = 0
       /\ event.path = IF v.via = "pixel" /\ v.policy = "origin" THEN Home ELSE v.page.path
       /\ event.type = IF v.via = "pixel" THEN "pageview" ELSE v.type

(* A click from page to page of the same site is internal, under whatever mix of   *)
(* "www." and bare names the site is reached, unless a campaign says otherwise;    *)
(* and no other site's page is.  Hosts with a trailing dot are left out: SiteId.ts *)
(* strips it, ReferrerSource.ts does not.                                          *)
OwnPagesAreInternal ==
  LET measured == SelectIn(heard, Measured) IN
  \A i \in DOMAIN pending :
    LET v == measured[i] IN
    v.via = "beacon" /\ v.from # NULL /\ v.page.path \notin DOMAIN Campaigns =>
      (pending[i].source.kind = "internal" <=> SameSite(v.page, v.from) /\ ~ v.from.dot)

(* A site has one row, every event's id leads back to the event's own site, and a  *)
(* site has a row only with an event: a failing batch leaves no site behind, and   *)
(* an unlisted one never gets a row.                                               *)
SitesMatchEvents ==
  /\ \A m, n \in DOMAIN sites : sites[m] = sites[n] => m = n
  /\ \A i \in DOMAIN rows : sites[rows[i].site] = rows[i].event.site
  /\ \A n \in DOMAIN sites : \E i \in DOMAIN rows : rows[i].site = n
=============================================================================
