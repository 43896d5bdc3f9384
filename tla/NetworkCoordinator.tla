------------------------- MODULE NetworkCoordinator -------------------------
(***************************************************************************)
(* The network coordinator of pb-network (coordinator.rs): name resolution *)
(* over the DNS cache and the single-flight resolver, the synchronous      *)
(* route pipeline over the blocklist and the egress map, and the teardown  *)
(* of a partition.  resolve() takes &self, so its calls run concurrently;  *)
(* route() and drop_partition() take &mut self and exclude all others.     *)
(***************************************************************************)
EXTENDS Integers, Sequences, FiniteSets, SequencesExt, DnsCache, SingleFlight, Blocklist

(* The bounded LRU of per-partition egress state (PartitionLru): a map and *)
(* a recency queue, least recently used first: a record [map, order].      *)

CONSTANT MaxPartitions    \* MAX_PARTITIONS

ASSUME EgressAssumption == MaxPartitions \in Nat \ {0}

EmptyLru == [map |-> {}, order |-> <<>>]

Dropped(order, p) == RemoveFirst(order, p)

\* touch_to_back.
NoTouch(order, p) == order

TouchToBack(order, p) ==
  IF p \in ToSet(order) THEN Append(Dropped(order, p), p) ELSE order

\* get_or_insert_default.
InsertLeavingMap(e, p) ==
  IF p \in e.map THEN [e EXCEPT !.order = TouchToBack(@, p)]
  ELSE [map |-> e.map \cup {p},
        order |-> Append(IF Len(e.order) >= MaxPartitions THEN Tail(e.order)
                         ELSE e.order, p)]

GetOrInsert(e, p) ==
  IF p \in e.map THEN [e EXCEPT !.order = TouchToBack(@, p)]
  ELSE IF Len(e.order) >= MaxPartitions
       THEN [map |-> (e.map \ {Head(e.order)}) \cup {p},
             order |-> Append(Tail(e.order), p)]
       ELSE [map |-> e.map \cup {p}, order |-> Append(e.order, p)]

\* remove.
Removed(e, p) == [map |-> e.map \ {p}, order |-> Dropped(e.order, p)]

-----------------------------------------------------------------------------
(* The outbound header scrub (headers.rs).  A header is its name in lower  *)
(* case and whose value it carries: the browser's locked one, the          *)
(* renderer's, or, for Referer, the origin of the page.                    *)

HeaderPolicyFor(mode) ==
  [referer |-> IF mode = "Strict" THEN "NoReferrer" ELSE "StrictOriginWhenCrossOrigin",
   dnt |-> TRUE, gpc |-> TRUE]

\* Names the renderer may not set (the list of the source has more of the same kind).
StripNames == {"cookie", "sec-ch-ua", "x-requested-with", "x-forwarded-for", "via",
               "forwarded"}

\* Names whose value is always the policy's.
OverrideNames == {"user-agent", "accept-language", "accept-encoding", "referer", "dnt",
                  "sec-gpc"}

Header(name, value) == [name |-> name, value |-> value]

SendsReferer(policy, origin, url) ==
  policy.referer # "NoReferrer" /\ origin # "" /\ url.scheme # "http"

\* The headers the browser sets itself, before any of the renderer's.
Injected(policy, origin, url) ==
  <<Header("user-agent", "locked"), Header("accept-language", "locked"),
    Header("accept-encoding", "locked")>>
  \o (IF policy.dnt THEN <<Header("dnt", "locked")>> ELSE <<>>)
  \o (IF policy.gpc THEN <<Header("sec-gpc", "locked")>> ELSE <<>>)
  \o (IF SendsReferer(policy, origin, url) THEN <<Header("referer", "origin")>> ELSE <<>>)

\* `names` are the renderer's headers, in its order.
ScrubPassingOverridden(policy, origin, url, names) ==
  LET passed == Omitting(names, StripNames)
  IN  Injected(policy, origin, url)
        \o [i \in DOMAIN passed |-> Header(passed[i], "renderer")]
        \o (IF "accept" \in ToSet(passed) THEN <<>> ELSE <<Header("accept", "locked")>>)

Scrub(policy, origin, url, names) ==
  LET passed == Omitting(names, StripNames \cup OverrideNames)
  IN  Injected(policy, origin, url)
        \o [i \in DOMAIN passed |-> Header(passed[i], "renderer")]
        \o (IF "accept" \in ToSet(passed) THEN <<>> ELSE <<Header("accept", "locked")>>)

-----------------------------------------------------------------------------
CONSTANTS
  Request,    \* what a renderer may send, see RequestFields
  MaxDrops    \* bound: teardowns of one partition

RequestFields ==
  [derived : Partition,      \* partition_key::derive of the request's identity
   declared : Partition,     \* the key the renderer declared
   mode : {"Standard", "Strict"},
   origin : STRING,          \* site_origin; "" if there is none
   approved : BOOLEAN,       \* downgrade_approved
   url : Urls,
   headers : Seq(STRING)]    \* names of the renderer's headers

ASSUME RequestAssumption ==
  /\ Request \subseteq RequestFields
  /\ Key = Partition \X Name
  /\ Outcome \subseteq [kind : {"Positive", "NxDomain", "Failed"}, ttl : Nat]

VARIABLES
  wired,      \* a resolver has been set
  asking,     \* caller -> the resolve() call it is in
  drops,      \* history: teardowns of each partition
  egress,     \* the egress map
  route,      \* the route() call in progress
  cancelled,  \* its CancellationFlag: the stage it rose in, or "never"
  sent,       \* the RoutedRequest that was returned last
  event,      \* the BlockedEvent that was emitted last
  recency     \* history: partitions by last successful route

resolveVars == <<wired, asking>>
routeVars == <<egress, route, cancelled, sent, event, recency>>
vars == <<cacheVars, flightVars, resolveVars, drops, routeVars, live>>

NoCall == [stage |-> "none"]
Calls == [stage : {"missed", "resolving"}, teardown : Nat, key : Key] \cup {NoCall}

NoRoute == [stage |-> "none"]
RouteStage == {"authorized", "secure", "allowed", "stripped", "scrubbed"}
\* `start`, `hostRules` and `stripRules` are history: the content versions live when
\* the call began, at match_host and at url_param_strip_list.
Routes ==
  [stage : RouteStage \cup {"sent"}, req : Request, url : Urls,
   headers : Seq([name : STRING, value : {"locked", "renderer", "origin"}]),
   start : Version, hostRules : Version, stripRules : Version]

NoEvent == [kind |-> "none"]
\* `host` and `version` are history: what was matched, and against which content.
Events == [kind : BlockKind, partition : Partition, host : Seq(STRING), version : Version]
            \cup {NoEvent}

Init ==
  /\ CacheInit /\ FlightInit /\ BlocklistInit
  /\ wired = FALSE
  /\ asking = [c \in Caller |-> NoCall]
  /\ drops = [p \in Partition |-> 0]
  /\ egress = EmptyLru
  /\ route = NoRoute
  /\ cancelled = "never"
  /\ sent = NoRoute
  /\ event = NoEvent
  /\ recency = <<>>

Idle(c) == asking[c].stage = "none"
\* &mut self is available.
AlwaysExclusive == route.stage = "none"
Exclusive == route.stage = "none" /\ \A c \in Caller : Idle(c)
Shared == route.stage = "none"

-----------------------------------------------------------------------------
(* resolve.                                                                *)

SetResolver ==
  /\ Exclusive
  /\ ~wired
  /\ wired' = TRUE
  /\ UNCHANGED <<cacheVars, flightVars, asking, drops, routeVars, live>>

\* The cache is asked first.  On a hit, and without a resolver, the call is over.
Lookup(c, k) ==
  /\ Shared
  /\ Idle(c)
  /\ cache' = AfterGet(k[1], k[2])
  /\ asking' = [asking EXCEPT ![c] =
       IF Fresh(k[1], k[2]) \/ ~wired THEN NoCall
       ELSE [stage |-> "missed", teardown |-> drops[k[1]], key |-> k]]
  /\ UNCHANGED <<now, flightVars, wired, drops, routeVars, live>>

CallResolver(c) ==
  /\ asking[c].stage = "missed"
  /\ Call(c, asking[c].key)
  /\ asking' = [asking EXCEPT ![c].stage = "resolving"]
  /\ UNCHANGED <<cacheVars, wired, drops, routeVars, live>>

ResolverStep ==
  /\ \E c \in Caller :
       \/ \E o \in Outcome : LeaderAnswers(c, o)
       \/ LeaderSends(c)
       \/ FollowerWakes(c)
  /\ UNCHANGED <<cacheVars, resolveVars, drops, routeVars, live>>

\* What an outcome leaves in the cache: only Ok and ResolveNxDomain are cached.
CacheEverything(k, o, teardown) ==
  Inserted(k[1], k[2], NewEntry(o.kind, o.ttl, teardown))

Cached(k, o, teardown) ==
  IF o.kind = "Failed" THEN cache
  ELSE Inserted(k[1], k[2], NewEntry(o.kind, o.ttl, teardown))

Finish(c) ==
  /\ asking[c].stage = "resolving"
  /\ Return(c)
  /\ cache' = Cached(asking[c].key, answer[c].value, asking[c].teardown)
  /\ asking' = [asking EXCEPT ![c] = NoCall]
  /\ UNCHANGED <<now, wired, drops, routeVars, live>>

\* The future of resolve() is dropped while it awaits.
DropResolve(c) ==
  /\ asking[c].stage = "resolving"
  /\ Cancel(c)
  /\ asking' = [asking EXCEPT ![c] = NoCall]
  /\ UNCHANGED <<cacheVars, wired, drops, routeVars, live>>

TimePasses == Tick /\ UNCHANGED <<flightVars, resolveVars, drops, routeVars, live>>

-----------------------------------------------------------------------------
DropPartition(p) ==
  /\ Exclusive
  /\ drops[p] < MaxDrops
  /\ drops' = [drops EXCEPT ![p] = @ + 1]
  /\ egress' = Removed(egress, p)
  /\ cache' = Without(cache, p)
  /\ recency' = Dropped(recency, p)
  /\ UNCHANGED <<now, flightVars, resolveVars, route, cancelled, sent, event, live>>

-----------------------------------------------------------------------------
(* route: each step ends in an early return or goes on; the flag is read   *)
(* after authorize, HTTPS-Only, the parameter strip and the header scrub.  *)

\* On with the call if ok holds and the request is not cancelled, else an error.
GoOn(ok, call) == route' = IF ok /\ cancelled = "never" THEN call ELSE NoRoute

RouteStart(req) ==
  /\ Exclusive
  /\ cancelled' \in {"never", "before"}
  /\ route' = IF req.derived = req.declared /\ cancelled' = "never"
              THEN [stage |-> "authorized", req |-> req, url |-> req.url, headers |-> <<>>,
                    start |-> live, hostRules |-> live, stripRules |-> live]
              ELSE NoRoute
  /\ sent' = NoRoute
  /\ event' = NoEvent

EnforceHttpsOnly ==
  /\ route.stage = "authorized"
  /\ GoOn(\/ route.url.scheme = "https"
          \/ route.url.scheme = "http" /\ route.req.approved,
          [route EXCEPT !.stage = "secure"])

\* The host as written in the URL, without userinfo and port; <<>> if it is malformed.
ParseHost(url) == IF url.authority = NoAuthority THEN <<>> ELSE url.authority.host

\* parse_host, then the block rules; a hit is reported; the flag is not read here.
MatchBlocklist ==
  /\ route.stage = "secure"
  /\ LET host == ParseHost(route.url)
         kind == MatchHost(host)
     IN  IF host = <<>> THEN route' = NoRoute /\ UNCHANGED event
         ELSE IF kind = "none"
         THEN route' = [route EXCEPT !.stage = "allowed", !.hostRules = live]
              /\ UNCHANGED event
         ELSE /\ route' = NoRoute
              /\ event' = [kind |-> kind, partition |-> route.req.derived, host |-> host,
                           version |-> live]

StripAtStart ==
  /\ route.stage = "allowed"
  /\ GoOn(TRUE, [route EXCEPT !.stage = "stripped", !.stripRules = route.start,
                   !.url = StripTrackingParams(@, StripRules[route.start])])

StripUrl ==
  /\ route.stage = "allowed"
  /\ GoOn(TRUE, [route EXCEPT !.stage = "stripped", !.stripRules = live,
                   !.url = StripTrackingParams(@, UrlParamStripList)])

ScrubHeaders ==
  Scrub(HeaderPolicyFor(route.req.mode), route.req.origin, route.url, route.req.headers)

ScrubWithoutLook ==
  /\ route.stage = "stripped"
  /\ route' = [route EXCEPT !.stage = "scrubbed", !.headers = ScrubHeaders]

\* The header scrub, and after it the last look at the flag.
ScrubAndLook ==
  /\ route.stage = "stripped"
  /\ GoOn(TRUE, [route EXCEPT !.stage = "scrubbed", !.headers = ScrubHeaders])

\* The egress state and the result.  The flag may have risen since the last look.
Dispatch ==
  /\ route.stage = "scrubbed"
  /\ route' = NoRoute
  /\ egress' = GetOrInsert(egress, route.req.derived)
  /\ recency' = Append(Dropped(recency, route.req.derived), route.req.derived)
  /\ sent' = [route EXCEPT !.stage = "sent"]

RouteStep ==
  /\ \/ \E req \in Request : RouteStart(req) /\ UNCHANGED <<egress, recency>>
     \/ EnforceHttpsOnly /\ UNCHANGED <<egress, recency, sent, event, cancelled>>
     \/ MatchBlocklist /\ UNCHANGED <<egress, recency, sent, cancelled>>
     \/ StripUrl /\ UNCHANGED <<egress, recency, sent, event, cancelled>>
     \/ ScrubAndLook /\ UNCHANGED <<egress, recency, sent, event, cancelled>>
     \/ Dispatch /\ UNCHANGED <<event, cancelled>>
  /\ UNCHANGED <<cacheVars, flightVars, resolveVars, drops, live>>

\* CancellationFlag::cancel, from another task.
CancelRequest ==
  /\ route.stage # "none"
  /\ cancelled = "never"
  /\ cancelled' = route.stage
  /\ UNCHANGED <<cacheVars, flightVars, resolveVars, drops, egress, route, sent, event,
                 recency, live>>

\* The refresh task swaps a newer manifest in (BlocklistScheduler).
SwapManifest ==
  /\ \E v \in Version : v > live /\ Swap(v)
  /\ UNCHANGED <<cacheVars, flightVars, resolveVars, drops, routeVars>>

Next ==
  \/ SetResolver
  \/ \E c \in Caller :
       (\E k \in Key : Lookup(c, k)) \/ CallResolver(c) \/ Finish(c) \/ DropResolve(c)
  \/ ResolverStep
  \/ TimePasses
  \/ \E p \in Partition : DropPartition(p)
  \/ RouteStep \/ CancelRequest \/ SwapManifest

Spec == Init /\ [][Next]_vars

-----------------------------------------------------------------------------
\* Types of the coordinator's state and of its parts; the type of a cache entry says
\* that no transient failure is ever cached.
TypeOK ==
  /\ CacheTypeOK /\ FlightTypeOK
  /\ live \in Version
  /\ asking \in [Caller -> Calls]
  /\ egress.map \subseteq Partition
  /\ ToSet(egress.order) \cup ToSet(recency) \subseteq Partition
  /\ route \in Routes \cup {NoRoute}
  /\ sent \in Routes \cup {NoRoute}
  /\ event \in Events
  /\ cancelled \in {"never", "before"} \cup RouteStage

\* Partition teardown is final: whatever resolutions raced with drop_partition, no
\* answer asked for before it is in the cache after it (drop_partition's cascade
\* to the DNS cache, section 3.6 mode transition).
NoEntryOutlivesDrop ==
  \A p \in DOMAIN cache : \A n \in DOMAIN cache[p].entries :
    cache[p].entries[n].teardown = drops[p]

\* A request that goes out was authorised for its own partition over a permitted
\* scheme, and the rules it was held against are no older than those live when the
\* call began; its strip list is never older than its host rules ("host rules
\* updated, URL strip list out of date is a state we never want", rule.rs).  No listed
\* parameter is left in its URL unless it is too long to rewrite, and nothing else is
\* gone from it.
SentIsPermitted ==
  sent # NoRoute =>
    LET listed == StripRules[sent.stripRules]
        Kept(url) == Omitting(url.query, listed \cup {EmptyPart})
    IN  /\ sent.req.derived = sent.req.declared
        /\ sent.url.scheme = "https" \/ (sent.url.scheme = "http" /\ sent.req.approved)
        /\ sent.start <= sent.hostRules /\ sent.hostRules <= sent.stripRules
        /\ sent.url.huge \/ ToSet(sent.url.query) \cap listed = {}
        /\ Kept(sent.url) = Kept(sent.req.url)
        /\ [sent.url EXCEPT !.query = sent.req.url.query] = sent.req.url

\* Blocking follows the rule list, whatever order and overlaps it has: the longest
\* hostname decides ("longest match wins", radix_tree.rs) and, of several rules for one
\* hostname, the last in the list, whatever their scopes.  A request that rule covers
\* never goes out, and the event names its kind.
LongestMatchDecides ==
  /\ sent # NoRoute =>
       LongestMatch(HostRules[sent.hostRules], sent.req.url.authority.host) = "none"
  /\ event # NoEvent => event.kind = LongestMatch(HostRules[event.version], event.host)

\* The headers that go out say nothing of the user that the browser did not put there:
\* every name it locks occurs once with its own value, none of those the renderer may
\* not set occurs, the origin leaves only as Standard's Referer over https (L31), and
\* the renderer's other headers are all there.
HeadersAreTheBrowsers ==
  sent # NoRoute =>
    LET Values(n) == {sent.headers[i].value : i \in {i \in DOMAIN sent.headers :
                                                      sent.headers[i].name = n}}
        Times(n) == Cardinality({i \in DOMAIN sent.headers : sent.headers[i].name = n})
        passed == ToSet(sent.req.headers) \ (StripNames \cup OverrideNames)
    IN  /\ \A n \in OverrideNames \ {"referer"} : Times(n) = 1 /\ Values(n) = {"locked"}
        /\ \A n \in StripNames : Times(n) = 0
        /\ Times("referer") <= 1 /\ Values("referer") \subseteq {"origin"}
        /\ Times("referer") = 1 => sent.req.mode = "Standard" /\ sent.url.scheme = "https"
        /\ \A n \in passed : Values(n) = {"renderer"}

\* A cancel from another task is never missed but in the two windows the looks leave
\* open: a request that goes out was not cancelled, or only after the last look, and
\* one that is reported as blocked was not, or only after the look before match_host.
\* No request is both sent and reported (route, the four looks at the flag).
CancelIsSeen ==
  /\ sent # NoRoute => cancelled \in {"never", "scrubbed"}
  /\ event # NoEvent => cancelled \in {"never", "secure"}
  /\ sent = NoRoute \/ event = NoEvent

\* Map and queue of the egress LRU hold the same partitions, each once, and never
\* more than MAX_PARTITIONS, after any mix of routes, touches, evictions, teardowns.
EgressBounded ==
  /\ ToSet(egress.order) = egress.map
  /\ Len(egress.order) = Cardinality(egress.map)
  /\ Cardinality(egress.map) <= MaxPartitions

\* Only requests that were routed count as use, and what is evicted is the least
\* recently used: the queue is the recent end of the history of routed partitions.
LeastRecentlyUsedGoes == IsSuffix(egress.order, recency)

\* The two bounded stores, the DNS cache and the egress map, stay what they say they are
\* whatever resolutions, routes, expiries, evictions and teardowns interleave.
StoresConsistent == CacheConsistent /\ EgressBounded /\ LeastRecentlyUsedGoes
=============================================================================
