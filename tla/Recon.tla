------------------------------- MODULE Recon -------------------------------
(***************************************************************************)
(* Reconnaissance of one scan: DefaultScoutService over ScoutRecon,        *)
(* HttpCrawler, ScoutEndpointDiscoverer and PrismaScoutRepository.  Every  *)
(* POST /scout/run starts a scout of its own; they meet in the database    *)
(* only, so a step is the code between two of its statements.  The probes  *)
(* of one phase, which nothing else can see, are one step, except those of *)
(* the crawl, whose queue is modelled page by page.                        *)
(***************************************************************************)
EXTENDS Naturals, Sequences, FiniteSets, FiniteSetsExt, SequencesExt

CONSTANTS Scouts,          \* scout runs on the scan
          Urls, Root,      \* addresses, and the one the scout is given
          OwnOrigin,       \* addresses of the same origin as Root
          PathOf, QueryOf, \* their paths; the parameter names in their queries
          RedirectTo,      \* the address that answers a request for an address
          Locked,          \* addresses answering 401 or 403
          RefsOf,          \* what the body of an answer refers to, in order
          Hints,           \* what robots.txt disallows
          WellKnown,       \* [url, source]: the common, GraphQL and documentation paths
          ShapeOf,         \* per path: the patterns it matches
          TechOf,          \* per address: technologies its answer gives away
          MaxPages, MaxDepth,
          MaxReconFaults   \* bound on probes, tools and statements that fail

ASSUME ReconAssumption ==
  /\ Root \in OwnOrigin /\ OwnOrigin \subseteq Urls /\ Locked \subseteq Urls
  /\ RedirectTo \in [Urls -> Urls] /\ MaxPages \in Nat \ {0} /\ {MaxDepth, MaxReconFaults} \subseteq Nat
(* What a site refers to are lists of addresses, each met in a known way.   *)
ASSUME SiteAssumption ==
  /\ \A u \in Urls : /\ Len(RefsOf[u]) \in Nat /\ DOMAIN RefsOf[u] = 1..Len(RefsOf[u])
                     /\ \A i \in 1..Len(RefsOf[u]) : RefsOf[u][i].url \in Urls
  /\ Hints \in Seq(Urls)
  /\ WellKnown \in Seq([url : Urls, source : {"common", "graphql", "docs"}])

VARIABLES scoutPc,     \* per scout: what run() awaits
          crawl,       \* per scout: the crawler's queue, its sets and its pages
          recon,       \* per scout: what its phases returned
          scoutRow,    \* per scout: ScoutScan.status, or none
          scoutTables, \* per scout: the tables its rows are in
          scoutOrder,  \* the scouts in the order of ScoutScan.createdAt
          scoutSaid,   \* per scout: its SCOUT_STARTED and SCOUT_COMPLETED events
          reconFaults  \* failures so far

scoutVars == <<scoutPc, crawl, recon, scoutRow, scoutTables, scoutOrder, scoutSaid, reconFaults>>

ScoutPC == {"idle", "create", "mark", "crawl", "fingerprint", "ports", "discover", "surface",
            "technologies", "ports table", "services", "complete", "failing",
            "done", "failed", "raised", "rejected"}
ReconTables == {"surface", "technologies", "ports table", "services"}

ScoutInit ==
  /\ scoutPc = [s \in Scouts |-> "idle"]
  /\ crawl = [s \in Scouts |-> [queue |-> <<>>, fetched |-> {}, queued |-> {}, pages |-> <<>>]]
  /\ recon = [s \in Scouts |-> [hints |-> <<>>, tech |-> {}, ports |-> FALSE, found |-> <<>>]]
  /\ scoutRow = [s \in Scouts |-> "none"] /\ scoutTables = [s \in Scouts |-> {}]
  /\ scoutOrder = <<>> /\ scoutSaid = [s \in Scouts |-> <<>>] /\ reconFaults = 0

Scouting(s, from, to) == scoutPc[s] = from /\ scoutPc' = [scoutPc EXCEPT ![s] = to]
ReconFault == reconFaults < MaxReconFaults /\ reconFaults' = reconFaults + 1
ReconFine == UNCHANGED reconFaults
Says(s, e) == scoutSaid' = [scoutSaid EXCEPT ![s] = Append(@, e)]

-----------------------------------------------------------------------------
(* DefaultScoutService.run *)

StartScout(s) ==
  /\ \/ Scouting(s, "idle", "rejected") /\ UNCHANGED scoutSaid  \* no such scan, or no URL
     \/ Scouting(s, "idle", "create") /\ Says(s, "STARTED")
  /\ UNCHANGED <<crawl, recon, scoutRow, scoutTables, scoutOrder, reconFaults>>

CreateScoutScan(s) ==
  /\ \/ /\ Scouting(s, "create", "mark") /\ ReconFine
        /\ scoutRow' = [scoutRow EXCEPT ![s] = "PENDING"] /\ scoutOrder' = Append(scoutOrder, s)
     \/ Scouting(s, "create", "raised") /\ ReconFault /\ UNCHANGED <<scoutRow, scoutOrder>>
  /\ UNCHANGED <<crawl, recon, scoutTables, scoutSaid>>

(* markRunning() stands before the try.  The health probe behind it is only *)
(* reported, and the crawler begins.                                        *)
MarkScoutRunning(s) ==
  /\ \/ /\ Scouting(s, "mark", "crawl") /\ ReconFine
        /\ scoutRow' = [scoutRow EXCEPT ![s] = "RUNNING"]
        /\ crawl' = [crawl EXCEPT ![s].queue = <<[url |-> Root, depth |-> 0]>>, ![s].queued = {Root}]
     \/ Scouting(s, "mark", "raised") /\ ReconFault /\ UNCHANGED <<scoutRow, crawl>>
  /\ UNCHANGED <<recon, scoutTables, scoutOrder, scoutSaid>>

(* FoldLeft, evaluated once per element.                                    *)
Gathered(op(_, _), base, seq) ==
  LET to[i \in 0..Len(seq)] ==
        IF i = 0 THEN base ELSE CHOOSE r \in {op(x, seq[i]) : x \in {to[i - 1]}} : TRUE
  IN to[Len(seq)]

(* HttpCrawler.crawl: addresses of the page that are of the own origin, no *)
(* asset, and neither waiting nor visited yet.                             *)
FollowedAnywhere(ref) == ref.source = "link" /\ "asset" \notin ShapeOf[PathOf[ref.url]]
Followed(ref) == ref.source = "link" /\ ref.url \in OwnOrigin /\ "asset" \notin ShapeOf[PathOf[ref.url]]
Enqueued(c, url, depth) ==
  LET Push(d, ref) ==
        IF ~Followed(ref) \/ ref.url \in d.queued \cup d.fetched THEN d
        ELSE [d EXCEPT !.queue = Append(@, [url |-> ref.url, depth |-> depth + 1]),
                       !.queued = @ \cup {ref.url}]
  IN IF depth >= MaxDepth THEN c ELSE Gathered(Push, c, RefsOf[url])

StatusOf(url) == IF url \in Locked THEN "locked" ELSE "ok"
CrawlOver(s) == crawl[s].queue = <<>> \/ Len(crawl[s].pages) >= MaxPages

FetchPage(s) ==
  /\ Scouting(s, "crawl", "crawl") /\ ~CrawlOver(s)
  /\ LET next == Head(crawl[s].queue)
         at == RedirectTo[next.url]
         c == [crawl[s] EXCEPT !.queue = Tail(@), !.fetched = @ \cup {next.url}]
         Page(url, status) == [asked |-> next.url, url |-> url, status |-> status]
         Answered == [c EXCEPT !.pages = Append(@, Page(at, StatusOf(at)))]
         Silent == [c EXCEPT !.pages = Append(@, Page(next.url, "none"))]
     IN \/ ReconFine /\ \E new \in {Enqueued(Answered, at, next.depth)} : crawl' = [crawl EXCEPT ![s] = new]
        \/ ReconFault /\ crawl' = [crawl EXCEPT ![s] = Silent]
  /\ UNCHANGED <<recon, scoutRow, scoutTables, scoutOrder, scoutSaid>>

(* A phase that fails, or whose tool is missing, returns its default.       *)
Phase(s, from, to, good, bad) ==
  /\ Scouting(s, from, to)
  /\ \/ ReconFine /\ recon' = [recon EXCEPT ![s] = good]
     \/ ReconFault /\ recon' = [recon EXCEPT ![s] = bad]
  /\ UNCHANGED <<crawl, scoutRow, scoutTables, scoutOrder, scoutSaid>>

ReadRobots(s) ==
  CrawlOver(s) /\ Phase(s, "crawl", "fingerprint", [recon[s] EXCEPT !.hints = Hints], recon[s])

(* Pages that did not answer have an empty body and no headers.            *)
Fingerprint(s) ==
  LET up == {p \in ToSet(crawl[s].pages) : p.status # "none"}
  IN Phase(s, "fingerprint", "ports", [recon[s] EXCEPT !.tech = UNION {TechOf[p.url] : p \in up}], recon[s])

ScanPorts(s) == Phase(s, "ports", "discover", [recon[s] EXCEPT !.ports = TRUE], recon[s])

-----------------------------------------------------------------------------
(* ScoutEndpointDiscoverer.discover *)

Sighting(url, method, params, auth, source, status) ==
  [url |-> url, method |-> method, params |-> params, auth |-> auth, source |-> source, status |-> status]

(* What a body refers to in one way and stays on the origin.                *)
OwnRefs(url, source) ==
  LET Add(kept, ref) == IF ref.source = source /\ ref.url \in OwnOrigin THEN Append(kept, ref) ELSE kept
  IN Gathered(Add, <<>>, RefsOf[url])

(* discoverEndpointsFromJs: the calls of a script.                          *)
Calls(page) ==
  LET refs == OwnRefs(page.url, "api")
  IN [i \in DOMAIN refs |-> Sighting(refs[i].url, refs[i].method, refs[i].params, FALSE, "api", "none")]

Links(page) ==
  LET refs == OwnRefs(page.url, "link")
  IN [i \in DOMAIN refs |-> Sighting(refs[i].url, "GET", QueryOf[refs[i].url], FALSE, "link", "none")]

(* A form asks for authentication if its page or its own address does.      *)
Forms(page) ==
  LET refs == OwnRefs(page.url, "form")
      AsksLogin(ref) == page.status = "locked" \/ "login" \in ShapeOf[PathOf[ref.url]]
  IN [i \in DOMAIN refs |->
       Sighting(refs[i].url, refs[i].method, refs[i].params, AsksLogin(refs[i]), "form", page.status)]

(* parseOpenApiSpec: the operations a specification declares.               *)
Specified(url) ==
  LET refs == OwnRefs(url, "docs")
  IN [i \in DOMAIN refs |-> Sighting(refs[i].url, refs[i].method, refs[i].params, FALSE, "docs", "none")]

(* What one crawled page shows: itself and its calls, if it is not of       *)
(* another origin, and its links and forms.                                 *)
OfPage(page) ==
  LET self == Sighting(page.url, "GET", QueryOf[page.url], page.status = "locked", "crawler", page.status)
      silent == page.status = "none"
  IN (IF page.url \notin OwnOrigin THEN <<>> ELSE <<self>> \o IF silent THEN <<>> ELSE Calls(page))
     \o IF silent THEN <<>> ELSE Links(page) \o Forms(page)

(* A probed path is listed under the address that answered, whatever it     *)
(* answered; only documentation has to be there, and is read.               *)
OfProbe(probe, down) ==
  LET at == IF probe.url \in down THEN probe.url ELSE RedirectTo[probe.url]
      status == IF probe.url \in down THEN "none" ELSE StatusOf(at)
      self == Sighting(at, "GET", IF probe.source = "robots" THEN QueryOf[probe.url] ELSE {},
                       status = "locked" /\ probe.source # "docs", probe.source, status)
  IN IF probe.source # "docs" THEN <<self>>
     ELSE IF status # "ok" THEN <<>> ELSE <<self>> \o Specified(at)

Sightings(pages, hints, down) ==
  LET probes == [i \in 1..Len(hints) |-> [url |-> hints[i], source |-> "robots"]] \o WellKnown
  IN FlattenSeq([i \in 1..Len(pages) |-> OfPage(pages[i])])
     \o FlattenSeq([i \in 1..Len(probes) |-> OfProbe(probes[i], down)])

SourceRank == [docs |-> 5, api |-> 4, form |-> 3, crawler |-> 2, link |-> 2, robots |-> 1,
               graphql |-> 1, common |-> 0]
EndpointKey(e) == <<e.method, PathOf[e.url]>>

KeepsFirst(map, e) ==
  [x \in DOMAIN map \cup {EndpointKey(e)} |-> IF x \in DOMAIN map THEN map[x] ELSE e]

(* add(): one endpoint per method and path, which gathers what is seen.     *)
AddEndpoint(map, e) ==
  LET k == EndpointKey(e)
      old == map[k]
      new == Sighting(IF QueryOf[old.url] # {} THEN old.url ELSE e.url, e.method,
                      old.params \cup e.params, old.auth \/ e.auth,
                      IF SourceRank[e.source] > SourceRank[old.source] THEN e.source ELSE old.source,
                      IF old.status # "none" THEN old.status ELSE e.status)
  IN [x \in DOMAIN map \cup {k} |-> IF x # k THEN map[x] ELSE IF k \in DOMAIN map THEN new ELSE e]

Probed == ToSet(Hints) \cup {w.url : w \in ToSet(WellKnown)}

Discover(s) ==
  /\ Scouting(s, "discover", "surface")
  /\ \E down \in {{}} \cup {{u} : u \in Probed} :
       /\ IF down = {} THEN ReconFine ELSE ReconFault
       /\ \E seen \in {Sightings(crawl[s].pages, recon[s].hints, down)} :
            \E found \in {Gathered(AddEndpoint, <<>>, seen)} : recon' = [recon EXCEPT ![s].found = found]
  /\ UNCHANGED <<crawl, scoutRow, scoutTables, scoutOrder, scoutSaid>>

-----------------------------------------------------------------------------
(* persist() writes four tables in turn, without a transaction.             *)
AfterTable == [t \in ReconTables |-> CASE t = "surface" -> "technologies" [] t = "technologies" -> "ports table"
                                        [] t = "ports table" -> "services" [] OTHER -> "complete"]

StoreTable(s) ==
  /\ scoutPc[s] \in ReconTables
  /\ \/ /\ Scouting(s, scoutPc[s], AfterTable[scoutPc[s]]) /\ ReconFine
        /\ scoutTables' = [scoutTables EXCEPT ![s] = @ \cup {scoutPc[s]}]
     \/ Scouting(s, scoutPc[s], "failing") /\ ReconFault /\ UNCHANGED scoutTables
  /\ UNCHANGED <<crawl, recon, scoutRow, scoutOrder, scoutSaid>>

CompleteScoutScan(s) ==
  /\ \/ /\ Scouting(s, "complete", "done") /\ ReconFine /\ Says(s, "COMPLETED")
        /\ scoutRow' = [scoutRow EXCEPT ![s] = "COMPLETED"]
     \/ Scouting(s, "complete", "failing") /\ ReconFault /\ UNCHANGED <<scoutRow, scoutSaid>>
  /\ UNCHANGED <<crawl, recon, scoutTables, scoutOrder>>

(* The catch block; the write of FAILED may itself fail and is swallowed.   *)
FailScout(s) ==
  /\ Scouting(s, "failing", "failed") /\ Says(s, "FAILED")
  /\ \/ ReconFine /\ scoutRow' = [scoutRow EXCEPT ![s] = "FAILED"]
     \/ ReconFault /\ UNCHANGED scoutRow
  /\ UNCHANGED <<crawl, recon, scoutTables, scoutOrder>>

ScoutStep(s) ==
  \/ StartScout(s) \/ CreateScoutScan(s) \/ MarkScoutRunning(s) \/ FetchPage(s) \/ ReadRobots(s)
  \/ Fingerprint(s) \/ ScanPorts(s) \/ Discover(s) \/ StoreTable(s) \/ CompleteScoutScan(s)
  \/ FailScout(s)

-----------------------------------------------------------------------------
ScoutTypeOK ==
  /\ scoutPc \in [Scouts -> ScoutPC] /\ scoutTables \in [Scouts -> SUBSET ReconTables]
  /\ scoutRow \in [Scouts -> {"none", "PENDING", "RUNNING", "COMPLETED", "FAILED"}]
  /\ Range(scoutOrder) \subseteq Scouts /\ IsInjective(scoutOrder)
  /\ \A s \in Scouts : /\ crawl[s].queued \cup crawl[s].fetched \subseteq OwnOrigin
                       /\ Range(scoutSaid[s]) \subseteq {"STARTED", "COMPLETED", "FAILED"}
                       /\ Len(scoutSaid[s]) <= 2
  /\ reconFaults \in 0..MaxReconFaults

(* Addresses at most n links away from Root, over the pages that answered.  *)
Within(s, n) ==
  LET Answered(U) == {p \in Range(crawl[s].pages) : p.asked \in U /\ p.status # "none"}
      Refs(U) == UNION {Range(RefsOf[p.url]) : p \in Answered(U)}
      Near(ref) == ref.source = "link" /\ ref.url \in OwnOrigin /\ "asset" \notin ShapeOf[PathOf[ref.url]]
      level[i \in 0..n] == IF i = 0 THEN {Root}
                           ELSE level[i - 1] \cup {r.url : r \in {x \in Refs(level[i - 1]) : Near(x)}}
  IN level[n]

(* A crawl that is over has visited addresses within its depth only, near   *)
(* ones before far ones, none twice, no more than it may; and all of them   *)
(* unless it ran out of pages.                                              *)
CrawlIsExact(s) ==
  \E asked \in {[i \in DOMAIN crawl[s].pages |-> crawl[s].pages[i].asked]},
     near \in {[n \in 0..MaxDepth |-> Within(s, n)]} :
    /\ Len(asked) <= MaxPages /\ Cardinality(Range(asked)) = Len(asked)
    /\ Range(asked) \subseteq near[MaxDepth]
    /\ Len(asked) < MaxPages => Range(asked) = near[MaxDepth]
    /\ \A i \in DOMAIN asked, j \in DOMAIN asked, n \in 0..MaxDepth :
         i < j /\ asked[j] \in near[n] => asked[i] \in near[n]

(* An endpoint carries every parameter seen under its method and path, asks *)
(* for authentication if one sighting did, has the best source, the first   *)
(* status known and an address with a query if one was seen.                *)
SurfaceIsExact(s, seen) ==
  LET found == recon[s].found
      Of(k) == {i \in DOMAIN seen : EndpointKey(seen[i]) = k}
      Known(I) == {i \in I : seen[i].status # "none"}
      First(I) == {i \in I : \A j \in I : i <= j}
      Gathers(e, I) ==
        /\ e.params = UNION {seen[i].params : i \in I}
        /\ e.auth <=> \E i \in I : seen[i].auth
        /\ \A i \in I : SourceRank[seen[i].source] <= SourceRank[e.source]
        /\ \E i \in I : seen[i].source = e.source
        /\ {e.status} = IF Known(I) = {} THEN {"none"} ELSE {seen[i].status : i \in First(Known(I))}
        /\ QueryOf[e.url] = {} => \A i \in I : QueryOf[seen[i].url] = {}
  IN /\ DOMAIN found = {EndpointKey(seen[i]) : i \in DOMAIN seen}
     /\ \A k \in DOMAIN found : \E I \in {Of(k)} : Gathers(found[k], I)
=============================================================================
