--------------------------- MODULE CollectTraefik ---------------------------
(* se-collect-traefik: the proxy's overview, routers and services.          *)
EXTENDS CollectorKit

Served == {"overview", "routers", "services"}
Verbs == {"declare", "probe", "collect", "object", "evidence"}

PageBound == 2           \* pageBound (64)

-----------------------------------------------------------------------------
(* The world: the configured address, what a GET of each path meets, and    *)
(* the listings page by page with the next page their header names.         *)

Entry == [name |-> "web", error |-> Unstated, servers |-> Unstated, up |-> {}, down |-> {}]
Page(items, next) == [met |-> "ok", items |-> items, next |-> next]
Bad(met) == [met |-> met, items |-> <<>>, next |-> 1]

Fine == [replay |-> FALSE, url |-> TRUE, clock |-> TRUE, staged |-> "all",
         overview |-> "ok", version |-> "ok", entrypoints |-> "ok",
         routers |-> <<Page(<<>>, 1)>>, services |-> <<Page(<<>>, 1)>>]

Failures == {"silent", "401", "403", "500", "cut", "huge", "garbage", "not a list"}
Other == [Entry EXCEPT !.name = "b"]

Worlds ==
  {Fine, [Fine EXCEPT !.url = FALSE], [Fine EXCEPT !.clock = FALSE]}
  \union {[Fine EXCEPT !.overview = f] : f \in Failures \ {"not a list"}}
  \union {[Fine EXCEPT !.version = f] : f \in {"silent", "403"}}
  \union {[Fine EXCEPT !.entrypoints = f] : f \in {"silent", "not a list"}}
  \union {[Fine EXCEPT !.routers = <<Bad(f)>>] : f \in Failures}
  \union {[Fine EXCEPT !.routers = p] :
            p \in {<<Page(<<Entry>>, 2), Page(<<Other>>, 1)>>, <<Page(<<Entry>>, 0), Page(<<Other>>, 1)>>,
                   <<Page(<<Entry>>, 2), Bad("silent")>>, <<Page(<<Entry>>, 2), Page(<<Entry>>, 2)>>,
                   <<Page(<<Entry>>, 2), Page(<<Other>>, 3)>>}}
  \union {[Fine EXCEPT !.routers = <<Page(<<a>>, 1)>>] :
            a \in {[Entry EXCEPT !.name = Unstated], [Entry EXCEPT !.name = "#number"],
                   [Entry EXCEPT !.error = "text"], [Entry EXCEPT !.error = "#number"]}}
  \union {[Fine EXCEPT !.services = <<Page(<<a>>, 1)>>] :
            a \in {[Entry EXCEPT !.servers = {"plain", "secret"}], [Entry EXCEPT !.servers = {Unstated}],
                   [Entry EXCEPT !.up = {"plain"}, !.down = {"secret"}]}}
  \union {[Fine EXCEPT !.replay = TRUE, !.staged = s, !.overview = o] :
            s \in {"all", "some", "none", "unreadable"}, o \in {"ok", "garbage"}}

-----------------------------------------------------------------------------
(* source.go                                                                *)

\* get: the status tells a refusal from a silence; too long an answer is
\* neither, and ends the process.
get(met) == CASE met \in {"401", "403"} -> Declined("unauthorised")
              [] met \in {"silent", "500", "cut"} -> Declined("unavailable")
              [] met = "huge" -> Error
              [] OTHER -> Doc(met)

\* parseDocument, decodeDocument: one JSON value and nothing after it.
parseDocument(met) == IF met = "garbage" THEN Error ELSE Doc(met)

\* ready: an address, and the boot clock once per collection.
ready(w) == CASE ~w.url -> Declined("unavailable") [] w.url /\ ~w.clock -> Error [] OTHER -> Doc("ready")

liveDocument(w, met) == FirstFailure(<<ready(w), get(met), parseDocument(met)>>)

\* One page of a listing, and the page its header names next; a page number
\* that does not advance is the last.
TakePage(walk, pages) ==
  LET p == IF walk.page <= Len(pages) THEN pages[walk.page] ELSE Page(<<>>, 1)
      got == FirstFailure(<<get(p.met), parseDocument(p.met),
                            IF p.met = "not a list" THEN Error ELSE Doc(p)>>)
  IN CASE walk.done -> walk
       [] ~walk.done /\ ~IsDoc(got) -> [walk EXCEPT !.done = TRUE, !.failed = got]
       [] OTHER -> [walk EXCEPT !.items = @ \o p.items, !.page = p.next, !.done = p.next <= walk.page]

\* list: every page, or none - a walk that passes the bound is an error.
list(w, pages) ==
  LET walk == FoldLeft(LAMBDA acc, n : TakePage(acc, pages),
                       [items |-> <<>>, page |-> 1, done |-> FALSE, failed |-> Unstated],
                       [n \in 1..PageBound |-> n])
  IN CASE ~IsDoc(ready(w)) -> ready(w)
       [] IsDoc(ready(w)) /\ walk.failed # Unstated -> walk.failed
       [] IsDoc(ready(w)) /\ walk.failed = Unstated /\ ~walk.done -> Error
       [] OTHER -> Doc(walk.items)

\* replaySource.document: nothing staged is no api; part of it is broken.
replayDocument(w, met) ==
  CASE w.staged = "none" -> Declined("unavailable")
    [] w.staged = "all" -> parseDocument(met)
    [] OTHER -> Error

document(w, met) == IF w.replay THEN replayDocument(w, met) ELSE liveDocument(w, met)

listing(w, pages) ==
  IF w.replay THEN LET r == replayDocument(w, pages[1].met)
                   IN IF IsDoc(r) THEN Doc(pages[1].items) ELSE r
  ELSE list(w, pages)

\* reachable: the version alone; probe is its verdict.
probe(w) == IF w.replay THEN w.staged # "none" ELSE w.url /\ IsDoc(get(w.version))

-----------------------------------------------------------------------------
(* overview.go, routers.go, services.go                                     *)

\* Three documents, or no row: the overview is one reading.
overviewRead(w) ==
  FirstFailure(<<document(w, w.overview), document(w, w.version), document(w, w.entrypoints),
                 IF w.entrypoints = "not a list" THEN Error ELSE Doc({})>>)

overviewRows(w) == IF IsDoc(overviewRead(w)) THEN Plain(<<Row("traefik", [Version |-> "v"])>>)
                   ELSE overviewRead(w)

\* routeName: an entry with no name is "unnamed"; one named with something
\* that is no string refuses the listing.
routeName(e) == IF e.name = Unstated THEN "unnamed" ELSE e.name

\* errorFact: a list as it is, a string as a list of one, anything else not.
errorFact(e) == IF e.error = "text" THEN {"text"} ELSE e.error

Unreadable(e) == e.name = "#number" \/ e.error = "#number"

routerRows(w) ==
  LET got == listing(w, w.routers)
  IN CASE ~IsDoc(got) -> got
       [] IsDoc(got) /\ (\E i \in DOMAIN got.doc : Unreadable(got.doc[i])) -> Error
       [] OTHER -> Plain([i \in DOMAIN got.doc |->
                     Row(routeName(got.doc[i]), Facts([Error |-> errorFact(got.doc[i])]))])

\* redactURLUserinfo: a backend address keeps its host.
redactURLUserinfo(url) == IF url = "secret" THEN "withheld" ELSE url

\* serverURLs: a server with neither url nor address refuses the listing.
serverURLs(e) == IF e.servers = Unstated THEN Unstated ELSE {redactURLUserinfo(u) : u \in e.servers}

\* serviceFacts: every server whose state is not UP is down.
serviceFacts(e) ==
  Facts([Servers |-> serverURLs(e), Error |-> errorFact(e),
         ServersUp |-> IF e.up \union e.down = {} THEN Unstated ELSE Cardinality(e.up),
         ServersDown |-> IF e.up \union e.down = {} THEN Unstated ELSE Cardinality(e.down),
         DownServers |-> IF e.down = {} THEN Unstated ELSE {redactURLUserinfo(u) : u \in e.down}])

serviceRows(w) ==
  LET got == listing(w, w.services)
      Serverless(e) == e.servers # Unstated /\ Unstated \in e.servers
  IN CASE ~IsDoc(got) -> got
       [] IsDoc(got) /\ (\E i \in DOMAIN got.doc : Unreadable(got.doc[i]) \/ Serverless(got.doc[i])) -> Error
       [] OTHER -> Plain([i \in DOMAIN got.doc |-> Row(routeName(got.doc[i]), serviceFacts(got.doc[i]))])

-----------------------------------------------------------------------------
(* collect.go, verbs.go                                                     *)

collectOne(c, w) == CASE c = "overview" -> overviewRows(w)
                      [] c = "routers" -> routerRows(w)
                      [] c = "services" -> serviceRows(w)

Opening(w) == Doc("nothing")
Collect(c, held, w) == IF c \in Served THEN collectOne(c, w) ELSE NotServed

serveObject(c, name, w) ==
  IF c \notin Served THEN Refusal("unsupported")
  ELSE Opened(collectOne(c, w), name, LAMBDA row : Response(<<ObjectRecord(row)>>))

\* redactServiceEvidence: every address of the entry, in both its places.
redactServiceEvidence(e) ==
  {<<"url", redactURLUserinfo(u)>> : u \in e.up \union e.down \union
                                          (IF e.servers = Unstated THEN {} ELSE e.servers)}

\* evidenceCanonical: an entry that names itself wrongly is passed over, and
\* an unreadable fact elsewhere in the listing does not matter here.
evidenceCanonical(c, name, w) ==
  LET got == listing(w, IF c = "routers" THEN w.routers ELSE w.services)
      mine == SelectSeq(got.doc, LAMBDA e : e.name # "#number" /\ routeName(e) = name)
  IN CASE c = "overview" -> IF IsDoc(overviewRead(w)) /\ name # "traefik" THEN Declined("unavailable")
                            ELSE overviewRead(w)
       [] c # "overview" /\ ~IsDoc(got) -> got
       [] OTHER -> IF mine = <<>> THEN Declined("unavailable")
                   ELSE Doc(IF c = "services" THEN redactServiceEvidence(mine[1]) ELSE {})

serveEvidence(c, name, w) ==
  LET got == evidenceCanonical(c, name, w)
  IN CASE c \notin Served -> Refusal("unsupported")
       [] c \in Served /\ got.is = "declined" -> Refusal(got.reason)
       [] c \in Served /\ got.is = "error" -> NoResponse
       [] OTHER -> Response(<<EvidenceRecord(got.doc, 1, 8)>>)

\* Every page's entries, whatever the walk met.
Holds(c, w) ==
  LET pages == IF c = "routers" THEN w.routers ELSE w.services
      linked == {p \in DOMAIN pages : \A q \in 1..(p - 1) : pages[q].next > q}
  IN IF c = "overview" THEN IF w.url THEN {"traefik"} ELSE {}
     ELSE UNION {{routeName(pages[p].items[i]) : i \in DOMAIN pages[p].items} : p \in linked}
=============================================================================
