----------------------------- MODULE CollectPlex -----------------------------
(* se-collect-plex: the media server, its libraries and its sessions, and   *)
(* the requests of the request manager beside it (seerr).                   *)
EXTENDS CollectorKit

Served == {"server", "libraries", "sessions", "requests"}
Verbs == {"declare", "probe", "collect", "object", "evidence"}

MaxPages == 2            \* maxRequestPages (20)
TitleLookups == 1        \* titleLookupsPerSweep (50)

-----------------------------------------------------------------------------
(* The world: plex's configuration and what each of its documents meets;    *)
(* seerr's configuration, its pages of requests and its title look-ups.     *)

Section == [key |-> "1", scanned |-> 5, count |-> "ok"]
Session == [key |-> "7", rating |-> Unstated]
Asking(id, tmdb, status) == [id |-> id, tmdb |-> tmdb, status |-> status]

Fine == [replay |-> FALSE, url |-> TRUE, token |-> "set", clock |-> TRUE, staged |-> "all",
         root |-> "ok", sections |-> "ok", sessions |-> "ok", libraries |-> <<Section>>,
         playing |-> <<Session>>, seerr |-> "set", pages |-> <<>>, total |-> Unstated,
         title |-> "ok"]

Failures == {"silent", "code", "huge", "garbage"}
Paged(pages, total) == [Fine EXCEPT !.pages = pages, !.total = total]
Page(records) == [met |-> "ok", results |-> records]
NoPage(met) == [met |-> met, results |-> <<>>]
One == Page(<<Asking("1", 11, 2)>>)
Two == Page(<<Asking("2", 12, 9)>>)

Worlds ==
  {Fine, [Fine EXCEPT !.url = FALSE], [Fine EXCEPT !.clock = FALSE],
   [Fine EXCEPT !.token = "missing"], [Fine EXCEPT !.token = "unprintable"]}
  \union {[Fine EXCEPT !.root = f] : f \in Failures}
  \union {[Fine EXCEPT !.sections = f] : f \in Failures}
  \union {[Fine EXCEPT !.sessions = f] : f \in Failures}
  \union {[Fine EXCEPT !.libraries = <<a, [Section EXCEPT !.key = "2"]>>] :
            a \in {[Section EXCEPT !.key = Unstated], [Section EXCEPT !.count = "code"],
                   [Section EXCEPT !.scanned = 0]}}
  \union {[Fine EXCEPT !.playing = <<a>>] :
            a \in {[Session EXCEPT !.key = Unstated], [Session EXCEPT !.key = Unstated, !.rating = "9"]}}
  \union {[Fine EXCEPT !.replay = TRUE, !.staged = s, !.root = f, !.pages = <<One>>, !.seerr = e] :
            s \in {"all", "some", "none"}, f \in {"ok", "garbage"}, e \in {"set", "unset"}}
  \union {[Fine EXCEPT !.seerr = x] : x \in {"unset", "keyless"}}
  \union {Paged(<<One>>, t) : t \in {1, Unstated}}
  \union {Paged(<<One, Two>>, t) : t \in {1, 2, 9}}
  \union {Paged(<<One, One>>, 9), Paged(<<One, NoPage("code")>>, 9), Paged(<<NoPage("silent")>>, 9),
          Paged(<<One, Two, Page(<<Asking("3", 13, 1)>>)>>, 9), Paged(<<Page(<<Asking(Unstated, 14, 1)>>)>>, 1),
          [Paged(<<One>>, 1) EXCEPT !.title = "code"], [Paged(<<One>>, 1) EXCEPT !.url = FALSE]}

-----------------------------------------------------------------------------
(* source.go, jsondoc.go                                                    *)

\* deployment: no server named is absence; a token that is not there or
\* cannot be sent is configuration missing.  A capture stages plex or does not.
deployment(w) ==
  CASE w.replay -> IF w.staged = "none" THEN "absent" ELSE "whole"
    [] OTHER -> IF ~w.url THEN "absent" ELSE IF w.token # "set" THEN "missing" ELSE "whole"

decodeDocument(met) == met # "garbage"

\* get: the clock first; then a whole, bounded, decodable 200, or the reason.
get(w, met) == CASE ~w.clock -> Error
                 [] w.clock /\ met = "ok" /\ decodeDocument(met) -> Doc(met)
                 [] OTHER -> [is |-> "detail"]

\* replaySource.document: a missing payload is a broken capture.
replayDocument(w, met) == IF w.staged = "some" \/ ~decodeDocument(met) THEN Error ELSE Doc(met)

document(w, met) == IF w.replay THEN replayDocument(w, met) ELSE get(w, met)

\* seerr: the same, without reading the clock.
seerr(w, met) ==
  CASE w.replay -> IF met = "ok" THEN Doc(met) ELSE Error
    [] OTHER -> IF met = "ok" THEN Doc(met) ELSE [is |-> "detail"]

\* seerrConfigured
seerrConfigured(w) == w.seerr

\* probe: the receipts, then the root document.
probe(w) == CASE deployment(w) = "absent" -> FALSE
              [] deployment(w) = "missing" -> TRUE
              [] OTHER -> IsDoc(document(w, w.root))

-----------------------------------------------------------------------------
(* collect.go, facts.go                                                     *)

\* serverRows: a configured server is a row; what it would not say is on it.
serverRows(w) ==
  LET root == document(w, w.root)
      sessions == document(w, w.sessions)
      R(f) == Plain(<<Row("plex", f)>>)
  IN CASE deployment(w) = "absent" -> Declined("unavailable")
       [] deployment(w) = "missing" -> IF w.clock THEN R([ConfigMissing |-> w.token]) ELSE Error
       [] deployment(w) = "whole" /\ root.is = "detail" -> R([StatusUnobservable |-> "root"])
       [] deployment(w) = "whole" /\ IsDoc(root) /\ sessions.is = "detail" ->
            R([Version |-> "v", StatusUnobservable |-> "sessions"])
       [] deployment(w) = "whole" /\ IsDoc(root) /\ IsDoc(sessions) ->
            R([Version |-> "v", SessionCount |-> Len(w.playing)])
       [] OTHER -> Error

\* gate, the receipts and the one document the other two are cut from.
gate(w, met, Rows(_)) ==
  LET got == document(w, met)
  IN CASE deployment(w) # "whole" -> Declined("unavailable")
       [] deployment(w) = "whole" /\ got.is = "detail" -> Declined("unavailable")
       [] deployment(w) = "whole" /\ IsDoc(got) -> Rows(w)
       [] OTHER -> Error

\* epochToISO: zero is a scan that never ran, not 1970.
epochToISO(seconds) == IF seconds > 0 THEN seconds ELSE Unstated

\* libraryRows: a section without a key has no name; a count that would not
\* come is stated on its row and costs no other row.
libraryRows(w) ==
  LET named == SelectSeq(w.libraries, LAMBDA s : s.key # Unstated)
      Counted(s) == document(w, s.count)
      Build(s) == Row(s.key, Facts([ScannedAt |-> epochToISO(s.scanned),
                    ItemCount |-> IF IsDoc(Counted(s)) THEN 1 ELSE Unstated,
                    ItemCountUnobservable |-> IF IsDoc(Counted(s)) THEN Unstated ELSE "reason"]))
  IN IF \E i \in DOMAIN named : Counted(named[i]).is = "error" THEN Error
     ELSE Plain([i \in DOMAIN named |-> Build(named[i])])

\* sessionName: the session's own key, or what it plays; neither is no row.
sessionName(s) == IF s.key # Unstated THEN s.key ELSE s.rating

sessionRows(w) ==
  LET named == SelectSeq(w.playing, LAMBDA s : sessionName(s) # Unstated)
  IN Plain([i \in DOMAIN named |-> Row(sessionName(named[i]), [Title |-> "t"])])

-----------------------------------------------------------------------------
(* requests.go                                                              *)

\* One page of the walk: it stops at an empty page, at seerr's own total and
\* at the bound; a page that will not come ends it with its reason.
TakePage(w, walk, page) ==
  LET got == IF page <= Len(w.pages) THEN w.pages[page] ELSE Page(<<>>)
      met == got.met
      results == got.results
      skip == walk.skip + Len(results)
  IN CASE walk.done -> walk
       [] ~walk.done /\ ~IsDoc(seerr(w, met)) -> [walk EXCEPT !.done = TRUE, !.failed = seerr(w, met)]
       [] ~walk.done /\ IsDoc(seerr(w, met)) /\ results = <<>> -> [walk EXCEPT !.done = TRUE]
       [] OTHER -> [walk EXCEPT !.records = @ \o SelectSeq(results, LAMBDA r : r.id # Unstated),
                                !.skip = skip,
                                !.done = w.total # Unstated /\ skip >= w.total]

Walk(w) == FoldLeft(LAMBDA walk, page : TakePage(w, walk, page),
                    [records |-> <<>>, skip |-> 0, done |-> FALSE, failed |-> Unstated],
                    [p \in 1..MaxPages |-> p])

\* seerrStatus: the words it is documented to use; any other number stays one.
seerrStatus(n) == IF n \in 1..5
                  THEN <<"pending", "approved", "declined", "failed", "completed">>[n] ELSE n

\* The titles looked up: the first few distinct ones, each its own row's
\* enrichment and never the sweep's failure.
Titled(w, records) ==
  LET keys == {i \in DOMAIN records : \A j \in 1..(i - 1) : records[j].tmdb # records[i].tmdb}
      wanted == {i \in keys : Cardinality({j \in keys : j <= i}) <= TitleLookups}
  IN IF IsDoc(seerr(w, w.title)) THEN {records[i].tmdb : i \in wanted} ELSE {}

\* requestRows: every record with an id is a row; none reads the clock.
requestRows(w) ==
  LET walk == Walk(w)
      Build(r) == Row(r.id, Facts([Status |-> seerrStatus(r.status), TmdbId |-> r.tmdb,
                    Title |-> IF r.tmdb \in Titled(w, walk.records) THEN "t" ELSE Unstated]))
  IN CASE seerrConfigured(w) # "set" -> Declined("unavailable")
       [] seerrConfigured(w) = "set" /\ walk.failed # Unstated ->
            IF walk.failed.is = "detail" THEN Declined("unavailable") ELSE Error
       [] OTHER -> Unstamped([i \in DOMAIN walk.records |-> Build(walk.records[i])])

collectOne(c, w) == CASE c = "server" -> serverRows(w)
                      [] c = "libraries" -> gate(w, w.sections, libraryRows)
                      [] c = "sessions" -> gate(w, w.sessions, sessionRows)
                      [] c = "requests" -> requestRows(w)

Opening(w) == Doc("nothing")
Collect(c, held, w) == IF c \in Served THEN collectOne(c, w) ELSE NotServed

-----------------------------------------------------------------------------
(* verbs.go                                                                 *)

serveObject(c, name, w) ==
  IF c \notin Served THEN Refusal("unsupported")
  ELSE Opened(collectOne(c, w), name, LAMBDA row : Response(<<ObjectRecord(row)>>))

\* plexBody: the raw document behind a plex row, which an unreadable server
\* or missing receipts decline even though the server's row exists.
plexBody(c, w) ==
  gate(w, CASE c = "server" -> w.root [] c = "libraries" -> w.sections [] OTHER -> w.sessions,
       LAMBDA x : CASE c = "server" -> Plain(<<Row("plex", <<>>)>>)
                    [] c = "libraries" -> libraryRows([x EXCEPT !.libraries =
                         [i \in DOMAIN @ |-> [@[i] EXCEPT !.count = "ok"]]])
                    [] OTHER -> sessionRows(x))

\* evidenceCanonical: the page or document that publishes the name.
evidenceCanonical(c, w) == IF c = "requests" THEN requestRows(w) ELSE plexBody(c, w)

serveEvidence(c, name, w) ==
  IF c \notin Served THEN Refusal("unsupported")
  ELSE Opened(evidenceCanonical(c, w), name, LAMBDA row : Response(<<EvidenceRecord({}, 1, 8)>>))

\* The server is configuration; the rest is what the services list.
Holds(c, w) ==
  CASE c = "server" -> IF deployment(w) = "absent" THEN {} ELSE {"plex"}
    [] c = "libraries" -> {w.libraries[i].key : i \in DOMAIN w.libraries} \ {Unstated}
    [] c = "sessions" -> {sessionName(w.playing[i]) : i \in DOMAIN w.playing} \ {Unstated}
    [] c = "requests" ->
         LET read == {p \in DOMAIN w.pages : p <= MaxPages /\ (w.total = Unstated \/ p <= w.total)}
         IN UNION {{w.pages[p].results[i].id : i \in DOMAIN w.pages[p].results} : p \in read} \ {Unstated}
=============================================================================
