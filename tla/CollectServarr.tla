--------------------------- MODULE CollectServarr ---------------------------
(* se-collect-servarr: one process fronting a configured fleet of media     *)
(* managers - apps, health, queue and history.                              *)
EXTENDS CollectorKit

Served == {"apps", "health", "queue", "history"}
Verbs == {"declare", "probe", "collect", "object", "evidence"}

PageSize == 1            \* queuePageSize (250)
MaxPages == 3            \* queueMaxPages (40)

-----------------------------------------------------------------------------
(* The world: the fleet as configured, and what each endpoint answers:      *)
(* "404", "dark" (no answer, another status, a body that is no document),   *)
(* "odd" (a document of the wrong shape), or the answer itself.             *)

Only(word) == [said |-> word, items |-> <<>>]
List(items) == [said |-> "list", items |-> items]

App == [name |-> "a", entry |-> "a", missing |-> {}, status |-> Only("ok"), proxy |-> FALSE,
        health |-> List(<<>>), count |-> Only("ok"), queue |-> <<>>, total |-> 0,
        history |-> List(<<>>)]

Second == [App EXCEPT !.name = "b", !.entry = "b",
                      !.health = List(<<[source |-> "Disk", grade |-> "error"]>>)]

Words == {Only("404"), Only("dark"), Only("odd")}

Item(source, grade) == [source |-> source, grade |-> grade]

Apps ==
  {App, [App EXCEPT !.missing = {"KEY"}], [App EXCEPT !.entry = "a:v1"]}
  \union {[App EXCEPT !.status = s] : s \in Words}
  \union {[App EXCEPT !.health = h] :
            h \in Words \union
                 {List(<<Item("Disk", "ok")>>),
                  List(<<Item(Unstated, "warning"), Item("Disk", "error")>>),
                  List(<<Item("Disk", "error"), Item("Disk", "notice")>>)}}
  \union {[App EXCEPT !.queue = q, !.total = t] :
            t \in {1, 9}, q \in {<<"7">>, <<"7", "7">>, <<"7", Unstated>>, <<"7", "404">>}}
  \union {[App EXCEPT !.queue = <<"404">>, !.count = Only("404"), !.proxy = TRUE],
          [App EXCEPT !.queue = <<"dark">>], [App EXCEPT !.count = Only("dark")]}
  \union {[App EXCEPT !.history = h] :
            h \in Words \union {List(<<"1", "1">>), List(<<"#null", Unstated>>)}}

Fine == [replay |-> FALSE, staged |-> "all", clock |-> TRUE, fleet |-> <<>>]

Worlds ==
  {Fine, [Fine EXCEPT !.clock = FALSE, !.fleet = <<App>>]}
  \union {[Fine EXCEPT !.replay = TRUE, !.fleet = <<App>>, !.staged = s] :
            s \in {"all", "some", "none", "unreadable"}}
  \union {[Fine EXCEPT !.fleet = <<a>>] : a \in Apps}
  \union {[Fine EXCEPT !.fleet = <<a, Second>>] :
            a \in {x \in Apps : x.status # App.status \/ x.history \in Words \/ x.health \in Words
                               \/ x.entry = "a:v1"}}
  \union {[Fine EXCEPT !.fleet = <<App, [App EXCEPT !.entry = "a:v1"]>>]}
  \union {[Fine EXCEPT !.replay = TRUE, !.fleet = <<a>>] :
            a \in {x \in Apps : x.health \in Words \/ x.queue = <<"404">>}}

-----------------------------------------------------------------------------
(* fleet.go and source.go                                                   *)

\* instanceSpecs: the first entry of a name wins, a repeat is noted on it.
instanceSpecs(w) ==
  LET Kept(i) == \A j \in 1..(i - 1) : w.fleet[j].name # w.fleet[i].name
      kept == SelectSeq([i \in DOMAIN w.fleet |-> <<i, w.fleet[i]>>], LAMBDA p : Kept(p[1]))
  IN [i \in DOMAIN kept |-> kept[i][2] @@
        [duplicates |-> {w.fleet[j].entry : j \in {x \in DOMAIN w.fleet :
                           x > kept[i][1] /\ w.fleet[x].name = kept[i][2].name}}]]

ready(app) == app.missing = {}

\* fleet: configuration live, the capture's receipt in replay; a fleet of
\* nothing, either way, is an interface nobody configured.
fleet(w) ==
  CASE w.replay /\ w.staged = "none" -> Declined("unavailable")
    [] w.replay /\ w.staged \in {"some", "unreadable"} -> Error
    [] w.fleet = <<>> -> Declined("unavailable")
    [] OTHER -> Doc(instanceSpecs(w))

Unreadable == [is |-> "unreadable"]

\* document, live: 404 is "no such endpoint"; anything else that is not a
\* whole document is one instance that did not answer.
liveDocument(answer) ==
  CASE answer.said = "404" -> [is |-> "notfound"]
    [] answer.said = "dark" -> Unreadable
    [] OTHER -> Doc(answer.items)

\* document, in replay: only a recorded 404 stands for a missing payload.
replayDocument(answer) ==
  CASE answer.said = "404" -> [is |-> "notfound"]
    [] answer.said = "dark" -> Error
    [] OTHER -> Doc(answer.items)

document(w, x) == IF w.replay THEN replayDocument(x) ELSE liveDocument(x)

\* A whole document that is not the shape the reader needs.
Misshapen(x) == x.said = "odd"

\* narrowing: an instance that did not answer narrows the observation; a 404
\* and a broken capture do not.
narrowing(r) == r.is = "unreadable"

probe(w) == IsDoc(fleet(w))

-----------------------------------------------------------------------------
(* The row builders.                                                        *)

Graded(items, grades) == Cardinality({i \in DOMAIN items : items[i].grade \in grades})

\* healthCounts: the app's own grades; ok and notice are below attention.
healthCounts(w, app) ==
  LET r == document(w, app.health)
  IN IF IsDoc(r) /\ Misshapen(app.health) THEN Unreadable ELSE r

\* appRow: status, then health, then the queue's count - each asked only if
\* the one before answered; a dark manager is a row that says so.
appRow(w, app) ==
  LET id == [App |-> app.name,
             ConfigDuplicate |-> IF app.duplicates = {} THEN Unstated ELSE app.duplicates]
      status == IF Misshapen(app.status) THEN Unreadable ELSE document(w, app.status)
      health == healthCounts(w, app)
      asked == FirstFailure(<<status, health>>)
      known == id @@ [Version |-> IF IsDoc(status) THEN "v" ELSE Unstated]
      counted == known @@ [HealthErrors |-> Graded(app.health.items, {"error"}),
                           HealthWarnings |-> Graded(app.health.items, {"warning"})]
      count == document(w, app.count)
      R(f) == Doc(Row(app.name, Facts(f)))
  IN CASE ~ready(app) -> R(id @@ [ConfigMissing |-> app.missing])
       [] ready(app) /\ narrowing(asked) -> R(known @@ [StatusUnobservable |-> "reason"])
       [] ready(app) /\ ~IsDoc(asked) /\ ~narrowing(asked) -> Error
       [] OTHER -> CASE IsDoc(count) -> R(counted @@ [QueueTotal |-> app.total])
                     [] count.is = "notfound" -> R(counted)
                     [] narrowing(count) -> R(counted @@ [QueueUnobservable |-> "reason"])
                     [] OTHER -> Error

\* appRows: every configured instance, readable or not.
appRows(w, apps) ==
  LET built == [i \in DOMAIN apps |-> appRow(w, apps[i])]
  IN IF \A i \in DOMAIN apps : IsDoc(built[i])
     THEN Plain([i \in DOMAIN apps |-> built[i].doc]) ELSE Error

\* healthRows: one row per item, named for the check that raised it.
healthRows(w, app) ==
  LET r == healthCounts(w, app)
      source(i) == IF r.doc[i].source = Unstated THEN "unknown" ELSE r.doc[i].source
  IN IF IsDoc(r) THEN Doc([i \in DOMAIN r.doc |->
                        Row(<<app.name, source(i)>>, [Type |-> r.doc[i].grade])])
     ELSE r

\* One page of the queue: its records named by id, or by their place in the
\* whole walk; a name already seen is not published again.
TakePage(w, app, walk, page) ==
  LET asked == IF page <= Len(app.queue) THEN app.queue[page] ELSE "empty"
      r == document(w, Only(asked))
      native == IF asked = Unstated THEN "index" ELSE asked
      name == <<app.name, native>>
      seen == \E i \in DOMAIN walk.rows : walk.rows[i].name = name
  IN CASE walk.done -> walk
       [] ~walk.done /\ r.is = "notfound" /\ page = 1 -> [walk EXCEPT !.done = TRUE]
       [] ~walk.done /\ ~IsDoc(r) /\ ~(r.is = "notfound" /\ page = 1) ->
            [walk EXCEPT !.done = TRUE, !.failed = r]
       [] OTHER ->
            [walk EXCEPT !.rows = IF asked = "empty" \/ seen THEN @ ELSE Append(@, Row(name, [App |-> app.name])),
                         !.done = asked = "empty" \/ page * PageSize >= app.total]

\* queueRows: page by page until the app's total, an empty page or the guard.
queueWalk(w, app) ==
  FoldLeft(LAMBDA walk, page : TakePage(w, app, walk, page),
           [rows |-> <<>>, done |-> FALSE, failed |-> Unstated], [p \in 1..MaxPages |-> p])

queueRows(w, app) ==
  LET walk == queueWalk(w, app)
  IN IF walk.failed = Unstated THEN Doc(walk.rows) ELSE walk.failed

\* historyRows: the newest page, nothing for an indexer proxy, one row per
\* record id; a record without one is named by its position.
historyRows(w, app) ==
  LET status == IF Misshapen(app.status) THEN Unreadable ELSE document(w, app.status)
      page == document(w, app.history)
      Native(i) == IF app.history.items[i] = Unstated THEN "index" ELSE app.history.items[i]
      fresh == SelectSeq([i \in DOMAIN app.history.items |-> i],
                 LAMBDA i : app.history.items[i] # "#null" /\ \A j \in 1..(i - 1) : Native(j) # Native(i))
  IN CASE ~IsDoc(status) -> status
       [] IsDoc(status) /\ app.proxy -> Doc(<<>>)
       [] IsDoc(status) /\ ~app.proxy /\ ~IsDoc(page) -> page
       [] IsDoc(status) /\ ~app.proxy /\ IsDoc(page) /\ Misshapen(app.history) -> Doc(<<>>)
       [] OTHER -> Doc([k \in DOMAIN fresh |-> Row(<<app.name, Native(fresh[k])>>, [App |-> app.name])])

rows(c, w, app) == CASE c = "health" -> healthRows(w, app)
                     [] c = "queue" -> queueRows(w, app)
                     [] c = "history" -> historyRows(w, app)

-----------------------------------------------------------------------------
(* collect.go                                                               *)

\* fanout: an instance that did not answer narrows the collection; any other
\* failure ends it; all of them failing, or none being askable, ends it too.
fanout(c, w, apps) ==
  LET asked == SelectSeq(apps, ready)
      got == [i \in DOMAIN asked |-> rows(c, w, asked[i])]
      answered == SelectSeq(got, IsDoc)
  IN IF \/ \E i \in DOMAIN got : ~IsDoc(got[i]) /\ ~narrowing(got[i])
        \/ asked = <<>> \/ answered = <<>>
     THEN Error ELSE Plain(FlattenSeq([i \in DOMAIN answered |-> answered[i].doc]))

\* The fleet is read once per batch, before any collection: configuration.
Opening(w) ==
  LET got == fleet(w)
  IN IF IsDoc(got) THEN Doc([i \in DOMAIN got.doc |-> <<got.doc[i].name, got.doc[i].missing, got.doc[i].duplicates>>])
     ELSE got

Collect(c, held, w) ==
  CASE c \notin Served -> NotServed
    [] c \in Served /\ held.is = "declined" -> held
    [] c \in Served /\ held.is # "declined" /\ ~w.clock -> Error
    [] OTHER -> LET apps == instanceSpecs(w)
                IN IF c = "apps" THEN appRows(w, apps) ELSE fanout(c, w, apps)

-----------------------------------------------------------------------------
(* verbs.go                                                                 *)

\* instanceNamed: a fan-out name is cut at its first slash.
instanceNamed(c, name, apps) ==
  SelectSeq(apps, LAMBDA a : name # Unstated /\ a.name = IF c = "apps" THEN name ELSE name[1])

\* serveObject: the named instance alone is asked, and its failure to answer
\* is the answer; an apps row is built with the whole fleet's.
serveObject(c, name, w) ==
  LET held == fleet(w)
      mine == instanceNamed(c, name, held.doc)
      built == CASE c = "apps" -> appRows(w, held.doc)
                 [] c # "apps" /\ (mine = <<>> \/ ~ready(mine[1])) -> Declined("unavailable")
                 [] OTHER -> LET r == rows(c, w, mine[1])
                             IN CASE narrowing(r) -> Declined("unavailable")
                                  [] IsDoc(r) -> Plain(r.doc)
                                  [] OTHER -> Error
  IN CASE c \notin Served -> Refusal("unsupported")
       [] c \in Served /\ held.is = "declined" -> Refusal(held.reason)
       [] c \in Served /\ (held.is = "error" \/ ~w.clock) -> NoResponse
       [] OTHER -> Opened(built, name, LAMBDA row : Response(<<ObjectRecord(row)>>))

\* redactHistoryPage: every URL in a record's data keeps its scheme and host.
redactHistoryPage(page) == {<<"url", "withheld">> : i \in DOMAIN page}

\* queueRecordNamed: the same walk, matched on a stated id only: a row named
\* by its position has no evidence.
queueRecordNamed(w, app, native) ==
  LET walk == queueWalk(w, app)
  IN IF native # "index" /\ <<app.name, native>> \in NamesOf(walk.rows) THEN Doc({})
     ELSE IF walk.failed = Unstated THEN Doc(Unstated) ELSE walk.failed

\* evidenceCanonical: the documents the named row was cut from (Unstated when
\* they do not publish it); an instance without receipts states its fault.
evidenceCanonical(c, name, w, app) ==
  LET status == document(w, app.status)
      health == document(w, app.health)
      Held(built, payload) == IF IsDoc(built) /\ name \notin NamesOf(built.doc) THEN Doc(Unstated)
                               ELSE FirstFailure(<<built, Doc(payload)>>)
  IN CASE ~ready(app) -> Unreadable
       [] ready(app) /\ c = "apps" -> FirstFailure(<<status, health, Doc({})>>)
       [] ready(app) /\ c = "health" -> Held(healthRows(w, app), {})
       [] ready(app) /\ c = "queue" ->
            queueRecordNamed(w, app, name[2])
       [] OTHER -> IF IsDoc(status) /\ ~app.proxy /\ Misshapen(app.history) THEN Unreadable
                   ELSE Held(historyRows(w, app), redactHistoryPage(app.history.items))

\* serveEvidence
serveEvidence(c, name, w) ==
  LET held == fleet(w)
      mine == instanceNamed(c, name, held.doc)
      got == IF mine = <<>> THEN Doc(Unstated) ELSE evidenceCanonical(c, name, w, mine[1])
  IN CASE c \notin Served -> Refusal("unsupported")
       [] c \in Served /\ held.is = "declined" -> Refusal(held.reason)
       [] c \in Served /\ (held.is = "error" \/ ~w.clock) -> NoResponse
       [] OTHER -> CASE narrowing(got) -> Refusal("unavailable")
                     [] IsDoc(got) -> IF got.doc = Unstated THEN Refusal("unavailable")
                                      ELSE Response(<<EvidenceRecord(got.doc, 1, 8)>>)
                     [] OTHER -> NoResponse

-----------------------------------------------------------------------------
(* What the world really holds.                                             *)

\* The names the instances that answered hold.
Heard(c, w) ==
  LET asked == SelectSeq(instanceSpecs(w), LAMBDA a : ready(a) /\ IsDoc(rows(c, w, a)))
  IN UNION {NamesOf(rows(c, w, asked[i]).doc) : i \in DOMAIN asked}
Holds(c, w) == IF c = "apps" THEN {w.fleet[i].name : i \in DOMAIN w.fleet} ELSE Heard(c, w)

\* The instances that did not answer, of those asked.
Dark(c, w) ==
  LET apps == instanceSpecs(w)
  IN IF c = "apps" THEN {} ELSE {apps[i].name : i \in {j \in DOMAIN apps : ready(apps[j]) /\ ~IsDoc(rows(c, w, apps[j]))}}
=============================================================================
