-------------------------- MODULE CollectPaperless --------------------------
(* se-collect-paperless: one row for the configured document archive: its   *)
(* inventory, and its own verdicts on its components.                       *)
EXTENDS CollectorKit

Served == {"instance"}
Verbs == {"declare", "probe", "collect", "object", "evidence"}

-----------------------------------------------------------------------------
(* The world.  A status document states a database and a queue verdict with *)
(* their errors, storage in bytes, and the urls it connects with.           *)

Good == [met |-> "ok", shape |-> "right", total |-> 8, available |-> 2, database |-> "OK",
         failure |-> Unstated, url |-> "plain"]
Fine == [replay |-> FALSE, url |-> TRUE, token |-> "set", clock |-> TRUE,
         staged |-> {"statistics", "status"}, statistics |-> Good, status |-> Good]

Met(m) == [Good EXCEPT !.met = m]
Misshapen == [Good EXCEPT !.shape = "wrong"]
Failing == {Met(m) : m \in {"silent", "code", "huge", "garbage"}}

Worlds ==
  {Fine, [Fine EXCEPT !.url = FALSE], [Fine EXCEPT !.clock = FALSE],
   [Fine EXCEPT !.token = "missing"], [Fine EXCEPT !.token = "unprintable"],
   [Fine EXCEPT !.statistics = Misshapen], [Fine EXCEPT !.status = Misshapen]}
  \union {[Fine EXCEPT !.statistics = a] : a \in Failing}
  \union {[Fine EXCEPT !.status = a] : a \in Failing}
  \union {[Fine EXCEPT !.status = [Good EXCEPT !.total = t, !.available = a]] :
            t \in {0, 3, 8, Unstated}, a \in {0, 1, Unstated}}
  \union {[Fine EXCEPT !.status = [Good EXCEPT !.database = d, !.failure = f]] :
            d \in {"ERROR", Unstated}, f \in {"why", Unstated}}
  \union {[Fine EXCEPT !.status = [Good EXCEPT !.url = u]] : u \in {"userinfo", "query", Unstated}}
  \union {[Fine EXCEPT !.replay = TRUE, !.staged = s, !.status = a] :
            s \in SUBSET {"statistics", "status"}, a \in {Good, Met("garbage")}}

-----------------------------------------------------------------------------
(* source.go, jsondoc.go                                                    *)

decodeDocument(answer) == answer.met # "garbage"

fetch(answer) == IF decodeDocument(answer) /\ answer.met = "ok" THEN Doc(answer)
                 ELSE Declined("unavailable")

Reading(statistics, status) == [statistics |-> statistics, status |-> status]

\* liveSource.instance: without a token there is nothing to ask; the
\* inventory is the answer, the status an enrichment that may be missing.
liveInstance(w) ==
  CASE ~w.url \/ w.token # "set" -> Declined("unavailable")
    [] w.url /\ w.token = "set" /\ ~w.clock -> Error
    [] OTHER -> CASE ~IsDoc(fetch(w.statistics)) -> fetch(w.statistics)
                  [] IsDoc(fetch(w.statistics)) /\ ~IsDoc(fetch(w.status)) ->
                       Doc(Reading(w.statistics, Unstated))
                  [] OTHER -> Doc(Reading(w.statistics, w.status))

replayInstance(w) ==
  CASE w.staged = {} -> Declined("unavailable")
    [] w.staged = {"statistics", "status"} /\ decodeDocument(w.statistics) /\ decodeDocument(w.status) ->
         Doc(Reading(w.statistics, w.status))
    [] OTHER -> Error

instance(w) == IF w.replay THEN replayInstance(w) ELSE liveInstance(w)

probe(w) == IsDoc(instance(w))

-----------------------------------------------------------------------------
(* instance.go                                                              *)

statisticsFacts(doc) == IF doc.shape = "wrong" THEN Error ELSE Doc([DocumentCount |-> 1])

\* The used share in per cent, rounded half to even; only of a stated total.
UsedPercent(total, available) ==
  LET used == (total - available) * 100
      half == 2 * (used % total)
      floor == used \div total
  IN IF half > total \/ (half = total /\ floor % 2 = 1) THEN floor + 1 ELSE floor

\* statusFacts: a component's error is carried only beside its verdict.
statusFacts(doc) ==
  IF doc.shape = "wrong" THEN Error
  ELSE Doc([StorageTotalBytes |-> doc.total, StorageAvailableBytes |-> doc.available,
            StorageUsedPercent |-> IF doc.total \notin {0, Unstated} /\ doc.available # Unstated
                                   THEN UsedPercent(doc.total, doc.available) ELSE Unstated,
            DatabaseStatus |-> doc.database,
            DatabaseError |-> IF doc.database = Unstated THEN Unstated ELSE doc.failure])

\* instanceRow: no inventory is no row at all, and the batch with it; a
\* status that was not read, or not readable, is stated on the row.
instanceRow(got) ==
  LET inventory == statisticsFacts(got.statistics)
      read == got.status # Unstated /\ IsDoc(statusFacts(got.status))
  IN IF ~IsDoc(inventory) THEN Error
     ELSE Plain(<<Row("paperless", Facts(inventory.doc @@
            IF read THEN statusFacts(got.status).doc ELSE [StatusUnobservable |-> "reason"]))>>)

collectInstance(w) == IF IsDoc(instance(w)) THEN instanceRow(instance(w).doc) ELSE instance(w)

Opening(w) == Doc("nothing")
Collect(c, held, w) == IF c \in Served THEN collectInstance(w) ELSE NotServed

-----------------------------------------------------------------------------
(* verbs.go                                                                 *)

\* The name is compared before the row is built, so an unreadable inventory
\* fails only the request that names the instance.
serveObject(c, name, w) ==
  CASE c \notin Served -> Refusal("unsupported")
    [] c \in Served /\ IsDoc(instance(w)) /\ name # "paperless" -> Refusal("unavailable")
    [] OTHER -> Opened(collectInstance(w), name, LAMBDA row : Response(<<ObjectRecord(row)>>))

\* redactOneURL: userinfo and query go, the rest of the address stays.
redactOneURL(url) == IF url \in {"userinfo", "query"} THEN "withheld" ELSE url

\* redactCredentialURLs: both places a status document carries one.
redactCredentialURLs(status) == {<<"url", redactOneURL(status.url)>>}

\* serveEvidence: the documents as read, whether or not a row could be built.
serveEvidence(c, name, w) ==
  CASE c \notin Served -> Refusal("unsupported")
    [] c \in Served /\ ~IsDoc(instance(w)) -> Opened(instance(w), name, LAMBDA row : NoResponse)
    [] OTHER ->
         LET got == instance(w).doc
         IN IF name # "paperless" THEN Refusal("unavailable")
            ELSE Response(<<EvidenceRecord(IF got.status = Unstated THEN {<<"status", "error">>}
                                           ELSE redactCredentialURLs(got.status), 1, 8)>>)

Holds(c, w) == IF (w.replay /\ w.staged # {}) \/ (~w.replay /\ w.url) THEN {"paperless"} ELSE {}
=============================================================================
