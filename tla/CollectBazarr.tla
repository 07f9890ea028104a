---------------------------- MODULE CollectBazarr ----------------------------
(* se-collect-bazarr: one row for the configured subtitle manager.          *)
EXTENDS CollectorKit

Served == {"instance"}
Verbs == {"declare", "probe", "collect", "object", "evidence"}

-----------------------------------------------------------------------------
(* The world: what is configured, what each GET meets and the document      *)
(* behind it - its shape ("right" or "wrong") and what it states.           *)

Answer_(met, shape, states) == [met |-> met, shape |-> shape, states |-> states]
Quiet == Answer_("ok", "right", {})
Failing == {Answer_(m, "right", {}) : m \in {"silent", "code", "huge", "garbage"}}

Fine == [replay |-> FALSE, url |-> TRUE, clock |-> TRUE, key |-> "set",
         staged |-> {"status", "health"}, status |-> Quiet, health |-> Quiet]

Worlds ==
  {Fine, [Fine EXCEPT !.url = FALSE], [Fine EXCEPT !.clock = FALSE],
   [Fine EXCEPT !.key = "missing"], [Fine EXCEPT !.key = "unprintable"]}
  \union {[Fine EXCEPT !.status = a, !.health = b] :
            a \in Failing \union {Answer_("ok", "wrong", {}), Answer_("ok", "right", {"Version"})},
            b \in {Quiet, Answer_("code", "right", {}), Answer_("ok", "wrong", {}),
                   Answer_("ok", "right", {"an issue"})}}
  \union {[Fine EXCEPT !.replay = TRUE, !.staged = s, !.status = a] :
            s \in SUBSET {"status", "health"}, a \in {Quiet, Answer_("garbage", "right", {})}}

-----------------------------------------------------------------------------
(* source.go, jsondoc.go                                                    *)

\* A reading of the one instance: what configuration lacks, the documents
\* read (Unstated when not), and why one was not.
Reading(missing, status, health, unobservable) ==
  [missing |-> missing, status |-> status, health |-> health, unobservable |-> unobservable]

\* decodeDocument: one JSON value and nothing after it.
decodeDocument(answer) == answer.met # "garbage"

\* fetch: anything but a whole, bounded, decodable 200 is a stated reason.
fetch(answer) == IF decodeDocument(answer) /\ answer.met = "ok" THEN Doc(answer)
                 ELSE Declined("unobservable")

\* Mutant: an instance whose key is missing is not on this host.
liveInstanceUnkeyed(w) ==
  CASE ~w.url -> Declined("unavailable")
    [] w.url /\ ~w.clock -> Error
    [] w.url /\ w.clock /\ w.key # "set" -> Declined("absent")
    [] OTHER -> Doc(Reading({}, w.status, w.health, Unstated))

\* liveSource.instance: no url is no instance; then the clock; a key that is
\* not there or cannot go in a header is a row; then status, then health.
liveInstance(w) ==
  CASE ~w.url -> Declined("unavailable")
    [] w.url /\ ~w.clock -> Error
    [] w.url /\ w.clock /\ w.key # "set" -> Doc(Reading({w.key}, Unstated, Unstated, Unstated))
    [] OTHER ->
         CASE ~IsDoc(fetch(w.status)) -> Doc(Reading({}, Unstated, Unstated, "status"))
           [] IsDoc(fetch(w.status)) /\ ~IsDoc(fetch(w.health)) ->
                Doc(Reading({}, w.status, Unstated, "health"))
           [] OTHER -> Doc(Reading({}, w.status, w.health, Unstated))

\* replaySource.instance: both payloads, or neither; one alone is a broken
\* capture, and so is one that does not decode.
replayInstance(w) ==
  CASE w.staged = {} -> Declined("unavailable")
    [] w.staged = {"status", "health"} /\ decodeDocument(w.status) /\ decodeDocument(w.health) ->
         Doc(Reading({}, w.status, w.health, Unstated))
    [] OTHER -> Error

instance(w) == IF w.replay THEN replayInstance(w) ELSE liveInstance(w)

\* probe: a configured instance is a yes, whatever it answers.
probe(w) == IsDoc(instance(w))

-----------------------------------------------------------------------------
(* instance.go                                                              *)

\* statusFacts and healthIssues read what the document states, or refuse its
\* shape; a document that states nothing is a reading of nothing.
statusFacts(doc) == IF doc.shape = "wrong" THEN Error ELSE Doc(doc.states)
healthIssues(doc) == IF doc.shape = "wrong" THEN Error ELSE Doc(doc.states)

\* instanceRow: missing configuration is the whole row; a status that could
\* not be read hides the health, and the row says which was not observed.
instanceRow(got) ==
  LET status == got.status # Unstated /\ IsDoc(statusFacts(got.status))
      first == IF got.status # Unstated /\ ~status THEN "status" ELSE got.unobservable
      asked == first = Unstated /\ got.health # Unstated
      health == asked /\ IsDoc(healthIssues(got.health))
      unobservable == IF asked /\ ~health THEN "health" ELSE first
  IN Row("bazarr",
         IF got.missing # {} THEN [ConfigMissing |-> got.missing]
         ELSE Facts([Version |-> IF status /\ statusFacts(got.status).doc # {}
                                 THEN statusFacts(got.status).doc ELSE Unstated,
                     HealthIssues |-> IF health THEN healthIssues(got.health).doc ELSE Unstated,
                     StatusUnobservable |-> unobservable]))

\* collectInstance
collectInstance(w) == IF IsDoc(instance(w)) THEN Plain(<<instanceRow(instance(w).doc)>>)
                      ELSE instance(w)

Opening(w) == Doc("nothing")
Collect(c, held, w) == IF c \in Served THEN collectInstance(w) ELSE NotServed

-----------------------------------------------------------------------------
(* verbs.go                                                                 *)


\* verbReading, then the name, then the row.
serveObject(c, name, w) ==
  IF c \notin Served THEN Refusal("unsupported")
  ELSE Opened(collectInstance(w), name, LAMBDA row : Response(<<ObjectRecord(row)>>))

\* serveEvidence: each document read, or the reason it was not; configuration
\* that is missing leaves both unread for no stated reason.
serveEvidence(c, name, w) ==
  IF c \notin Served THEN Refusal("unsupported")
  ELSE Opened(collectInstance(w), name, LAMBDA row :
         LET got == instance(w).doc
             Part(m, doc) == IF doc = Unstated THEN <<m, "error">> ELSE <<m, "document">>
         IN Response(<<EvidenceRecord({Part("status", got.status), Part("health", got.health)}, 1, 8)>>))

\* A configured instance is an object, whatever it answers.
Holds(c, w) == IF (w.replay /\ w.staged # {}) \/ (~w.replay /\ w.url) THEN {"bazarr"} ELSE {}
=============================================================================
