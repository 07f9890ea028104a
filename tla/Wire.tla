-------------------------------- MODULE Wire --------------------------------
(***************************************************************************)
(* The collator's side of the collect stream (go/internal/wire).  A stream *)
(* is a sequence of records; a record is its kind, the members it carries  *)
(* with the JSON type of each (`has`), and the values the rules look at.   *)
(* ParseBatch reads the records into a batch and keeps the first violation *)
(* it meets: a violated batch is authoritative for nothing.                *)
(***************************************************************************)
EXTENDS Integers, FiniteSets, Sequences

CONSTANTS Odd,           \* a name or type the collection-name pattern refuses
          AtMax          \* wire.go's 1e9: a larger `at` is a wall clock

Reasons == {"absent", "unauthorised", "unavailable", "unsupported"}

\* A check says its machine-stable reason when it fails, and "" when it passes.
When(failed, reason) == IF failed THEN reason ELSE ""

\* The first check that fails; "" when none does.
First(checks) ==
  LET failed == {i \in DOMAIN checks : checks[i] # ""}
  IN IF failed = {} THEN "" ELSE checks[CHOOSE i \in failed : \A j \in failed : i <= j]

\* A stated value of a JSON type other than the one a rule wants.
Typed(rec, m, types) == m \in DOMAIN rec.has /\ rec.has[m] \in types

-----------------------------------------------------------------------------
(* Checks shared by the record parsers.                                    *)

\* fields: every required member, and no member the contract does not name.
fields(rec, required, optional) ==
  << When(~(required \subseteq DOMAIN rec.has), "missing-member"),
     When(~(DOMAIN rec.has \subseteq required \union optional), "undeclared-member") >>

\* identity: a non-empty string ("empty" is the type of the empty string).
identity(rec, m) == << When(~Typed(rec, m, {"str"}), "bad-identity") >>

\* knownCollection: a well-formed name that this request issued.
knownCollection(rec, issued) ==
  identity(rec, "collection") \o
  << When(rec.collection = Odd, "bad-collection-name"),
     When(rec.collection \notin DOMAIN issued, "unissued-collection") >>

\* count: a non-negative integer.
count(rec, m) == << When(~Typed(rec, m, {"int"}) \/ rec[m] < 0, "bad-count") >>

\* checkMeasured: a reported cost is a finite non-negative number, when stated.
checkMeasured(rec, m, reason) ==
  << When(m \in DOMAIN rec.has /\ (~Typed(rec, m, {"int", "float"}) \/ rec[m] < 0), reason) >>

\* findNull: no null anywhere inside the facts (the set of leaf types met).
findNull(leaves) == "null" \in leaves

\* checkNames: two stability classes, and scalar, non-empty names in each.
checkNames(names) ==
  ~ /\ DOMAIN names \subseteq {"stable", "ephemeral"}
    /\ \A class \in DOMAIN names : names[class] \subseteq {"str", "int", "float"}

\* checkEvidence: closed members, digest and media type stated, and `canon`
\* exactly on JSON (ev maps each member to its value's type or media type).
checkEvidence(ev) ==
  ~ /\ DOMAIN ev \subseteq {"digest", "media_type", "canon"}
    /\ {"digest", "media_type"} \subseteq DOMAIN ev
    /\ ev.digest = "str" /\ ev.media_type \in {"application/json", "text/plain"}
    /\ (ev.media_type = "application/json") <=> ("canon" \in DOMAIN ev)
    /\ "canon" \in DOMAIN ev => ev["canon"] = "str"

-----------------------------------------------------------------------------
(* The record parsers: "" or the reason the record voids the batch.        *)

\* parseBegin, with the echo rule: exactly the generations that were issued.
parseBegin(rec, issued) == First(
  fields(rec, {"request", "batch", "declaration", "boot_id", "timens",
               "instance", "generations"}, {}) \o
  identity(rec, "request") \o identity(rec, "batch") \o
  identity(rec, "declaration") \o identity(rec, "boot_id") \o
  << When(rec.boot_id # "uuid", "bad-boot-id"),
     When(~Typed(rec, "timens", {"int"}), "bad-timens"),
     When(~Typed(rec, "instance", {"str", "null"}), "bad-instance"),
     When(~Typed(rec, "generations", {"obj"}), "bad-generations"),
     When(\E c \in DOMAIN rec.generations : c = Odd \/ rec.generations[c] < 0,
       "bad-generations"),
     When(rec.generations # issued, "generations-echo-mismatch") >>)

\* parseObject: an object's type, when stated, is a lowercase name.
parseObject(rec, issued) == First(
  fields(rec, {"collection", "name", "facts", "at"},
              {"type", "names", "absent", "evidence"}) \o
  knownCollection(rec, issued) \o identity(rec, "name") \o
  << When("type" \in DOMAIN rec.has /\ (~Typed(rec, "type", {"str"}) \/ rec.type = Odd),
       "bad-type"),
     When(~Typed(rec, "facts", {"obj"}), "bad-facts"),
     When(findNull(rec.facts), "null-fact"),
     When("names" \in DOMAIN rec.has /\ checkNames(rec.names), "bad-names"),
     When("absent" \in DOMAIN rec.has /\ ~(rec.absent \subseteq {"str"}), "bad-absent"),
     When("evidence" \in DOMAIN rec.has /\ checkEvidence(rec.evidence), "bad-evidence"),
     When(~Typed(rec, "at", {"int", "float"}), "bad-at"),
     When(~(rec.at > 0) \/ rec.at > AtMax, "at-out-of-range") >>)

\* parseRelation: a target is a kind and a name, never an id nor a verdict.
parseRelation(rec, issued) == First(
  fields(rec, {"collection", "name", "type", "vantage", "target"}, {"facts"}) \o
  knownCollection(rec, issued) \o
  identity(rec, "name") \o identity(rec, "type") \o identity(rec, "vantage") \o
  << When(~Typed(rec, "target", {"obj"}), "bad-target"),
     When(~(DOMAIN rec.target \subseteq {"kind", "name"}), "bad-target"),
     When(\E m \in {"kind", "name"} : m \notin DOMAIN rec.target \/ rec.target[m] # "str",
       "bad-identity"),
     When("facts" \in DOMAIN rec.has /\ ~Typed(rec, "facts", {"obj"}), "bad-facts"),
     When("facts" \in DOMAIN rec.has /\ findNull(rec.facts), "null-fact") >>)

parseUnobservable(rec, issued) == First(
  fields(rec, {"collection", "name", "fact", "reason"}, {"detail"}) \o
  knownCollection(rec, issued) \o identity(rec, "name") \o identity(rec, "fact") \o
  << When(~Typed(rec, "reason", {"str"}) \/ rec.reason \notin Reasons \ {"absent"},
       "bad-unobservable-reason"),
     When("detail" \in DOMAIN rec.has /\ ~Typed(rec, "detail", {"str", "empty"}), "bad-detail") >>)

parseDecline(rec, issued) == First(
  fields(rec, {"collection", "reason"}, {"detail"}) \o
  knownCollection(rec, issued) \o
  << When(~Typed(rec, "reason", {"str"}) \/ rec.reason \notin Reasons, "bad-decline-reason"),
     When("detail" \in DOMAIN rec.has /\ ~Typed(rec, "detail", {"str", "empty"}), "bad-detail") >>)

parseCommit(rec, issued) == First(
  fields(rec, {"collection", "generation", "objects", "assertions", "unobservable"},
              {"cpu_ms"}) \o
  knownCollection(rec, issued) \o count(rec, "generation") \o
  << When(rec.collection \in DOMAIN issued /\ rec.generation # issued[rec.collection],
       "generation-echo-mismatch") >> \o
  count(rec, "objects") \o count(rec, "assertions") \o count(rec, "unobservable") \o
  checkMeasured(rec, "cpu_ms", "bad-cpu-ms"))

parseEnd(rec) == First(
  fields(rec, {"request", "batch"}, {"cpu_ms", "wall_ms"}) \o
  identity(rec, "request") \o identity(rec, "batch") \o
  checkMeasured(rec, "cpu_ms", "bad-cpu-ms") \o
  checkMeasured(rec, "wall_ms", "bad-wall-ms"))

-----------------------------------------------------------------------------
(* The batch being built.                                                  *)

None == [reason |-> "none"]
NoCommit == [objects |-> -1, assertions |-> -1, unobservable |-> -1]

EmptyStream == [objects |-> <<>>, assertions |-> 0, unobservables |-> 0,
                decline |-> None, commit |-> NoCommit, lastAt |-> 0]

\* Mutant: a collection's stream is made by its first record.
EmptyBatchLazy(issued) ==
  [violation |-> "", seenBegin |-> FALSE, seenEnd |-> FALSE,
   begin |-> <<>>, end |-> <<>>, wall |-> 0, collections |-> <<>>]

EmptyBatch(issued) ==
  [violation |-> "", seenBegin |-> FALSE, seenEnd |-> FALSE,
   begin |-> <<>>, end |-> <<>>, wall |-> 0,
   collections |-> [c \in DOMAIN issued |-> EmptyStream]]

Void(b, reason) == [b EXCEPT !.violation = reason]

\* Mutant: a commit does not close its collection.
openAlways(b, c) == <<>>

\* open: nothing may trail in behind a commit's counts.
open(b, c) ==
  << When(c \in DOMAIN b.collections /\ b.collections[c].commit # NoCommit,
       "record-after-commit") >>

\* openEmitting: a declined collection takes no further emission.
openEmitting(b, c) ==
  open(b, c) \o
  << When(c \in DOMAIN b.collections /\ b.collections[c].decline # None,
       "record-after-decline") >>

\* The stream so far for the record's collection (empty when it has none).
Said(b, c) == IF c \in DOMAIN b.collections THEN b.collections[c] ELSE EmptyStream

\* Why ParseBatch's loop refuses the record, or "": the record's own rules
\* and the rules on its place in the stream, in the order of the code.
Rejection(b, rec, issued) ==
  LET c == rec.collection
      said == Said(b, c)
  IN CASE rec.record = "begin" ->
            First(<< When(b.seenBegin, "duplicate-begin"), parseBegin(rec, issued) >>)
       [] rec.record = "object" ->
            First(<< parseObject(rec, issued) >> \o openEmitting(b, c) \o
                  << When(rec.at < said.lastAt, "at-decreasing"),
                     When(\E i \in DOMAIN said.objects : said.objects[i] = rec.name,
                          "duplicate-object-name") >>)
       [] rec.record = "relation_assertion" ->
            First(<< parseRelation(rec, issued) >> \o openEmitting(b, c))
       [] rec.record = "unobservable" ->
            First(<< parseUnobservable(rec, issued) >> \o openEmitting(b, c))
       [] rec.record = "decline" ->
            First(<< parseDecline(rec, issued) >> \o open(b, c) \o
                  << When(said.decline # None, "duplicate-decline"),
                     When(said.objects # <<>> \/ said.assertions + said.unobservables > 0,
                          "decline-after-records") >>)
       [] rec.record = "commit" -> First(<< parseCommit(rec, issued) >> \o open(b, c))
       [] rec.record = "end" -> parseEnd(rec)
       [] OTHER -> "unknown-record"

\* What a collection has said, with one more record about it.
Say(said, rec) ==
  CASE rec.record = "object" ->
         [said EXCEPT !.objects = Append(@, rec.name), !.lastAt = rec.at]
    [] rec.record = "relation_assertion" -> [said EXCEPT !.assertions = @ + 1]
    [] rec.record = "unobservable" -> [said EXCEPT !.unobservables = @ + 1]
    [] rec.record = "decline" -> [said EXCEPT !.decline = [reason |-> rec.reason]]
    [] rec.record = "commit" ->
         [said EXCEPT !.commit = [objects |-> rec.objects, assertions |-> rec.assertions,
                                  unobservable |-> rec.unobservable]]

\* What a record that is not refused adds to the batch.
Add(b, rec) ==
  CASE rec.record = "begin" ->
         [b EXCEPT !.seenBegin = TRUE, !.begin = <<rec.request, rec.batch>>]
    [] rec.record = "end" ->
         [b EXCEPT !.seenEnd = TRUE, !.end = <<rec.request, rec.batch>>,
                   !.wall = IF "wall_ms" \in DOMAIN rec.has THEN rec.wall_ms ELSE 0]
    [] OTHER -> [b EXCEPT !.collections[rec.collection] = Say(@, rec)]

\* One iteration of the loop, past its guards.
Take(b, rec, issued) ==
  LET refused == Rejection(b, rec, issued)
  IN IF refused # "" THEN Void(b, refused) ELSE Add(b, rec)

\* The loop's guards, then the record: nothing after end, nothing before
\* begin.  A line that is not one JSON object ("torn") voids the batch first.
Receive(b, rec, issued) ==
  IF b.violation # "" THEN b
  ELSE LET early == First(<< When(rec.record = "torn", "unparseable-record"),
                             When(rec.record = "none", "missing-record-discriminator"),
                             When(b.seenEnd, "record-after-end"),
                             When(~b.seenBegin /\ rec.record # "begin", "begin-not-first") >>)
       IN IF early # "" THEN Void(b, early) ELSE Take(b, rec, issued)

\* Mutant: the counts a commit states are not compared with what came.
checkUncounted(b) == First(<< When(b.end # b.begin, "end-echo-mismatch") >>)

\* check: the rules that hold only of a complete stream.
check(b) ==
  LET Answered(c) == b.collections[c]
      Committed == {c \in DOMAIN b.collections : Answered(c).commit # NoCommit}
  IN First(
  << When(b.end # b.begin, "end-echo-mismatch"),
     When(\E c \in DOMAIN b.collections :
         Answered(c).decline.reason = "absent" /\ c \notin Committed, "absent-without-commit"),
     When(\E c \in Committed : Answered(c).decline.reason = "absent" /\
         Answered(c).commit # [objects |-> 0, assertions |-> 0, unobservable |-> 0],
       "absent-with-objects"),
     When(\E c \in Committed : Answered(c).decline.reason \in Reasons \ {"absent"},
       "decline-with-commit"),
     When(\E c \in Committed : Answered(c).commit #
         [objects |-> Len(Answered(c).objects), assertions |-> Answered(c).assertions,
          unobservable |-> Answered(c).unobservables], "commit-count-mismatch"),
     When((\E c \in DOMAIN b.collections : Answered(c).objects # <<>>) /\ ~(b.wall > 0),
          "wall-ms-not-positive") >>)

\* Mutant: end of file ends a batch as well as an end record does.
FinishTolerant(b, length) ==
  IF b.violation # "" \/ ~b.seenEnd THEN b
  ELSE Void(b, First(<< check(b) >>))

\* The end of the stream: no record at all, no end record, or check's verdict.
Finish(b, length) ==
  IF b.violation # "" THEN b
  ELSE Void(b, First(<< When(length = 0, "empty-stream"), When(~b.seenEnd, "missing-end"),
                        check(b) >>))

\* read[n] is the batch after the first n records.
ParseBatch(stream, issued) ==
  LET read[n \in 0..Len(stream)] ==
        IF n = 0 THEN EmptyBatch(issued) ELSE Receive(read[n - 1], stream[n], issued)
  IN Finish(read[Len(stream)], Len(stream))

Accepted(b) == b.violation = ""

\* Uncommitted: issued collections that neither committed nor declined.
Uncommitted(b) ==
  {c \in DOMAIN b.collections : /\ b.collections[c].commit = NoCommit
                                /\ b.collections[c].decline = None}
=============================================================================
