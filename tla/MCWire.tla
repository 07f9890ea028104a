------------------------------- MODULE MCWire -------------------------------
(* A small instance of WireStream: two collections, two names, two clock   *)
(* readings, and every record kind sound and with each of its defects.     *)
EXTENDS WireStream, TLC

MCCollections == {"a", "b"}
MCOdd == "Odd"
MCIssued == [c \in MCCollections |-> IF c = "a" THEN 1 ELSE 2]

Has(members, type) == [m \in members |-> type]

GoodBegin ==
  [record |-> "begin", sound |-> TRUE, request |-> "r", batch |-> "r", boot_id |-> "uuid",
   generations |-> MCIssued,
   has |-> Has({"request", "batch", "declaration", "boot_id"}, "str") @@
           ("timens" :> "int") @@ ("instance" :> "null") @@ ("generations" :> "obj")]

GoodObject(c, n, at) ==
  [record |-> "object", sound |-> TRUE, collection |-> c, name |-> n, at |-> at,
   type |-> "disk", facts |-> {"str"}, names |-> ("stable" :> {"str"}), absent |-> {"str"},
   evidence |-> ("digest" :> "str") @@ ("media_type" :> "application/json") @@ ("canon" :> "str"),
   has |-> Has({"collection", "name", "type"}, "str") @@ ("facts" :> "obj") @@
           ("at" :> "float") @@ ("names" :> "obj") @@ ("absent" :> "arr") @@ ("evidence" :> "obj")]

GoodRelation(c) ==
  [record |-> "relation_assertion", sound |-> TRUE, collection |-> c, facts |-> {"str"},
   target |-> Has({"kind", "name"}, "str"),
   has |-> Has({"collection", "name", "type", "vantage"}, "str") @@ ("target" :> "obj") @@
           ("facts" :> "obj")]

GoodUnobservable(c) ==
  [record |-> "unobservable", sound |-> TRUE, collection |-> c, reason |-> "unavailable",
   has |-> Has({"collection", "name", "fact", "reason", "detail"}, "str")]

GoodDecline(c, r) ==
  [record |-> "decline", sound |-> TRUE, collection |-> c, reason |-> r,
   has |-> Has({"collection", "reason"}, "str")]

GoodCommit(c, o, a, u) ==
  [record |-> "commit", sound |-> TRUE, collection |-> c, generation |-> MCIssued[c],
   objects |-> o, assertions |-> a, unobservable |-> u, cpu_ms |-> 0,
   has |-> Has({"collection"}, "str") @@
           Has({"generation", "objects", "assertions", "unobservable", "cpu_ms"}, "int")]

GoodEnd(wall) ==
  [record |-> "end", sound |-> TRUE, request |-> "r", batch |-> "r", cpu_ms |-> 0, wall_ms |-> wall,
   has |-> Has({"request", "batch"}, "str") @@ Has({"cpu_ms", "wall_ms"}, "int")]

\* An end that states no wall time, and one that echoes another batch.
StrayEnd == [GoodEnd(1) EXCEPT !.batch = "s"]
UntimedEnd == [GoodEnd(1) EXCEPT !.has = [x \in DOMAIN @ \ {"wall_ms"} |-> @[x]]]

Sound == {GoodBegin, GoodEnd(0), GoodEnd(1), UntimedEnd, StrayEnd, GoodUnobservable("a"),
          GoodDecline("a", "absent"), GoodDecline("b", "absent"),
          GoodDecline("a", "unavailable")}
         \union {GoodRelation("a")}
         \union {GoodObject("a", n, at) : n \in {"x", "y"}, at \in {1, 2}}
         \union {GoodObject("b", "x", 1), GoodCommit("b", 0, 0, 0), GoodCommit("b", 1, 0, 0)}
         \union {GoodCommit("a", n[1], n[2], n[3]) : n \in {m \in (0..2) \X (0..1) \X (0..1) :
                                                       m[1] + m[2] + m[3] <= 2 /\ m # <<0, 1, 1>>}}

\* Each record kind with one defect: a required member dropped, a member
\* added, a member of the wrong type, and the values a rule refuses.
Base == {GoodBegin, GoodEnd(1), GoodObject("a", "x", 1), GoodRelation("a"),
         GoodUnobservable("a"), GoodDecline("a", "unavailable"), GoodCommit("a", 0, 0, 0)}
Optional == {"type", "names", "absent", "evidence", "facts", "detail", "cpu_ms", "wall_ms"}
Drop(r, m) == [r EXCEPT !.sound = FALSE, !.has = [x \in DOMAIN @ \ {m} |-> @[x]]]
Bad(r) == [r EXCEPT !.sound = FALSE]
Undeclared == {[Bad(r) EXCEPT !.has = @ @@ ("novel" :> "str")] : r \in Base}
Defective ==
  UNION {{Drop(r, m) : m \in DOMAIN r.has \ (Optional \ (IF r.record = "object" THEN {"facts"} ELSE {}))} : r \in Base}
  \union Undeclared
  \union UNION {{[Bad(r) EXCEPT !.has[m] = "bool"] :
                  m \in DOMAIN r.has \ {"names", "absent", "evidence"}} : r \in Base}
  \union {[Bad(GoodBegin) EXCEPT !.boot_id = "nil"],
          [Bad(GoodBegin) EXCEPT !.has.instance = "empty"],
          [Bad(GoodBegin) EXCEPT !.generations = [MCIssued EXCEPT !["a"] = 0]],
          [Bad(GoodBegin) EXCEPT !.generations = ("a" :> 1)],
          [Bad(GoodBegin) EXCEPT !.generations = MCIssued @@ (MCOdd :> 1)]}
  \union {[Bad(GoodObject("a", "x", 1)) EXCEPT !.at = 0],
          [Bad(GoodObject("a", "x", 1)) EXCEPT !.at = AtMax + 1],
          [Bad(GoodObject("a", "x", 1)) EXCEPT !.type = MCOdd],
          [Bad(GoodObject("a", "x", 1)) EXCEPT !.facts = {"str", "null"}],
          [Bad(GoodObject("a", "x", 1)) EXCEPT !.names = ("Stable" :> {"str"})],
          [Bad(GoodObject("a", "x", 1)) EXCEPT !.names = ("stable" :> {"obj"})],
          [Bad(GoodObject("a", "x", 1)) EXCEPT !.absent = {"empty"}],
          [Bad(GoodObject("a", "x", 1)) EXCEPT !.evidence.media_type = "text/plain"],
          [Bad(GoodObject("a", "x", 1)) EXCEPT !.has.name = "empty"]}
  \union {[Bad(GoodRelation("a")) EXCEPT !.target = @ @@ ("id" :> "str")],
          [Bad(GoodRelation("a")) EXCEPT !.target = ("kind" :> "str")],
          [Bad(GoodUnobservable("a")) EXCEPT !.reason = "absent"],
          [Bad(GoodDecline("a", "absent")) EXCEPT !.reason = "busy"],
          [Bad(GoodDecline("a", "absent")) EXCEPT !.collection = MCOdd],
          [Bad(GoodCommit("a", 0, 0, 0)) EXCEPT !.generation = 0],
          [Bad(GoodCommit("a", 0, 0, 0)) EXCEPT !.objects = 0 - 1],
          [Bad(GoodCommit("a", 0, 0, 0)) EXCEPT !.cpu_ms = 0 - 1],
          [Bad(GoodEnd(1)) EXCEPT !.wall_ms = 0 - 1]}

\* A record's own rules look at nothing but the record: every defect is
\* refused wherever it stands, so one of each kind is enough in a stream.
ASSUME EveryDefectIsRefused == \A rec \in Defective : OwnRules(rec) # ""

MCPool == Sound \union Undeclared
          \union {[record |-> r, sound |-> FALSE] : r \in {"torn", "none", "novel"}}

\* Enough to complete every stream a wrongly refused record could be part of.
MCTails == {<<>>, <<GoodEnd(1)>>, <<GoodCommit("a", 0, 0, 0), GoodEnd(1)>>}
=============================================================================
