----------------------------- MODULE CollectUnits -----------------------------
(* se-collect-units: what systemd's manager lists, the slice each unit is a   *)
(* member of, and which units reference a name the manager could not load.    *)
EXTENDS CollectorKit

Served == {"units"}
Verbs == {"declare", "probe", "collect", "object", "evidence"}

\* missingUnitProbeLimit is 200 in the code, scaled down here.
missingUnitProbeLimit == 1

-----------------------------------------------------------------------------
(* The world: busctl, what each call meets, and the units.  slice is what the *)
(* Slice property holds, and referrers who names an absent unit and how.      *)

Unit(name, kind) == [name |-> name, kind |-> kind, load |-> "loaded", slice |-> "a.slice", sliceRead |-> "ok",
                     referrers |-> {}, propsRead |-> "ok"]
Top == [Unit("-.slice", "slice") EXCEPT !.slice = Unstated]
A == [Unit("a.slice", "slice") EXCEPT !.slice = "-.slice"]
X == Unit("x.service", "service")
Gone(name) == [Unit(name, "service") EXCEPT !.load = "not-found", !.slice = Unstated,
                                            !.referrers = {<<"WantedBy", "x.service">>}]

Fine == [replay |-> FALSE, tool |-> TRUE, clock |-> TRUE, list |-> "ok", files |-> "ok", filed |-> {},
         units |-> <<Top, A, X>>, staged |-> "some", loadUnit |-> "ok", props |-> "ok", typed |-> "ok"]

Worlds ==
  {Fine, [Fine EXCEPT !.tool = FALSE], [Fine EXCEPT !.clock = FALSE], [Fine EXCEPT !.units = <<X>>],
   [Fine EXCEPT !.units[3].slice = "b.slice"]}
  \union {[Fine EXCEPT !.list = l] : l \in {"failed", "huge", "garbage"}}
  \union {[Fine EXCEPT !.units[3].sliceRead = r] : r \in {"failed", "garbage"}}
  \union {[Fine EXCEPT !.units = @ \o more] :
            more \in {<<Gone("y.service")>>, <<Gone("y.service"), Gone("z.service")>>,
                      <<[Gone("y.service") EXCEPT !.propsRead = "failed"]>>,
                      <<[Gone("y.service") EXCEPT !.referrers = {}]>>,
                      <<[Gone("y.service") EXCEPT !.referrers = {<<"ConsistsOf", "x.service">>}]>>,
                      <<Unit("qemu.scope", "scope"), Unit("docker.scope", "scope")>>}}
  \union {[Fine EXCEPT !.units = Append(@, Unit("m.mount", "mount")), !.files = f, !.filed = n] :
            f \in {"ok", "failed", "garbage"}, n \in {{"m.mount"}, {"x.service"}, {}}}
  \union {[Fine EXCEPT !.loadUnit = c] : c \in {"failed", "odd"}}
  \union {[Fine EXCEPT !.props = c] : c \in {"failed", "garbage"}}
  \union {[Fine EXCEPT !.typed = c] : c \in {"failed", "garbage"}}
  \union {[Fine EXCEPT !.replay = TRUE, !.staged = s, !.list = l] :
            s \in {"none", "some", "twice"}, l \in {"ok", "uncaptured"}}
  \union {[Fine EXCEPT !.replay = TRUE, !.files = "uncaptured"],
          [Fine EXCEPT !.replay = TRUE, !.units[3].sliceRead = "uncaptured"],
          [Fine EXCEPT !.replay = TRUE, !.loadUnit = "uncaptured"],
          [Fine EXCEPT !.replay = TRUE, !.props = "uncaptured"]}

-----------------------------------------------------------------------------
(* source.go                                                                *)

\* call: one busctl invocation; without the tool there is no systemd here.
call(w, met) == CASE ~w.tool -> Declined("absent")
                  [] w.tool /\ met = "failed" -> Declined("unavailable")
                  [] w.tool /\ met = "huge" -> Error
                  [] OTHER -> Doc(met)

\* load and reply: no payload staged at all is no systemd; one request staged
\* twice, or one not staged, is a broken capture.
reply(w, met) == CASE w.staged = "twice" -> Error
                   [] w.staged = "none" \/ met = "uncaptured" -> Error
                   [] OTHER -> Doc(met)

Call(w, met) == IF w.replay THEN reply(w, met) ELSE call(w, met)

\* listUnits: the clock is read with the listing.
listUnits(w) == CASE w.replay /\ w.staged = "none" -> Declined("absent")
                  [] ~w.replay /\ w.tool /\ ~w.clock -> Error
                  [] OTHER -> Call(w, w.list)

probe(w) == IsDoc(listUnits(w))

-----------------------------------------------------------------------------
(* units.go                                                                 *)

absentReferenceInverse == [WantedBy |-> "Wants", RequiredBy |-> "Requires"]
referrerProperties == absentReferenceInverse @@ [ConsistsOf |-> "PartOf"]
absentReferenceFacts == [Requires |-> "MissingRequirements", Wants |-> "MissingWants"]

sliceParent(u) == u.slice
Sliced == {"service", "scope"}

\* workloadFacts: the scope's name says which container or machine it runs.
workloadFacts(u) == CASE u.name = "docker.scope" -> [ContainerID |-> "id"]
                      [] u.name = "qemu.scope" -> [MachineName |-> "vm"]
                      [] OTHER -> <<>>

\* absentReferences: each unit the manager could not load is asked who
\* references it, up to the limit; past it, or unread, that is said.
Absent(w) == LET s == SelectSeq(w.units, LAMBDA u : u.load = "not-found") IN s
Probed(w) == SubSeq(Absent(w), 1, IF Len(Absent(w)) < missingUnitProbeLimit THEN Len(Absent(w))
                                  ELSE missingUnitProbeLimit)
absentReferences(w, u) ==
  IF u.load # "not-found" THEN <<>>
  ELSE IF ~Contains(Probed(w), u) \/ ~IsDoc(Call(w, u.propsRead))
       THEN [MissingReferenceUnobservable |-> "unread"]
       ELSE LET by == {<<r[2], referrerProperties[r[1]]>> : r \in u.referrers}
            IN IF by = {} THEN <<>> ELSE [ReferencedBy |-> by]

\* referenceFor: the same answers, on the row of the unit that references.
referenceFor(w, u) ==
  LET named == {<<absentReferenceFacts[absentReferenceInverse[r[1]]], g.name>> :
                  <<r, g>> \in {<<r, g>> \in (UNION {h.referrers : h \in Range(Probed(w))}) \X Range(Probed(w)) :
                                  /\ r \in g.referrers /\ IsDoc(Call(w, g.propsRead))
                                  /\ r[1] \in DOMAIN absentReferenceInverse /\ r[2] = u.name}}
  IN [f \in {n[1] : n \in named} |-> {n[2] : n \in {m \in named : m[1] = f}}]

\* readSlices: the slice a service or scope says it is in, or that it did not say.
readSlices(w, u) ==
  LET got == Call(w, u.sliceRead)
  IN IF IsDoc(got) THEN IF got.doc = "garbage" THEN Declined("unavailable") ELSE Doc(u.slice)
     ELSE IF w.replay THEN Error ELSE Declined("unavailable")

\* uncapturedGuard: a capture that lacks one of the per-unit answers is broken.
Uncaptured(w) == \E u \in Range(w.units) :
                   \/ u.kind \in Sliced /\ readSlices(w, u) = Error
                   \/ Contains(Probed(w), u) /\ Call(w, u.propsRead) = Error

\* The manager's own listing, and its parent where the listing has it.
buildRow(w, u) ==
  LET read == IF u.kind \in Sliced THEN readSlices(w, u) ELSE Doc(IF u.kind = "slice" THEN sliceParent(u) ELSE Unstated)
      parent == IF IsDoc(read) THEN read.doc ELSE Unstated
      listed == {v.name : v \in Range(w.units)}
      synthesised == w.files = "ok" /\ w.filed # {} /\ u.kind = "mount" /\ u.name \notin w.filed
  IN [name |-> u.name,
      facts |-> Facts([LoadState |-> u.load, ActiveState |-> "active",
                       RuntimeSynthesised |-> IF synthesised THEN TRUE ELSE Unstated,
                       Slice |-> IF u.kind \in Sliced THEN parent ELSE Unstated])
                @@ workloadFacts(u) @@ absentReferences(w, u) @@ referenceFor(w, u),
      edges |-> IF parent \in listed THEN <<Edge("member-of", "unit", parent)>> ELSE <<>>,
      unobservable |-> IF IsDoc(read) THEN {} ELSE {<<"Slice", "unavailable">>}]

buildRows(w) ==
  LET got == listUnits(w)
  IN CASE ~IsDoc(got) -> got
       [] IsDoc(got) /\ (got.doc = "garbage" \/ Uncaptured(w)) -> Error
       [] OTHER -> Doc([i \in DOMAIN w.units |-> buildRow(w, w.units[i])])

collectUnits(w) == LET rows == buildRows(w) IN IF IsDoc(rows) THEN WithAll(rows.doc) ELSE rows

Opening(w) == Doc("nothing")
Collect(c, held, w) == IF c \in Served THEN collectUnits(w) ELSE NotServed

-----------------------------------------------------------------------------
(* verbs.go: a unit is opened by name, without the listing.                  *)

\* LoadUnit answers for a name nothing is loaded under: the manager says not-found.
Named(w, name) ==
  LET found == SelectSeq(w.units, LAMBDA u : u.name = name)
  IN IF found = <<>> THEN [Unit(name, "service") EXCEPT !.load = "not-found"] ELSE Head(found)

\* unitDetail: the path, the unit's properties, and its type's where the unit
\* loaded; the type's may fail and cost nothing else.
unitDetail(w) ==
  LET load == Call(w, w.loadUnit)
      props == Call(w, w.props)
  IN CASE load.is = "declined" \/ load.is = "error" -> load
       [] IsDoc(load) /\ load.doc = "odd" -> Declined("unavailable")
       [] OTHER -> CASE props.is = "error" -> Error
                     [] props.is = "declined" -> Declined("unavailable")
                     [] OTHER -> IF props.doc = "garbage" THEN Error ELSE Doc("read")

dependencyEdges(u) == IF u.load = "loaded" THEN <<Edge("after", "unit", "basic.target")>> ELSE <<>>
machineEdge(u) == IF "MachineName" \in DOMAIN workloadFacts(u)
                  THEN <<Edge("runs", "domain", workloadFacts(u).MachineName)>> ELSE <<>>

\* Facts of the manager's answer, more when the unit loaded, and the service's.
DetailFacts(w, u) ==
  Facts([LoadState |-> u.load, ActiveState |-> "active",
         FragmentPath |-> IF u.load = "loaded" THEN "path" ELSE Unstated,
         LoadError |-> IF u.load = "loaded" THEN Unstated ELSE "no such unit",
         MainPID |-> IF u.load = "loaded" /\ u.kind = "service" /\ w.typed = "ok" THEN 1 ELSE Unstated])

Refused(got) == IF got.is = "declined" THEN Refusal(got.reason) ELSE NoResponse

serveObject(c, name, w) ==
  CASE c \notin Served -> Refusal("unsupported")
    [] c \in Served /\ ~IsDoc(unitDetail(w)) -> Refused(unitDetail(w))
    [] OTHER -> LET u == Named(w, name)
                    edges == dependencyEdges(u) \o machineEdge(u)
                IN Response(<<ObjectRecord(Row(name, DetailFacts(w, u)))>> \o
                            [i \in DOMAIN edges |-> [record |-> "relation_assertion", edge |-> edges[i]]])

\* redactedProperties: the environment the unit is started with is withheld.
withheldProperties == {"Environment", "UnsetEnvironment", "PassEnvironment"}
redactedProperties(doc) == {p \in doc : p[1] \notin withheldProperties}

\* serveEvidence: both documents, the second where it was read.
serveEvidence(c, name, w) ==
  LET u == Named(w, name)
      unitDoc == {<<"LoadState", "document">>}
      typedDoc == IF u.load = "loaded" /\ u.kind = "service" /\ w.typed # "failed"
                  THEN {<<"Environment", "secret">>, <<"MainPID", "document">>} ELSE {}
  IN CASE c \notin Served -> Refusal("unsupported")
       [] c \in Served /\ ~IsDoc(unitDetail(w)) -> Refused(unitDetail(w))
       [] c \in Served /\ IsDoc(unitDetail(w)) /\ typedDoc # {} /\ w.typed = "garbage" -> NoResponse
       [] OTHER -> Response(<<EvidenceRecord(redactedProperties(unitDoc) \union redactedProperties(typedDoc), 1, 8)>>)

\* What the manager lists.
Holds(c, w) == IF (w.replay /\ w.staged = "none") \/ (~w.replay /\ ~w.tool) THEN {}
               ELSE {w.units[i].name : i \in DOMAIN w.units}
=============================================================================
