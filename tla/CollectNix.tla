------------------------------ MODULE CollectNix ------------------------------
(* se-collect-nix: the system generations of a NixOS host.                   *)
EXTENDS CollectorKit

Served == {"generations"}
Verbs == {"declare", "probe", "collect", "object", "evidence"}

Primitives == {"exists", "read", "listdir", "realpath", "readlink", "mtime"}

-----------------------------------------------------------------------------
(* The world: the closure pointers (and whether the stat of the running one  *)
(* is refused), the profile links and what is behind                         *)
(* each, the receipts directory, and the transcriptions a capture stages.    *)

\* n is not a number for a link another tool left in the directory.
Link(n, target) == [n |-> n, target |-> target, release |-> "25.05", manifest |-> Unstated,
                    receipt |-> Unstated]
One == Link("1", "a")
Two == Link("2", "b")
\* A manifest that does not decode promises nothing (schema 0).
Manifest(schema, expected) == [schema |-> schema, expected |-> expected]

Fine == [replay |-> FALSE, clock |-> TRUE, refused |-> FALSE, current |-> "b", booted |-> "a", profile |-> "b",
         dir |-> "ok", links |-> <<One, Two>>, receipts |-> TRUE, staged |-> Primitives,
         container |-> TRUE]

Worlds ==
  {Fine, [Fine EXCEPT !.refused = TRUE], [Fine EXCEPT !.current = Unstated], [Fine EXCEPT !.booted = Unstated],
   [Fine EXCEPT !.clock = FALSE], [Fine EXCEPT !.clock = FALSE, !.links = <<>>],
   [Fine EXCEPT !.dir = "unreadable"], [Fine EXCEPT !.links = <<One, Link(Unstated, "a")>>],
   [Fine EXCEPT !.links = <<One, Link("2", Unstated)>>]}
  \union {[Fine EXCEPT !.receipts = r, !.links = <<[One EXCEPT !.manifest = m, !.receipt = d]>>] :
            r \in BOOLEAN, m \in {Manifest(2, TRUE), Manifest(1, TRUE), Manifest(2, FALSE), Manifest(0, FALSE)},
            d \in {Unstated, "garbage", "succeeded"}}
  \union {[Fine EXCEPT !.replay = TRUE, !.staged = s, !.container = x] :
            s \in {{}, Primitives, Primitives \ {"listdir"}, Primitives \ {"mtime"}}, x \in BOOLEAN}

-----------------------------------------------------------------------------
(* source.go.  Live, a path that cannot be read is an empty answer; in       *)
(* replay, a transcription that is not there declines and a path it does     *)
(* not hold is a broken capture.                                             *)

answer(w, primitive) ==
  CASE primitive \notin w.staged -> Declined("absent")
    [] primitive \in w.staged /\ ~w.container -> Error
    [] OTHER -> Doc(primitive)

Seam(w, primitive) == IF w.replay THEN answer(w, primitive) ELSE Doc(primitive)

\* A stat that fails, for whatever reason, is a path that is not there.
exists(w) == IF IsDoc(Seam(w, "exists")) THEN Doc(w.current # Unstated /\ ~w.refused) ELSE Seam(w, "exists")

listdir(w) == IF w.dir = "ok" THEN w.links ELSE <<>>

probe(w) == exists(w).is = "document" /\ exists(w).doc

-----------------------------------------------------------------------------
(* generations.go                                                           *)

\* generationLinks: numbered links that lead somewhere, newest first.
generationLinks(w) ==
  LET named == SelectSeq(listdir(w), LAMBDA l : l.n # Unstated)
  IN CASE ~IsDoc(Seam(w, "listdir")) -> Error
       [] IsDoc(Seam(w, "listdir")) /\ named # <<>> /\ ~IsDoc(Seam(w, "readlink")) -> Error
       [] OTHER -> Doc(Reverse(SelectSeq(named, LAMBDA l : l.target # Unstated)))

\* readPointers: what is running, what was booted, what the profile is.
readPointers(w) == [current |-> w.current, booted |-> w.booted, profile |-> w.profile]

\* attachDeployment: a manifest of the schema that promises receipts, and a
\* receipts directory, make one expected; the receipt itself may be missing.
attachDeployment(w, gen) ==
  LET expected == /\ gen.manifest # Unstated /\ w.receipts
                  /\ gen.manifest.expected /\ gen.manifest.schema >= 2
      receipt == IF expected /\ gen.receipt # "garbage" THEN gen.receipt ELSE Unstated
  IN [ReceiptsExpected |-> IF expected THEN TRUE ELSE Unstated, DeploymentOutcome |-> receipt]

generationRow(w, gen) ==
  LET ptr == readPointers(w)
  IN Row(gen.n, Facts([NixosVersion |-> gen.release, Current |-> gen.target = ptr.current,
                       Booted |-> gen.target = ptr.booted, Profile |-> gen.target = ptr.profile,
                       StorePath |-> gen.target] @@ attachDeployment(w, gen)))

\* Every primitive the pointers and the rows read, then the clock: any one
\* that a capture lacks ends the process, as does the clock - if there is a row.
Readable(w, rows) ==
  /\ \A p \in {"realpath"} \union (IF rows = <<>> THEN {} ELSE Primitives) : IsDoc(Seam(w, p))
  /\ rows # <<>> /\ ~w.replay => w.clock

collectGenerations(w) ==
  LET links == generationLinks(w)
  IN CASE exists(w).is = "error" -> Error
       [] exists(w).is = "declined" -> Declined("absent")
       [] IsDoc(exists(w)) /\ ~exists(w).doc -> Declined("absent")
       [] OTHER -> IF IsDoc(links) /\ Readable(w, links.doc)
                   THEN Plain([i \in DOMAIN links.doc |-> generationRow(w, links.doc[i])])
                   ELSE Error

Opening(w) == Doc("nothing")
Collect(c, held, w) == IF c \in Served THEN collectGenerations(w) ELSE NotServed

-----------------------------------------------------------------------------
(* verbs.go                                                                 *)

\* verbLinks, then the name; only then the pointers and the one row.
verbLinks(c, name, w, Found(_)) ==
  LET links == generationLinks(w)
  IN CASE c \notin Served -> Refusal("unsupported")
       [] c \in Served /\ exists(w).is = "error" -> NoResponse
       [] c \in Served /\ (exists(w).is = "declined" \/ (IsDoc(exists(w)) /\ ~exists(w).doc)) ->
            Refusal("absent")
       [] OTHER -> IF ~IsDoc(links) THEN NoResponse
                   ELSE LET found == SelectSeq(links.doc, LAMBDA l : l.n = name)
                        IN IF found = <<>> THEN Refusal("unavailable")
                           ELSE IF Readable(w, found) THEN Found(Head(found)) ELSE NoResponse

serveObject(c, name, w) ==
  verbLinks(c, name, w, LAMBDA gen : Response(<<ObjectRecord(generationRow(w, gen))>>))

\* serveEvidence: the link, the pointers, the files, and the receipt or null;
\* it needs no clock.
serveEvidence(c, name, w) ==
  verbLinks(c, name, [w EXCEPT !.clock = TRUE], LAMBDA gen :
    Response(<<EvidenceRecord({<<"target", gen.target>>, <<"receipt", gen.receipt>>}, 1, 8)>>))

-----------------------------------------------------------------------------
(* The generations whose links could be listed; and those that could not.    *)

Generations(w) == {w.links[i].n : i \in {j \in DOMAIN w.links : w.links[j].target # Unstated}} \ {Unstated}
Unlooked(w) == ~w.replay /\ w.refused
Shown(w) == w.current # Unstated /\ (w.replay => w.staged # {})
Holds(c, w) == IF Shown(w) /\ w.dir = "ok" THEN Generations(w) ELSE {}
Unread(c, w) == IF Shown(w) /\ w.dir = "unreadable" THEN Generations(w) ELSE {}
=============================================================================
