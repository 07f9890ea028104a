---------------------------- MODULE CollectPackages ----------------------------
(* se-collect-packages: what the host's one package manager says is installed. *)
EXTENDS CollectorKit

Served == {"packages"}
Verbs == {"declare", "probe", "collect", "object", "evidence"}

Managers == {"nix", "dpkg", "rpm"}

-----------------------------------------------------------------------------
(* The world: the managers installed, whether the stats of the system        *)
(* profile are refused, what a query meets and lists, the                    *)
(* system profile's subdirectories, and what a capture stages.               *)

Package(name, arch) == [name |-> name, version |-> "1", arch |-> arch, status |-> "installed"]
LibZ == Package("libz1", "amd64")
Links(names) == [read |-> "ok", links |-> names]

Fine == [replay |-> FALSE, clock |-> TRUE, has |-> {"dpkg"}, refused |-> FALSE, query |-> "ok",
         installed |-> <<LibZ>>, sub |-> [s \in {"bin", "lib"} |-> Links({"curl-8"})],
         manager |-> Unstated, staged |-> {}, shape |-> "right"]

Worlds ==
  {[Fine EXCEPT !.has = h] : h \in SUBSET Managers} \union {[Fine EXCEPT !.clock = FALSE]}
  \union {[Fine EXCEPT !.has = {m}, !.query = q] : m \in {"dpkg", "rpm"}, q \in {"failed", "timeout"}}
  \union {[Fine EXCEPT !.has = {m}, !.installed = p] : m \in {"dpkg", "rpm"}, p \in
            {<<>>, <<LibZ, Package("libz1", "i386")>>, <<Package("zstd", Unstated), LibZ>>,
             <<LibZ, [Package("old", "amd64") EXCEPT !.status = "config-files"]>>,
             <<[LibZ EXCEPT !.status = Unstated, !.version = Unstated]>>}}
  \union {[Fine EXCEPT !.has = {"nix"}, !.sub = [@ EXCEPT !["lib"] = s]] :
            s \in {Links({"curl-8", "jq"}), [read |-> "missing", links |-> {}],
                   [read |-> "unreadable", links |-> {"zlib-1"}]}}
  \union {[Fine EXCEPT !.refused = TRUE, !.has = h] : h \in {{"nix"}, {"nix", "dpkg"}, {"dpkg"}}}
  \union {[Fine EXCEPT !.replay = TRUE, !.manager = m, !.staged = s, !.shape = x] :
            m \in Managers \union {Unstated, "other"}, s \in {{}, {"dpkg"}, Managers},
            x \in {"right", "wrong"}}

-----------------------------------------------------------------------------
(* source.go                                                                *)

\* detect: an activated system profile first - one whose stat is refused is
\* none -, then dpkg, then rpm.
detect(w) ==
  LET seen == IF w.refused THEN w.has \ {"nix"} ELSE w.has
  IN CASE "nix" \in seen -> "nix"
       [] "nix" \notin seen /\ "dpkg" \in seen -> "dpkg"
       [] seen = {"rpm"} -> "rpm"
       [] OTHER -> Unstated

\* rowsFrom: a query that fails or runs out of time is no answer.
rowsFrom(w) == IF w.query = "ok" THEN Doc(w.installed) ELSE Declined("unavailable")

\* storePaths: every store path the profile links to, a subdirectory that
\* cannot be listed passed over.
storePaths(w) == UNION {w.sub[s].links : s \in {d \in DOMAIN w.sub : w.sub[d].read = "ok"}}

Inventoried(manager, rows, store) == [manager |-> manager, rows |-> rows, store |-> store]

livePackages(w) ==
  LET manager == detect(w)
  IN CASE ~w.clock -> Error
       [] w.clock /\ manager = Unstated -> Declined("absent")
       [] w.clock /\ manager = "nix" -> Doc(Inventoried(manager, <<>>, storePaths(w)))
       [] OTHER -> IF IsDoc(rowsFrom(w)) THEN Doc(Inventoried(manager, rowsFrom(w).doc, {}))
                   ELSE rowsFrom(w)

\* A capture names its manager and stages that manager's rows, or is empty.
replayPackages(w) ==
  CASE w.manager = Unstated -> IF w.staged = {} THEN Declined("absent") ELSE Error
    [] w.manager # Unstated /\ (w.manager \notin w.staged \/ w.shape = "wrong") -> Error
    [] OTHER -> Doc(IF w.manager = "nix" THEN Inventoried(w.manager, <<>>, {"curl-8"})
                    ELSE Inventoried(w.manager, <<LibZ>>, {}))

packages(w) == IF w.replay THEN replayPackages(w) ELSE livePackages(w)

probe(w) == IsDoc(packages(w))

-----------------------------------------------------------------------------
(* packages.go                                                              *)

\* newRow: what the manager could have said and did not is declared absent.
newRow(p) == Row(p.name, Facts([Version |-> p.version, Architecture |-> p.arch]))

\* inventory: dpkg keeps rows for removed packages, and those are not rows
\* here; a name reported twice is published twice.
inventory(got) ==
  LET kept == SelectSeq(got.rows, LAMBDA p : got.manager = "dpkg" => p.status \in {Unstated, "installed"})
      store == SetToSeq(got.store)
  IN IF got.manager = "nix" THEN [i \in DOMAIN store |-> Row(store[i], [StorePath |-> "p"])]
     ELSE [i \in DOMAIN kept |-> newRow(kept[i])]

collectPackages(w) == IF IsDoc(packages(w)) THEN Plain(inventory(packages(w).doc)) ELSE packages(w)

Opening(w) == Doc("nothing")
Collect(c, held, w) == IF c \in Served THEN collectPackages(w) ELSE NotServed

-----------------------------------------------------------------------------
(* verbs.go                                                                 *)

verbReading(c, w, Read(_)) ==
  CASE c \notin Served -> Refusal("unsupported")
    [] c \in Served /\ packages(w).is = "declined" -> Refusal(packages(w).reason)
    [] c \in Served /\ packages(w).is = "error" -> NoResponse
    [] OTHER -> Read(packages(w).doc)

serveObject(c, name, w) ==
  verbReading(c, w, LAMBDA got :
    Opened(Plain(inventory(got)), name, LAMBDA row : Response(<<ObjectRecord(row)>>)))

\* evidencePayload: the manager's own line for the name, removed or not.
evidencePayload(got, name) ==
  IF got.manager = "nix" THEN name \in got.store ELSE \E i \in DOMAIN got.rows : got.rows[i].name = name

serveEvidence(c, name, w) ==
  verbReading(c, w, LAMBDA got :
    IF evidencePayload(got, name)
    THEN Response(<<EvidenceRecord({<<"manager", got.manager>>}, 1, 8)>>) ELSE Refusal("unavailable"))

-----------------------------------------------------------------------------
(* What is installed, of what could be listed; and what could not.           *)

\* A system profile that is there, and whose stat is refused all the same.
Unlooked(w) == ~w.replay /\ w.refused /\ "nix" \in w.has

Installed(w) == {w.installed[i].name : i \in {j \in DOMAIN w.installed :
                   "dpkg" \in w.has => w.installed[j].status \in {Unstated, "installed"}}}
Holds(c, w) ==
  CASE w.replay -> IF w.manager = Unstated THEN w.staged ELSE {IF w.manager = "nix" THEN "curl-8" ELSE LibZ.name}
    [] ~w.replay /\ "nix" \in w.has -> storePaths(w)
    [] OTHER -> IF w.has = {} THEN {} ELSE Installed(w)
Unread(c, w) ==
  IF ~w.replay /\ detect(w) = "nix"
  THEN UNION {w.sub[s].links : s \in {d \in DOMAIN w.sub : w.sub[d].read = "unreadable"}} ELSE {}
=============================================================================
