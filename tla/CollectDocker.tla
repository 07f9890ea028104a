---------------------------- MODULE CollectDocker ----------------------------
(* se-collect-docker: containers, volumes and networks over the Engine API. *)
EXTENDS CollectorKit

Served == {"containers", "volumes", "networks"}

\* run: the verbs the request line may name.
Verbs == {"declare", "probe", "collect", "object", "evidence"}

-----------------------------------------------------------------------------
(* The world: the socket, what a GET meets, and the documents behind it.   *)

\* A container's first name: its leading slashes and the rest; and the tokens
\* of its inspect document's lists, NAME=VALUE or without an equals sign.
Container == [name |-> "web", slashes |-> 1, id |-> "id1", state |-> "running", health |-> Unstated,
              exit |-> Unstated, created |-> "number", project |-> Unstated,
              ports |-> {}, mounts |-> {}, networks |-> {}, lists |-> {}]

Unnamed == [Container EXCEPT !.name = Unstated]
Leaky == [Container EXCEPT !.name = "odd", !.state = Unstated, !.mounts = {"v"},
                           !.networks = {"n"}, !.lists = {"Env", "Cmd", "Entrypoint", "Args"} \X
                                                         {"assignment", "bare"}]
Containers ==
  {Container, Unnamed,
   [Container EXCEPT !.slashes = 2, !.state = "paused", !.health = "none", !.mounts = {"v"}],
   [Container EXCEPT !.name = "db", !.state = "exited", !.exit = 137, !.health = "unhealthy"],
   [Container EXCEPT !.name = "job", !.state = "created", !.project = "p", !.id = Unstated],
   [Container EXCEPT !.name = "api", !.ports = {[private |-> 80, public |-> 8080, ip |-> "0.0.0.0"],
                                                 [private |-> 80, public |-> 8080, ip |-> "::"],
                                                 [private |-> 81, public |-> 0, ip |-> "::"]}],
   [Container EXCEPT !.name = "#number"],
   [Container EXCEPT !.created = "string"]}

Networks == {[name |-> "n", driver |-> "bridge", named |-> "docker0", id |-> "long"],
             [name |-> "m", driver |-> "bridge", named |-> Unstated, id |-> "long"],
             [name |-> "s", driver |-> "bridge", named |-> Unstated, id |-> "short"],
             [name |-> "h", driver |-> "host", named |-> Unstated, id |-> "long"],
             [name |-> Unstated, driver |-> "host", named |-> Unstated, id |-> "long"]}

Volumes == {[name |-> "v", project |-> "p"], [name |-> Unstated, project |-> Unstated]}

Fine == [replay |-> FALSE, stat |-> "there", clock |-> TRUE, get |-> "ok", staged |-> "all",
         shape |-> "right", containers |-> <<>>, networks |-> <<>>, volumes |-> <<>>,
         inspect |-> "ok", size |-> 1]

Worlds ==
  {[Fine EXCEPT !.stat = "missing"],
   [Fine EXCEPT !.stat = "denied", !.containers = <<Container>>, !.networks = <<CHOOSE n \in Networks : n.name = "n">>]}
  \union {[Fine EXCEPT !.containers = <<Container>>, !.get = g] : g \in {"denied", "refused", "403", "500", "cut"}}
  \union {[Fine EXCEPT !.clock = FALSE], [Fine EXCEPT !.shape = "wrong"],
          [Fine EXCEPT !.shape = "garbage"], [Fine EXCEPT !.volumes = Unstated]}
  \union {[Fine EXCEPT !.replay = TRUE, !.staged = s] : s \in {"all", "some", "none", "unreadable"}}
  \union {[Fine EXCEPT !.containers = <<a>>] : a \in Containers}
  \union {[Fine EXCEPT !.containers = <<Leaky>>, !.inspect = i, !.size = n] :
            i \in {"ok", "refused", "garbage"}, n \in {1, 9}}
  \union {[Fine EXCEPT !.replay = r, !.containers = <<Unnamed, a>>] :
            a \in {Unnamed, Container}, r \in BOOLEAN}
  \union {[Fine EXCEPT !.networks = <<a>>] : a \in Networks}
  \union {[Fine EXCEPT !.volumes = <<a>>] : a \in Volumes}

-----------------------------------------------------------------------------
(* source.go                                                               *)

\* fetch: permission is the dial's errno or the status; anything else that
\* is not a whole 200 is a daemon that did not answer.
fetch(w, outcome) ==
  CASE outcome \in {"denied", "403"} -> Declined("unauthorised")
    [] outcome \in {"refused", "500", "cut"} -> Declined("unavailable")
    [] OTHER -> Doc(w)

\* decodeDocument: one JSON value and nothing after it, or no document.
decodeDocument(w) == IF w.shape = "garbage" THEN Error ELSE Doc(w)

\* liveSource.document: any failure to stat the socket is its absence; then
\* the clock, then the GET, then the decoding.
liveDocument(w) ==
  CASE w.stat # "there" -> Declined("absent")
    [] ~w.clock -> Error
    [] ~IsDoc(fetch(w, w.get)) -> fetch(w, w.get)
    [] OTHER -> decodeDocument(w)

\* replaySource.document: nothing staged is a host without docker; a capture
\* that staged only part of it is broken and states nothing.
replayDocument(w) ==
  CASE w.staged = "none" -> Declined("absent")
    [] w.staged \in {"some", "unreadable"} -> Error
    [] OTHER -> decodeDocument(w)

document(w) == IF w.replay THEN replayDocument(w) ELSE liveDocument(w)

\* probe: a verdict, never an exit status.  /_ping is fetched, not decoded.
probe(w) ==
  IF w.replay THEN w.staged # "none"
  ELSE w.stat = "there" /\ IsDoc(fetch(w, w.get))

-----------------------------------------------------------------------------
(* containers.go, networks.go, volumes.go                                  *)

\* containerName: every leading slash goes; no name at all is "?".
containerName(c) == IF c.name = Unstated THEN "?" ELSE c.name

\* scopeUnit: only a container with processes has a scope; one whose state
\* is not stated may have.
scopeUnit(c) ==
  IF c.id = Unstated \/ (c.state # Unstated /\ c.state \notin {"running", "restarting", "paused"})
  THEN Unstated ELSE c.id

\* portMappings: a dual-stack publish of one binding is one mapping; a port
\* that is exposed and not published is kept as such.
portMappings(ports) ==
  LET published == {p \in ports : p.public # 0}
      Dual(p) == p.ip = "::" /\ \E q \in published : /\ q.ip = "0.0.0.0"
                                                     /\ q.private = p.private
                                                     /\ q.public = p.public
  IN {p \in published : ~Dual(p)}
     \union {[private |-> p.private, public |-> 0, ip |-> "exposed"] : p \in ports \ published}

buildContainer(c) ==
  Row(containerName(c),
      Facts([State |-> c.state,
             Health |-> IF c.health = "none" THEN Unstated ELSE c.health,
             ExitCode |-> IF c.state = "exited" THEN c.exit ELSE Unstated,
             ComposeProject |-> c.project,
             ContainerID |-> c.id,
             ScopeUnit |-> scopeUnit(c),
             Ports |-> IF c.ports = {} THEN Unstated ELSE portMappings(c.ports)]))

\* One bad entry refuses the listing: a first name that is not a string, a
\* creation time that is not a number.
containerRows(w) ==
  IF w.shape = "wrong" \/ \E i \in DOMAIN w.containers :
       w.containers[i].name = "#number" \/ w.containers[i].created = "string"
  THEN Error
  ELSE Plain([i \in DOMAIN w.containers |-> buildContainer(w.containers[i])])

\* bridgeInterface: the daemon's own option, then br- and the id's first
\* twelve characters for a bridge, then nothing.
bridgeInterface(n) ==
  CASE n.named # Unstated -> n.named
    [] n.named = Unstated /\ n.driver = "bridge" /\ n.id = "long" -> "br-"
    [] OTHER -> Unstated

networkRows(w) ==
  IF w.shape = "wrong" \/ \E i \in DOMAIN w.networks : w.networks[i].name = Unstated
  THEN Error
  ELSE Plain([i \in DOMAIN w.networks |->
         Row(w.networks[i].name, Facts([Driver |-> w.networks[i].driver,
                                        BridgeInterface |-> bridgeInterface(w.networks[i])]))])

\* volumeRows: a null Volumes member is a reading of zero volumes.
volumeRows(w) ==
  IF w.volumes = Unstated THEN Plain(<<>>)
  ELSE IF w.shape = "wrong" \/ \E i \in DOMAIN w.volumes : w.volumes[i].name = Unstated
  THEN Error
  ELSE Plain([i \in DOMAIN w.volumes |->
         Row(w.volumes[i].name, Facts([ComposeProject |-> w.volumes[i].project]))])

rows(c, w) == CASE c = "containers" -> containerRows(w)
                [] c = "networks" -> networkRows(w)
                [] c = "volumes" -> volumeRows(w)

-----------------------------------------------------------------------------
(* collect.go and verbs.go                                                 *)

\* collectOne: the document's decline, its error, or its rows.
collectOne(c, w) == IF IsDoc(document(w)) THEN rows(c, w) ELSE document(w)

\* Nothing is read once per batch.
Opening(w) == Doc("nothing")

Collect(c, held, w) == IF c \in Served THEN collectOne(c, w) ELSE NotServed

\* openedEdges: the relations an opened object asserts.
openedEdges(c, row, entry) ==
  CASE c = "containers" ->
         {Edge("member-of", "unit", row.facts[f]) :
            f \in {"ScopeUnit", "ComposeProject"} \intersect DOMAIN row.facts}
         \union {Edge("mounts", "volume", v) : v \in entry.mounts}
         \union {Edge("attached-to", "docker-network", n) : n \in entry.networks}
    [] c = "networks" ->
         {Edge("plumbed-onto", "link", row.facts[f]) :
            f \in {"BridgeInterface"} \intersect DOMAIN row.facts}
    [] OTHER -> {}

\* entryNamed: the listing entry behind a row, by the name with ONE leading
\* slash trimmed; without it the row's own edges are all there are.
entryNamed(w, name) ==
  LET found == SelectSeq(w.containers, LAMBDA c : c.name = name /\ c.slashes <= 1)
  IN IF found = <<>> THEN [mounts |-> {}, networks |-> {}] ELSE Head(found)

serveObject(c, name, w) ==
  IF c \notin Served THEN Refusal("unsupported")
  ELSE Opened(collectOne(c, w), name, LAMBDA row :
         Response(<<ObjectRecord(row),
                    [record |-> "edges", edges |-> openedEdges(c, row, entryNamed(w, name))]>>))

\* redactInspect: in the lists named Env, Cmd and Entrypoint the value half of
\* an assignment is withheld; a token that is none stays legible there, and
\* every token stays in a list of another name, as Args.
secretListKeys == {"Env", "Cmd", "Entrypoint"}
redactInspect(entry) ==
  {<<t[1], IF t[1] \in secretListKeys /\ t[2] = "assignment" THEN "withheld" ELSE t[2]>> : t \in entry.lists}

EvidenceBytes == 8


\* serveEvidence: the name is looked up in the listing before any path is
\* built from it; then the inspect document is fetched and redacted.
serveEvidence(c, name, w) ==
  IF c \notin Served THEN Refusal("unsupported")
  ELSE Opened(collectOne(c, w), name, LAMBDA row :
    CASE w.inspect = "refused" -> Refusal("unavailable")
      [] w.inspect = "garbage" -> NoResponse
      [] OTHER -> Response(<<EvidenceRecord(
           IF c = "containers" THEN redactInspect(w.containers[1]) ELSE {},
           w.size, EvidenceBytes)>>))

-----------------------------------------------------------------------------
(* What the world really holds, for the properties of Collectors.tla.      *)

\* A socket that is there, and whose stat is refused all the same.
Unlooked(w) == ~w.replay /\ w.stat = "denied"

\* The names of what is on the host, read or not.
Holds(c, w) ==
  CASE c = "containers" -> {containerName(w.containers[i]) : i \in DOMAIN w.containers}
    [] c = "networks" -> {w.networks[i].name : i \in DOMAIN w.networks}
    [] c = "volumes" -> IF w.volumes = Unstated THEN {}
                        ELSE {w.volumes[i].name : i \in DOMAIN w.volumes}
=============================================================================
