---------------------------- MODULE CollectUnbound ----------------------------
(* se-collect-unbound: one row for the resolver behind the control socket.   *)
EXTENDS CollectorKit

Served == {"daemon"}
Verbs == {"declare", "probe", "collect", "object", "evidence"}

-----------------------------------------------------------------------------
(* The world: the socket's configuration, what each command meets, and the   *)
(* lines it answers with.  A value is a number, text that is not a number,   *)
(* or not stated.                                                            *)

Fine == [replay |-> FALSE, socket |-> TRUE, clock |-> TRUE, staged |-> {"status", "stats"},
         status |-> "ok", stats |-> "ok", uptime |-> 5, queries |-> 9]

Meets == {"missing", "refused", "silent", "huge", "error"}

Worlds ==
  {Fine, [Fine EXCEPT !.socket = FALSE], [Fine EXCEPT !.clock = FALSE]}
  \union {[Fine EXCEPT !.status = m] : m \in Meets} \union {[Fine EXCEPT !.stats = m] : m \in Meets}
  \union {[Fine EXCEPT !.uptime = u, !.queries = q] : u \in {5, Unstated}, q \in {9, Unstated}}
  \union {[Fine EXCEPT !.replay = TRUE, !.staged = s] : s \in SUBSET {"status", "stats"}}

-----------------------------------------------------------------------------
(* source.go                                                                *)

\* classify: no socket, no permission, or no answer.
classify(met) == CASE met = "missing" -> Declined("unavailable")
                   [] met = "refused" -> Declined("unauthorised")
                   [] OTHER -> Declined("unavailable")

\* command: a reply past the bound is an error; one that says error is silence.
command(met) == CASE met = "ok" -> Doc(met) [] met = "huge" -> Error [] OTHER -> classify(met)

\* daemon: configuration, then the clock, then the two commands in order.
liveDaemon(w) == CASE ~w.socket -> Declined("unavailable")
                   [] w.socket /\ ~w.clock -> Error
                   [] OTHER -> FirstFailure(<<command(w.status), command(w.stats)>>)

\* Both payloads or neither.
replayDaemon(w) == CASE w.staged = {} -> Declined("unavailable")
                     [] w.staged = {"status", "stats"} -> Doc("ok")
                     [] OTHER -> Error

daemon(w) == IF w.replay THEN replayDaemon(w) ELSE liveDaemon(w)

probe(w) == IsDoc(daemon(w))

-----------------------------------------------------------------------------
(* daemon.go, facts.go                                                      *)

\* parseStatus and parseStats: a value that is not a number is no fact.
parseStatus(w) == [Version |-> "v", Uptime |-> w.uptime]
parseStats(w) == [NumQueries |-> w.queries]

daemonRow(w) == Row("unbound", Facts(parseStatus(w) @@ parseStats(w)))

collectDaemon(w) == IF IsDoc(daemon(w)) THEN Plain(<<daemonRow(w)>>) ELSE daemon(w)

Opening(w) == Doc("nothing")
Collect(c, held, w) == IF c \in Served THEN collectDaemon(w) ELSE NotServed

-----------------------------------------------------------------------------
(* verbs.go: the reading, then the name.                                     *)

verbReading(c, name, w, Found(_)) ==
  IF c \notin Served THEN Refusal("unsupported") ELSE Opened(collectDaemon(w), name, Found)

serveObject(c, name, w) == verbReading(c, name, w, LAMBDA row : Response(<<ObjectRecord(row)>>))

serveEvidence(c, name, w) ==
  verbReading(c, name, w, LAMBDA row :
    Response(<<EvidenceRecord({<<"status", "document">>, <<"stats_noreset", "document">>}, 1, 8)>>))

\* A configured socket is a resolver, whatever it answers.
Holds(c, w) == IF (w.replay /\ w.staged # {}) \/ (~w.replay /\ w.socket) THEN {"unbound"} ELSE {}
=============================================================================
