----------------------------- MODULE Collectors -----------------------------
(***************************************************************************)
(* One request to one collector, end to end: the collator's client dials   *)
(* (wire/client.go), a process starts, reads its sources collection by     *)
(* collection - each read meeting whatever the world is then - writes its  *)
(* records, and ends, fails, is killed or loses its pipe; the client reads *)
(* to end of file and ParseBatch judges what came.  The object and         *)
(* evidence verbs (wire/verbs.go) are the other two requests.              *)
(***************************************************************************)
EXTENDS CollectorKit, Wire

CONSTANTS Who            \* the collectors of this instance

Bazarr == INSTANCE CollectBazarr
Docker == INSTANCE CollectDocker
Downloaders == INSTANCE CollectDownloaders
Hardware == INSTANCE CollectHardware
Kea == INSTANCE CollectKea
Logs == INSTANCE CollectLogs
Network == INSTANCE CollectNetwork
Nix == INSTANCE CollectNix
Packages == INSTANCE CollectPackages
Paperless == INSTANCE CollectPaperless
Plex == INSTANCE CollectPlex
Protection == INSTANCE CollectProtection
Resources == INSTANCE CollectResources
Servarr == INSTANCE CollectServarr
Storage == INSTANCE CollectStorage
System == INSTANCE CollectSystem
Traefik == INSTANCE CollectTraefik
Unbound == INSTANCE CollectUnbound
Units == INSTANCE CollectUnits
Vms == INSTANCE CollectVms

VARIABLES who, replay,   \* the collector that runs, and whether SE_REPLAY_DIR is set
          order,         \* the collections the request line names
          todo,          \* those not answered yet
          held,          \* what the collector read once for the whole batch
          phase,         \* idle, started, running, gone (exited), read (by the client)
          exit,          \* the process's exit status
          out,           \* the records that reached the socket
          at,            \* the boot clock as the collector last read it (0: never)
          pipe,          \* open, or broken: the emitter keeps its first write error
          last,          \* the last collection answered, the world it read, the answer
          verdict,       \* what the client made of the exchange
          asked          \* the last verb request, its world and its response

vars == <<who, replay, order, todo, held, phase, exit, out, at, pipe, last, verdict, asked>>

Nothing == [c |-> "none"]
Gen == 1                 \* the generation every collection is issued under

-----------------------------------------------------------------------------
(* The collectors, by name.                                                *)

Served(k) == CASE k = "bazarr" -> Bazarr!Served [] k = "docker" -> Docker!Served
               [] k = "downloaders" -> Downloaders!Served [] k = "hardware" -> Hardware!Served
               [] k = "kea" -> Kea!Served [] k = "logs" -> Logs!Served
               [] k = "network" -> Network!Served [] k = "nix" -> Nix!Served
               [] k = "packages" -> Packages!Served [] k = "paperless" -> Paperless!Served
               [] k = "plex" -> Plex!Served [] k = "protection" -> Protection!Served
               [] k = "resources" -> Resources!Served [] k = "servarr" -> Servarr!Served
               [] k = "storage" -> Storage!Served [] k = "system" -> System!Served
               [] k = "traefik" -> Traefik!Served [] k = "unbound" -> Unbound!Served
               [] k = "units" -> Units!Served [] k = "vms" -> Vms!Served
Verbs(k) == CASE k = "bazarr" -> Bazarr!Verbs [] k = "docker" -> Docker!Verbs
              [] k = "downloaders" -> Downloaders!Verbs [] k = "hardware" -> Hardware!Verbs
              [] k = "kea" -> Kea!Verbs [] k = "logs" -> Logs!Verbs
              [] k = "network" -> Network!Verbs [] k = "nix" -> Nix!Verbs
              [] k = "packages" -> Packages!Verbs [] k = "paperless" -> Paperless!Verbs
              [] k = "plex" -> Plex!Verbs [] k = "protection" -> Protection!Verbs
              [] k = "resources" -> Resources!Verbs [] k = "servarr" -> Servarr!Verbs
              [] k = "storage" -> Storage!Verbs [] k = "system" -> System!Verbs
              [] k = "traefik" -> Traefik!Verbs [] k = "unbound" -> Unbound!Verbs
              [] k = "units" -> Units!Verbs [] k = "vms" -> Vms!Verbs
Worlds(k) == CASE k = "bazarr" -> Bazarr!Worlds [] k = "docker" -> Docker!Worlds
               [] k = "downloaders" -> Downloaders!Worlds [] k = "hardware" -> Hardware!Worlds
               [] k = "kea" -> Kea!Worlds [] k = "logs" -> Logs!Worlds
               [] k = "network" -> Network!Worlds [] k = "nix" -> Nix!Worlds
               [] k = "packages" -> Packages!Worlds [] k = "paperless" -> Paperless!Worlds
               [] k = "plex" -> Plex!Worlds [] k = "protection" -> Protection!Worlds
               [] k = "resources" -> Resources!Worlds [] k = "servarr" -> Servarr!Worlds
               [] k = "storage" -> Storage!Worlds [] k = "system" -> System!Worlds
               [] k = "traefik" -> Traefik!Worlds [] k = "unbound" -> Unbound!Worlds
               [] k = "units" -> Units!Worlds [] k = "vms" -> Vms!Worlds
Opening(k, w) == CASE k = "bazarr" -> Bazarr!Opening(w) [] k = "docker" -> Docker!Opening(w)
                   [] k = "downloaders" -> Downloaders!Opening(w)
                   [] k = "hardware" -> Hardware!Opening(w) [] k = "kea" -> Kea!Opening(w)
                   [] k = "logs" -> Logs!Opening(w) [] k = "network" -> Network!Opening(w)
                   [] k = "nix" -> Nix!Opening(w) [] k = "packages" -> Packages!Opening(w)
                   [] k = "paperless" -> Paperless!Opening(w) [] k = "plex" -> Plex!Opening(w)
                   [] k = "protection" -> Protection!Opening(w)
                   [] k = "resources" -> Resources!Opening(w) [] k = "servarr" -> Servarr!Opening(w)
                   [] k = "storage" -> Storage!Opening(w) [] k = "system" -> System!Opening(w)
                   [] k = "traefik" -> Traefik!Opening(w) [] k = "unbound" -> Unbound!Opening(w)
                   [] k = "units" -> Units!Opening(w) [] k = "vms" -> Vms!Opening(w)
Collect(k, c, h, w) == CASE k = "bazarr" -> Bazarr!Collect(c, h, w)
                         [] k = "docker" -> Docker!Collect(c, h, w)
                         [] k = "downloaders" -> Downloaders!Collect(c, h, w)
                         [] k = "hardware" -> Hardware!Collect(c, h, w)
                         [] k = "kea" -> Kea!Collect(c, h, w) [] k = "logs" -> Logs!Collect(c, h, w)
                         [] k = "network" -> Network!Collect(c, h, w)
                         [] k = "nix" -> Nix!Collect(c, h, w)
                         [] k = "packages" -> Packages!Collect(c, h, w)
                         [] k = "paperless" -> Paperless!Collect(c, h, w)
                         [] k = "plex" -> Plex!Collect(c, h, w)
                         [] k = "protection" -> Protection!Collect(c, h, w)
                         [] k = "resources" -> Resources!Collect(c, h, w)
                         [] k = "servarr" -> Servarr!Collect(c, h, w)
                         [] k = "storage" -> Storage!Collect(c, h, w)
                         [] k = "system" -> System!Collect(c, h, w)
                         [] k = "traefik" -> Traefik!Collect(c, h, w)
                         [] k = "unbound" -> Unbound!Collect(c, h, w)
                         [] k = "units" -> Units!Collect(c, h, w)
                         [] k = "vms" -> Vms!Collect(c, h, w)
Object(k, c, n, w) == CASE k = "bazarr" -> Bazarr!serveObject(c, n, w)
                        [] k = "docker" -> Docker!serveObject(c, n, w)
                        [] k = "downloaders" -> Downloaders!serveObject(c, n, w)
                        [] k = "hardware" -> Hardware!serveObject(c, n, w)
                        [] k = "kea" -> Kea!serveObject(c, n, w)
                        [] k = "logs" -> Logs!serveObject(c, n, w)
                        [] k = "network" -> Network!serveObject(c, n, w)
                        [] k = "nix" -> Nix!serveObject(c, n, w)
                        [] k = "packages" -> Packages!serveObject(c, n, w)
                        [] k = "paperless" -> Paperless!serveObject(c, n, w)
                        [] k = "plex" -> Plex!serveObject(c, n, w)
                        [] k = "protection" -> Protection!serveObject(c, n, w)
                        [] k = "resources" -> Resources!serveObject(c, n, w)
                        [] k = "servarr" -> Servarr!serveObject(c, n, w)
                        [] k = "storage" -> Storage!serveObject(c, n, w)
                        [] k = "system" -> System!serveObject(c, n, w)
                        [] k = "traefik" -> Traefik!serveObject(c, n, w)
                        [] k = "unbound" -> Unbound!serveObject(c, n, w)
                        [] k = "units" -> Units!serveObject(c, n, w)
                        [] k = "vms" -> Vms!serveObject(c, n, w)
Evidence(k, c, n, w) == CASE k = "bazarr" -> Bazarr!serveEvidence(c, n, w)
                          [] k = "docker" -> Docker!serveEvidence(c, n, w)
                          [] k = "downloaders" -> Downloaders!serveEvidence(c, n, w)
                          [] k = "hardware" -> Hardware!serveEvidence(c, n, w)
                          [] k = "kea" -> Kea!serveEvidence(c, n, w)
                          [] k = "logs" -> Logs!serveEvidence(c, n, w)
                          [] k = "network" -> Network!serveEvidence(c, n, w)
                          [] k = "nix" -> Nix!serveEvidence(c, n, w)
                          [] k = "packages" -> Packages!serveEvidence(c, n, w)
                          [] k = "paperless" -> Paperless!serveEvidence(c, n, w)
                          [] k = "plex" -> Plex!serveEvidence(c, n, w)
                          [] k = "protection" -> Protection!serveEvidence(c, n, w)
                          [] k = "resources" -> Resources!serveEvidence(c, n, w)
                          [] k = "servarr" -> Servarr!serveEvidence(c, n, w)
                          [] k = "storage" -> Storage!serveEvidence(c, n, w)
                          [] k = "system" -> System!serveEvidence(c, n, w)
                          [] k = "traefik" -> Traefik!serveEvidence(c, n, w)
                          [] k = "unbound" -> Unbound!serveEvidence(c, n, w)
                          [] k = "units" -> Units!serveEvidence(c, n, w)
                          [] k = "vms" -> Vms!serveEvidence(c, n, w)
Probe(k, w) == CASE k = "bazarr" -> Bazarr!probe(w) [] k = "docker" -> Docker!probe(w)
                 [] k = "downloaders" -> Downloaders!probe(w) [] k = "hardware" -> Hardware!probe(w)
                 [] k = "kea" -> Kea!probe(w) [] k = "logs" -> Logs!probe(w)
                 [] k = "network" -> Network!probe(w) [] k = "nix" -> Nix!probe(w)
                 [] k = "packages" -> Packages!probe(w) [] k = "paperless" -> Paperless!probe(w)
                 [] k = "plex" -> Plex!probe(w) [] k = "protection" -> Protection!probe(w)
                 [] k = "resources" -> Resources!probe(w) [] k = "servarr" -> Servarr!probe(w)
                 [] k = "storage" -> Storage!probe(w) [] k = "system" -> System!probe(w)
                 [] k = "traefik" -> Traefik!probe(w) [] k = "unbound" -> Unbound!probe(w)
                 [] k = "units" -> Units!probe(w) [] k = "vms" -> Vms!probe(w)
Holds(k, c, w) == CASE k = "bazarr" -> Bazarr!Holds(c, w) [] k = "docker" -> Docker!Holds(c, w)
                    [] k = "downloaders" -> Downloaders!Holds(c, w)
                    [] k = "hardware" -> Hardware!Holds(c, w) [] k = "kea" -> Kea!Holds(c, w)
                    [] k = "logs" -> Logs!Holds(c, w) [] k = "network" -> Network!Holds(c, w)
                    [] k = "nix" -> Nix!Holds(c, w) [] k = "packages" -> Packages!Holds(c, w)
                    [] k = "paperless" -> Paperless!Holds(c, w) [] k = "plex" -> Plex!Holds(c, w)
                    [] k = "protection" -> Protection!Holds(c, w)
                    [] k = "resources" -> Resources!Holds(c, w)
                    [] k = "servarr" -> Servarr!Holds(c, w) [] k = "storage" -> Storage!Holds(c, w)
                    [] k = "system" -> System!Holds(c, w) [] k = "traefik" -> Traefik!Holds(c, w)
                    [] k = "unbound" -> Unbound!Holds(c, w) [] k = "units" -> Units!Holds(c, w)
                    [] k = "vms" -> Vms!Holds(c, w)

\* What a committed reading leaves out because part of its source could not
\* be read (of servarr, the instances): the rows of those that answered stand.
Unread(k, c, w) == CASE k = "downloaders" -> Downloaders!Unread(c, w)
                     [] k = "hardware" -> Hardware!Unread(c, w) [] k = "network" -> Network!Unread(c, w)
                     [] k = "nix" -> Nix!Unread(c, w) [] k = "packages" -> Packages!Unread(c, w)
                     [] k = "resources" -> Resources!Unread(c, w) [] k = "servarr" -> Servarr!Dark(c, w)
                     [] k = "storage" -> Storage!Unread(c, w) [] OTHER -> {}

\* Worlds in which the subject is there and the one look for it is refused:
\* these five collectors take any failed os.Stat for its absence.
Unlooked(k, w) == CASE k = "docker" -> Docker!Unlooked(w) [] k = "hardware" -> Hardware!Unlooked(w)
                    [] k = "nix" -> Nix!Unlooked(w) [] k = "packages" -> Packages!Unlooked(w)
                    [] k = "vms" -> Vms!Unlooked(w) [] OTHER -> FALSE

\* What a collection answers when the whole batch meets one world.
Listing(k, c, w) == IF Opening(k, w).is = "error" THEN Error ELSE Collect(k, c, Opening(k, w), w)

\* The lookups a declaration lists, and the verb that answers one.
Lookups(k) == CASE k = "storage" -> Storage!Lookups [] k = "network" -> Network!Lookups [] OTHER -> {}
Inputs(k, c) == CASE c \notin Lookups(k) -> {} [] c \in Storage!Lookups -> Storage!Inputs(c)
                  [] c \in Network!Lookups -> Network!Inputs(c)
Lookup(k, c, n, w) == IF k = "storage" THEN Storage!serveLookup(c, n, w) ELSE Network!serveLookup(c, n, w)

\* Those whose opening read is the same for the whole batch: the configured
\* instances are in the process's environment, a host has a sysfs or not, and
\* the ruleset is not looked at again once it has been read.
Steady == {"servarr", "downloaders", "hardware", "network"}

-----------------------------------------------------------------------------
(* The request line.                                                       *)

Tokens(k) == Served(k) \union {"other", Odd}
Requests(k) ==
  LET AnyOf(set) == IF set = {} THEN {} ELSE {CHOOSE c \in set : TRUE}
      one == AnyOf(Served(k))
      two == one \union AnyOf(Served(k) \ one)
      pair == two \union {"other", Odd}
  IN {<<>>} \union {<<a>> : a \in Tokens(k)} \union {<<a, b>> : a \in pair, b \in pair}

\* parseCollect: at least one token, every name one the stream may carry,
\* and no collection twice; otherwise the request was not run.
parseCollect(tokens) ==
  /\ tokens # <<>>
  /\ \A i \in DOMAIN tokens : tokens[i] # Odd
  /\ \A i, j \in DOMAIN tokens : tokens[i] = tokens[j] => i = j

-----------------------------------------------------------------------------
(* Records.  OnWire is what the record structs marshal to.                 *)

Has(members, type) == [m \in members |-> type]
Issued(tokens) == [c \in {tokens[i] : i \in DOMAIN tokens} |-> Gen]

OnWire(r) ==
  CASE r.record = "begin" ->
         r @@ [has |-> Has({"request", "batch", "declaration", "boot_id"}, "str") @@
                       ("timens" :> "int") @@ ("instance" :> "null") @@ ("generations" :> "obj"),
               request |-> "batch", batch |-> "batch", boot_id |-> "uuid"]
    [] r.record = "object" ->
         r @@ [has |-> Has({"collection", "name"}, "str") @@ ("facts" :> "obj") @@ ("at" :> "float"),
               facts |-> {"str"}]
    [] r.record = "relation_assertion" ->
         r @@ [has |-> Has({"collection", "name", "type", "vantage"}, "str") @@ ("target" :> "obj"),
               target |-> Has({"kind", "name"}, "str")]
    [] r.record = "unobservable" ->
         r @@ [has |-> Has({"collection", "name", "fact", "reason", "detail"}, "str")]
    [] r.record = "decline" -> r @@ [has |-> Has({"collection", "reason", "detail"}, "str")]
    [] r.record = "commit" ->
         r @@ [generation |-> Gen,
               has |-> Has({"collection"}, "str") @@
                       Has({"generation", "objects", "assertions", "unobservable"}, "int")]
    [] r.record = "end" ->
         r @@ [has |-> Has({"request", "batch"}, "str") @@ Has({"cpu_ms", "wall_ms"}, "float"),
               request |-> "batch", batch |-> "batch", cpu_ms |-> 0, wall_ms |-> 1]
    [] OTHER -> r

commitRecord(c, o, a, u) ==
  [record |-> "commit", collection |-> c, objects |-> o, assertions |-> a, unobservable |-> u]

\* `at`: one clock reading per collection live - the one its read took, or
\* the last one taken if it took none - and an advancing counter in replay.
Reading(answer) == IF "stamped" \in DOMAIN answer /\ answer.stamped THEN Len(order) - Len(todo) + 1 ELSE at
Stamp(i, now) == IF replay THEN Len(out) + i ELSE now

\* What one collection's answer writes: a decline, with the zero commit when
\* the reason is absent; or each row with its edges and could-not-reads, and
\* the commit with the collector's own counts.
Emit(c, answer, now) ==
  IF answer.is = "declined"
  THEN <<[record |-> "decline", collection |-> c, reason |-> answer.reason]>> \o
       (IF answer.reason = "absent" THEN <<commitRecord(c, 0, 0, 0)>> ELSE <<>>)
  ELSE FlattenSeq([i \in DOMAIN answer.rows |->
         LET row == answer.rows[i]
         IN <<[record |-> "object", collection |-> c, name |-> row.name, at |-> Stamp(i, now)]>> \o
            [j \in DOMAIN row.edges |->
               [record |-> "relation_assertion", collection |-> c]] \o
            SetToSeq({[record |-> "unobservable", collection |-> c, fact |-> u[1],
                       reason |-> u[2]] : u \in row.unobservable})])
       \o <<commitRecord(c, Len(answer.rows), answer.assertions, answer.unobservable)>>

-----------------------------------------------------------------------------
Init ==
  /\ who \in Who /\ replay = FALSE /\ order = <<>> /\ todo = <<>>
  /\ held = Nothing /\ phase = "idle" /\ exit = 0 /\ out = <<>> /\ at = 0 /\ pipe = "open"
  /\ last = Nothing /\ verdict = "none" /\ asked = Nothing

\* A collect request: refused whole when it does not parse (exit 2).
Request(tokens) ==
  /\ phase = "idle"
  /\ order' = tokens
  /\ IF parseCollect(tokens)
     THEN phase' = "started" /\ todo' = tokens /\ exit' = exit
     ELSE phase' = "gone" /\ todo' = <<>> /\ exit' = 2
  /\ UNCHANGED <<who, replay, held, out, at, pipe, last, verdict, asked>>

\* The boot id or the batch id could not be read: nothing is written at all.
CannotStart ==
  /\ phase = "started"
  /\ phase' = "gone" /\ exit' = 1
  /\ UNCHANGED <<who, replay, order, todo, held, out, at, pipe, last, verdict, asked>>

\* Whether what is read once per batch ends it; the network collector reads
\* its ruleset, and the boot clock for it, only for a request that needs it.
Ends(k, tokens, w) == IF k = "network" THEN Network!Fails(tokens, w) ELSE Opening(k, w).is = "error"

\* begin is written, then what the collector reads once per batch.
Begin(w) ==
  /\ phase = "started"
  /\ replay' = w.replay
  /\ held' = Opening(who, w)
  /\ out' = <<[record |-> "begin", generations |-> Issued(order)]>>
  /\ at' = IF who = "network" /\ Network!NeedsRuleset(order) THEN 1 ELSE at
  /\ IF Ends(who, order, w) THEN phase' = "gone" /\ exit' = 1
                            ELSE phase' = "running" /\ exit' = exit
  /\ UNCHANGED <<who, order, todo, pipe, last, verdict, asked>>

\* The next requested collection, read in whatever the world is by now.
CollectNext(w) ==
  /\ phase = "running" /\ todo # <<>> /\ w.replay = replay
  /\ who \in Steady => Opening(who, w) = held
  /\ \E answer \in {Collect(who, Head(todo), held, w)} :
       /\ at' = Reading(answer)
       /\ last' = [c |-> Head(todo), w |-> w, answer |-> answer]
       /\ IF answer.is = "error"
          THEN phase' = "gone" /\ exit' = 1 /\ UNCHANGED <<out, todo>>
          ELSE /\ out' = IF pipe = "open" THEN out \o Emit(Head(todo), answer, at') ELSE out
               /\ todo' = Tail(todo)
               /\ UNCHANGED <<phase, exit>>
  /\ UNCHANGED <<who, replay, order, held, pipe, verdict, asked>>

\* Every collection is answered: end is written, and a write that failed
\* anywhere makes the exit status say so.
EndBatch ==
  /\ phase = "running" /\ todo = <<>>
  /\ phase' = "gone"
  /\ out' = IF pipe = "open" THEN Append(out, [record |-> "end"]) ELSE out
  /\ exit' = IF pipe = "open" THEN 0 ELSE 1
  /\ last' = Nothing
  /\ UNCHANGED <<who, replay, order, todo, held, at, pipe, verdict, asked>>

\* What got through before the reader went: whole records and perhaps a torn one.
Reached(written) ==
  {SubSeq(written, 1, n) : n \in 0..Len(written)} \union
  {Append(SubSeq(written, 1, n), [record |-> "torn"]) : n \in 0..(Len(written) - 1)}

\* stdout is gone: the emitter writes nothing more, and keeps the error.
BreakPipe ==
  /\ phase = "running" /\ pipe = "open"
  /\ pipe' = "broken"
  /\ out' \in Reached(out)
  /\ last' = Nothing
  /\ UNCHANGED <<who, replay, order, todo, held, phase, exit, at, verdict, asked>>

\* The process is killed (RuntimeMaxSec, a crash) with part of it written.
Killed ==
  /\ phase = "running" /\ pipe = "open"
  /\ phase' = "gone" /\ exit' = 1
  /\ out' \in Reached(out)
  /\ last' = Nothing
  /\ UNCHANGED <<who, replay, order, todo, held, at, pipe, verdict, asked>>

\* Client.exchange read to end of file within its deadline and its ceiling.
Exchange ==
  /\ phase = "gone" /\ verdict = "none"
  /\ phase' = "read"
  /\ verdict' = LET b == ParseBatch([i \in DOMAIN out |-> OnWire(out[i])], Issued(order))
                IN IF b.violation = "" THEN "batch" ELSE b.violation
  /\ UNCHANGED <<who, replay, order, todo, held, exit, out, at, pipe, last, asked>>

\* The dial failed, the deadline passed or the byte ceiling was met first:
\* the collator has no batch whatever the collector goes on to write.
GiveUp ==
  /\ phase = "running" /\ pipe = "open"
  /\ verdict' = "no answer" /\ phase' = "read"
  /\ last' = Nothing
  /\ UNCHANGED <<who, replay, order, todo, held, exit, out, at, pipe, asked>>

\* requestable: a closed list of verbs, a token that is one line of text,
\* and only the collections (or lookups) the declaration lists.
requestable(verb, c, token) ==
  /\ verb \in {"object", "evidence", "lookup"}
  /\ token \notin {"empty", "two lines"}
  /\ c \in Served(who) \union Lookups(who)

probeResponse(w) == [exit |-> 0, records |-> <<[record |-> "probe", yes |-> Probe(who, w)]>>]

\* run: what the request line's verb and the number of its tokens select; a
\* verb this collector does not serve is a request that was not run (exit 2).
run(verb, c, n, w) ==
  CASE verb \notin Verbs(who) -> [exit |-> 2, records |-> <<>>]
    [] verb = "object" /\ verb \in Verbs(who) -> Object(who, c, n, w)
    [] verb = "evidence" /\ verb \in Verbs(who) -> Evidence(who, c, n, w)
    [] verb = "lookup" /\ verb \in Verbs(who) -> Lookup(who, c, n, w)
    [] verb = "probe" -> probeResponse(w)

\* reverse: one exchange; an answer of no bytes is an error, since every
\* response that ran carries its terminator.
reverse(verb, c, n, token, w) ==
  IF ~requestable(verb, c, token) THEN [exit |-> -1, records |-> <<>>] ELSE run(verb, c, n, w)

\* The names a request may carry: those the listing or the host has, and one
\* that neither has.
Listed(answer) == IF answer.is = "rows" THEN NamesOf(answer.rows) ELSE {}
NamesToAsk(c, w) ==
  {Unstated} \union Inputs(who, c)
             \union IF c \in Served(who) THEN Listed(Listing(who, c, w)) \union Holds(who, c, w) ELSE {}

\* The hub or a reader asks, through the collator, for one name.
Ask(verb, c, w) ==
  /\ phase = "idle"
  /\ \E n \in NamesToAsk(c, w), token \in {"fine", "empty", "two lines"} :
       /\ token # "fine" => n = Unstated
       /\ asked' = [c |-> c, verb |-> verb, name |-> n, w |-> w,
                    response |-> reverse(verb, c, n, token, w)]
  /\ phase' = "read"
  /\ UNCHANGED <<who, replay, order, todo, held, exit, out, at, pipe, last, verdict>>

\* probe, asked of the collector itself.
AskProbe(w) ==
  /\ phase = "idle"
  /\ asked' = [c |-> "none", verb |-> "probe", w |-> w, response |-> probeResponse(w)]
  /\ phase' = "read"
  /\ UNCHANGED <<who, replay, order, todo, held, exit, out, at, pipe, last, verdict>>

Next ==
  \/ \E tokens \in Requests(who) : Request(tokens)
  \/ CannotStart \/ EndBatch \/ BreakPipe \/ Killed \/ Exchange \/ GiveUp
  \/ \E w \in Worlds(who) : Begin(w) \/ CollectNext(w)
  \/ \E w \in Worlds(who) : AskProbe(w)
  \/ \E verb \in {"object", "evidence", "lookup"}, c \in Served(who) \union Lookups(who) \union {"other"},
        w \in Worlds(who) : Ask(verb, c, w)

Spec == Init /\ [][Next]_vars

-----------------------------------------------------------------------------
(* Properties                                                              *)

\* A batch is accepted only from a process that ran to its end and could
\* write all of it; a killed, failed or cut-off one is never authoritative.
OnlyWholeRunsAreAccepted == verdict = "batch" => exit = 0 /\ todo = <<>> /\ pipe = "open"

\* Nothing a collector writes and exits zero on is refused: no world makes a
\* collector's own stream void the batch it is in.
EveryWholeRunIsAccepted ==
  (phase = "read" /\ exit = 0 /\ pipe = "open" /\ todo = <<>> /\ order # <<>>)
    => verdict \in {"batch", "no answer"}

\* The three ways in which the code does not keep it, each with its cause in
\* the stream: two objects of one name in one collection, a row nobody read
\* the clock for, and a could-not-read whose reason is a sentence.
Twins(s) == \E i, j \in DOMAIN s : /\ i # j /\ s[i].record = "object" /\ s[j].record = "object"
                                   /\ s[i].collection = s[j].collection /\ s[i].name = s[j].name
Untimed(s) == \E i \in DOMAIN s : s[i].record = "object" /\ s[i].at = 0
Sentence(s) == \E i \in DOMAIN s : s[i].record = "unobservable" /\ s[i].reason = "a sentence"

\* A whole run is refused for no other cause, and only by these collectors.
WholeRunsAreAccepted ==
  (phase = "read" /\ exit = 0 /\ pipe = "open" /\ todo = <<>> /\ order # <<>>)
    => \/ verdict \in {"batch", "no answer"}
       \/ verdict = "duplicate-object-name" /\ Twins(out)
       \/ verdict = "at-out-of-range" /\ who \in {"plex", "protection", "network"} /\ Untimed(out)
       \/ verdict = "bad-unobservable-reason" /\ who = "system" /\ Sentence(out)

\* An answer that retires what it does not name - a commit of rows, or the
\* absence of the whole subject - names everything the sources it could read
\* then held: no failed, refused or misread document makes an object look
\* gone.  What is left out by a part nobody could read is Unread's.
RetiresNothingHeld ==
  (last # Nothing /\ last.c \in Served(who)) =>
    LET held_ == Holds(who, last.c, last.w)
    IN /\ last.answer.is = "rows" => held_ \subseteq NamesOf(last.answer.rows)
       /\ last.answer = Declined("absent") => held_ = {}

\* It fails where the look for absence itself is refused: a failed os.Stat of
\* docker's or libvirt's socket, of /run/current-system or of sysfs is an
\* absence, and retires what is there.  Nowhere else, in no other collector.
NothingRetiredUnobserved == (last # Nothing /\ Unlooked(who, last.w)) \/ RetiresNothingHeld

\* "A commit in v1 always means this is the whole collection; anything less
\* does not commit at all" (DESIGN 19).  Eight collectors commit a reading
\* with a part missing, and the store then retires the rows of that part.
NothingCommittedUnread ==
  (last # Nothing /\ last.c \in Served(who) /\ last.answer.is = "rows")
    => Unread(who, last.c, last.w) = {}

\* The collectors whose object verb asks its source for one object and not
\* for the listing: what it opens may say more, or be refused on its own.
Detailed == {"units"}

\* What was opened is what the listing has under that name.
AgreesWith(listing) ==
  LET said == asked.response.records
      opened == {said[i].row : i \in {j \in DOMAIN said : said[j].record = "object"}}
      Agrees(row, r) ==
        /\ r.name = row.name
        /\ who \notin Detailed => DOMAIN row.facts \subseteq DOMAIN r.facts
        /\ \A f \in DOMAIN row.facts \intersect DOMAIN r.facts : row.facts[f] = r.facts[f]
  IN listing.is = "rows" =>
       /\ who \notin Detailed => \A row \in opened : row.name = asked.name
       /\ \A row \in opened : \/ \E i \in DOMAIN listing.rows : Agrees(row, listing.rows[i])
                              \/ who = "units" /\ row.facts.LoadState = "not-found"
       /\ (asked.name \in NamesOf(listing.rows) /\ who \notin Detailed) => opened # {}


\* The collectors whose evidence verb asks a source of its own, which may be
\* refused where the listing was answered.
AskAgain == {"docker", "downloaders", "network", "plex", "servarr", "units"}


\* What the exposure row says of who may reach a socket brackets what the
\* ruleset does: no admitted source is missing from AdmittedFromPossible, and
\* AdmittedFromCertain claims a source whole only where no one rule combines
\* two of them.
Exposed(Judged(_, _, _)) ==
  (who = "network" /\ last # Nothing /\ last.c = "port-exposure" /\ last.answer.is = "rows") =>
    \A socket \in Range(Network!acquireListening(last.w)), row \in Range(last.answer.rows) :
      row.name = Network!SocketName(socket) => Judged(held.doc.doc, socket, row.facts)
ExposureIsBracketed ==
  Exposed(LAMBDA ruleset, socket, facts : /\ Network!PossibleCovers(ruleset, socket, facts)
                                          /\ Network!CertainHolds(ruleset, socket, facts, 1))

\* What exposure.go says of itself: AdmittedFromCertain only under-claims.
CertainOnlyUnderclaims ==
  Exposed(LAMBDA ruleset, socket, facts : Network!CertainHolds(ruleset, socket, facts, 99))

\* probe and collect never contradict each other on whether the subject is
\* on the host: where every collection says absent, the probe says no.
ProbeAgreesOnAbsence ==
  (asked # Nothing /\ asked.verb = "probe" /\ asked.response.records[1].yes) =>
    \E c \in Served(who) : Listing(who, c, asked.w) # Declined("absent")
=============================================================================
