-------------------------- MODULE CollectDownloaders --------------------------
(* se-collect-downloaders: the download clients this process is configured   *)
(* with (transmission, sabnzbd) and the transfers they carry.  The boot      *)
(* clock is read before begin, so failing it is CannotStart of Collectors.   *)
EXTENDS CollectorKit

Served == {"clients", "transfers"}
Verbs == {"declare", "probe", "collect", "object", "evidence"}

Clients == {"transmission", "sabnzbd"}
Calls == {"session-get", "session-stats", "torrent-get", "queue"}   \* acquiredCalls

-----------------------------------------------------------------------------
(* The world: the configuration, what a call meets (each attempt of a        *)
(* transmission call separately), and what the clients carry.                *)

Torrent == [name |-> "aa", status |-> 4, error |-> 0]
Slot == [name |-> "SAB1", percentage |-> 40]

Fine == [replay |-> FALSE, urls |-> Clients, key |-> TRUE, staged |-> Calls,
         met |-> [c \in Calls \union {"fullstatus"} |-> <<"ok">>],
         torrents |-> <<Torrent>>, slots |-> <<Slot>>, disk |-> [total |-> 200, free |-> 1]]

Failures == {"silent", "code", "huge", "garbage", "refused"}

Worlds ==
  {[Fine EXCEPT !.urls = u, !.key = k] : u \in SUBSET Clients, k \in BOOLEAN}
  \union {[Fine EXCEPT !.met[c] = <<f>>] : c \in Calls \union {"fullstatus"}, f \in Failures}
  \union {[Fine EXCEPT !.met["torrent-get"] = <<"conflict", f>>] :
            f \in {"ok", "conflict", "silent"}}
  \union {[Fine EXCEPT !.met["torrent-get"] = <<"code">>, !.met["queue"] = <<"code">>]}
  \union {[Fine EXCEPT !.torrents = <<t, [Torrent EXCEPT !.name = "bb"]>>] :
            t \in {[Torrent EXCEPT !.name = Unstated], [Torrent EXCEPT !.status = 7],
                   [Torrent EXCEPT !.error = 3]}}
  \union {[Fine EXCEPT !.slots = <<s>>] :
            s \in {[Slot EXCEPT !.name = Unstated], [Slot EXCEPT !.percentage = Unstated]}}
  \union {[Fine EXCEPT !.disk = d] :
            d \in {[total |-> 0, free |-> 1], [total |-> 200, free |-> Unstated]}}
  \union {[Fine EXCEPT !.replay = TRUE, !.staged = s, !.met["queue"] = <<f>>] :
            s \in {Calls, {}, {"queue"}, Calls \ {"session-stats"}}, f \in {"ok", "garbage"}}

-----------------------------------------------------------------------------
(* source.go                                                                *)

staged(w) == w.staged # {}

\* clients: a URL configures a client; a capture that stages any call has both.
clients(w) == IF w.replay THEN [urls |-> IF staged(w) THEN Clients ELSE {}, key |-> TRUE]
              ELSE [urls |-> w.urls, key |-> w.key]

\* decodeDocument: one JSON value and nothing after it.
decodeDocument(met) == met # "garbage"

\* rpc: the first conflict hands over the session id and is asked again, once;
\* then only a whole, bounded, decodable 200 that reports success is an answer.
rpc(attempts) ==
  LET met == IF Head(attempts) = "conflict" /\ Len(attempts) > 1 THEN attempts[2] ELSE Head(attempts)
  IN IF met = "ok" /\ decodeDocument(met) THEN Doc(met) ELSE [is |-> "dark"]

\* sabMode: the same without a handshake; status false is a refusal.
sabMode(attempts) == IF Head(attempts) = "ok" THEN Doc("ok") ELSE [is |-> "dark"]

\* replaySource.document: a call missing beside staged ones is a broken
\* capture, which is fatal; one that does not decode is only a dark client.
replayDocument(w, call) ==
  CASE call \notin w.staged -> IF staged(w) THEN Error ELSE Declined("unavailable")
    [] OTHER -> IF decodeDocument(Head(w.met[call])) THEN Doc("ok") ELSE [is |-> "dark"]

document(w, call) ==
  CASE w.replay -> replayDocument(w, call)
    [] ~w.replay /\ clients(w).urls = {} -> Declined("unavailable")
    [] OTHER -> IF call \in {"queue", "fullstatus"} THEN sabMode(w.met[call]) ELSE rpc(w.met[call])

\* probe: yes only when every configured client answers.
probe(w) ==
  /\ clients(w).urls # {}
  /\ "transmission" \in clients(w).urls => IsDoc(document(w, "session-get"))
  /\ "sabnzbd" \in clients(w).urls => clients(w).key /\ IsDoc(document(w, "queue"))

-----------------------------------------------------------------------------
(* clients.go: a configured client is a row, whatever it answers.            *)

fatalAcquisition(got) == got.is = "error"

transmissionClientFacts(w) ==
  LET got == FirstFailure(<<document(w, "session-get"), document(w, "session-stats")>>)
  IN IF IsDoc(got) THEN [Client |-> "transmission", Version |-> "v"]
     ELSE [Client |-> "transmission", StatusUnobservable |-> "rpc"]

\* queueClientFacts: the share used needs both sizes and a total that is not zero.
queueClientFacts(w) ==
  LET both == w.disk.free # Unstated /\ w.disk.total > 0
  IN Facts([Client |-> "sabnzbd", DiskTotalBytes |-> w.disk.total, DiskFreeBytes |-> w.disk.free,
            DiskUsedPercent |-> IF both THEN ((w.disk.total - w.disk.free) * 100) \div w.disk.total
                                ELSE Unstated])

sabClientFacts(w) ==
  CASE ~clients(w).key -> [Client |-> "sabnzbd", ConfigMissing |-> "key"]
    [] clients(w).key /\ IsDoc(document(w, "queue")) -> queueClientFacts(w)
    [] OTHER -> [Client |-> "sabnzbd", StatusUnobservable |-> "api"]

\* The calls a listing makes, in the order it makes them.
Needed(w, c) ==
  SelectSeq(IF c = "clients" THEN <<"session-get", "session-stats", "queue">>
                             ELSE <<"torrent-get", "queue">>,
            LAMBDA call : IF call = "queue" THEN "sabnzbd" \in clients(w).urls /\ clients(w).key
                                            ELSE "transmission" \in clients(w).urls)
Fatal(w, c) == \E i \in DOMAIN Needed(w, c) : fatalAcquisition(document(w, Needed(w, c)[i]))

clientRows(w) ==
  LET rows == (IF "transmission" \in clients(w).urls
               THEN <<Row("transmission", transmissionClientFacts(w))>> ELSE <<>>) \o
              (IF "sabnzbd" \in clients(w).urls THEN <<Row("sabnzbd", sabClientFacts(w))>> ELSE <<>>)
  IN IF Fatal(w, "clients") THEN Error ELSE Plain(rows)

-----------------------------------------------------------------------------
(* transfers.go                                                             *)

\* torrentFacts: the status words it is documented to use, and the error
\* text only beside an error.
transmissionStatus == <<"stopped", "check-wait", "check", "download-wait", "download", "seed-wait", "seed">>
torrentFacts(t) ==
  Facts([Client |-> "transmission", Error |-> t.error,
         Status |-> IF t.status < Len(transmissionStatus) THEN transmissionStatus[t.status + 1] ELSE Unstated,
         ErrorString |-> IF t.error # 0 THEN "text" ELSE Unstated])

torrentRows(w) == LET named == SelectSeq(w.torrents, LAMBDA t : t.name # Unstated)
                  IN [i \in DOMAIN named |-> Row(named[i].name, torrentFacts(named[i]))]

slotFacts(s) == Facts([Client |-> "sabnzbd", PercentDone |-> s.percentage])

slotRows(w) == LET named == SelectSeq(w.slots, LAMBDA s : s.name # Unstated)
               IN [i \in DOMAIN named |-> Row(named[i].name, slotFacts(named[i]))]

\* The configured clients whose transfers could not be read.
Dark(w) ==
  {k \in clients(w).urls : IF k = "transmission" THEN ~IsDoc(document(w, "torrent-get"))
                           ELSE ~clients(w).key \/ ~IsDoc(document(w, "queue"))}

\* transferRows: one dark client costs its own rows; when every one asked is
\* dark there is no listing.
transferRows(w) ==
  LET lit == clients(w).urls \ Dark(w)
  IN CASE Fatal(w, "transfers") -> Error
       [] ~Fatal(w, "transfers") /\ lit = {} /\ clients(w).urls # {} -> Error
       [] OTHER -> Plain((IF "transmission" \in lit THEN torrentRows(w) ELSE <<>>) \o
                         (IF "sabnzbd" \in lit THEN slotRows(w) ELSE <<>>))

-----------------------------------------------------------------------------
(* collect.go, verbs.go                                                     *)

rows(c, w) == IF c = "clients" THEN clientRows(w) ELSE transferRows(w)

collectOne(c, w) == IF clients(w).urls = {} THEN Declined("unavailable") ELSE rows(c, w)

Opening(w) == Doc(clients(w))
Collect(c, held, w) == IF c \in Served THEN collectOne(c, w) ELSE NotServed

\* serveObject builds without asking whether a client is configured: then
\* no row has the name.
serveObject(c, name, w) ==
  IF c \notin Served THEN Refusal("unsupported")
  ELSE Opened(rows(c, w), name, LAMBDA row : Response(<<ObjectRecord(row)>>))

\* darkClient: a client that would not answer is a decline here.
darkClient(got, answer) == IF got.is = "dark" THEN Declined("unavailable")
                           ELSE IF IsDoc(got) THEN answer ELSE got

\* evidenceCanonical: a client's own documents; or the transfer in the first
\* listing that carries it, where a dark transmission hides sabnzbd's too.
evidenceCanonical(c, name, w) ==
  LET urls == clients(w).urls
      session == FirstFailure(<<document(w, "session-get"), document(w, "session-stats")>>)
      torrents == document(w, "torrent-get")
      sab == IF "sabnzbd" \in urls /\ clients(w).key
             THEN darkClient(document(w, "queue"), Plain(slotRows(w))) ELSE Plain(<<>>)
  IN CASE c = "clients" /\ name = "transmission" /\ name \in urls ->
            darkClient(session, Plain(<<Row(name, <<>>)>>))
       [] c = "clients" /\ name = "sabnzbd" /\ name \in urls ->
            IF ~clients(w).key THEN Declined("unavailable")
            ELSE darkClient(document(w, "fullstatus"), Plain(<<Row(name, <<>>)>>))
       [] c = "clients" /\ name \notin urls -> Plain(<<>>)
       [] c = "transfers" ->
            CASE "transmission" \in urls /\ ~IsDoc(torrents) -> darkClient(torrents, torrents)
              [] "transmission" \in urls /\ IsDoc(torrents) /\ name \in NamesOf(torrentRows(w)) ->
                   Plain(torrentRows(w))
              [] OTHER -> sab

serveEvidence(c, name, w) ==
  IF c \notin Served THEN Refusal("unsupported")
  ELSE Opened(evidenceCanonical(c, name, w), name, LAMBDA row : Response(<<EvidenceRecord({}, 1, 8)>>))

\* A client is configuration; a transfer is what a client that answers carries.
Holds(c, w) ==
  IF c = "clients" THEN clients(w).urls
  ELSE UNION {IF k = "transmission" THEN NamesOf(torrentRows(w)) ELSE NamesOf(slotRows(w)) :
                k \in clients(w).urls \ Dark(w)}

\* The transfers a committed reading retires unread.
Unread(c, w) ==
  IF c = "clients" THEN {}
  ELSE UNION {IF k = "transmission" THEN NamesOf(torrentRows(w)) ELSE NamesOf(slotRows(w)) : k \in Dark(w)}
=============================================================================
