------------------------------ MODULE CollectLogs ------------------------------
(* se-collect-logs: the newest page of the systemd journal, one row an entry. *)
EXTENDS CollectorKit

Served == {"journal"}
Verbs == {"declare", "probe", "collect", "object", "evidence"}

Limit == 2               \* defaultLimit (100)

-----------------------------------------------------------------------------
(* The world: journalctl, what each invocation of it meets, and the journal  *)
(* newest first.                                                             *)

Entry(cursor, message) == [cursor |-> cursor, message |-> message, id |-> Unstated, usec |-> "5",
                           priority |-> "number", unit |-> "sshd.service"]
A == Entry("a", "hello")
B == Entry("b", "hello")
C == Entry("c", "bye")

Fine == [replay |-> FALSE, tool |-> TRUE, clock |-> TRUE, met |-> "ok",
         journal |-> <<A, B, C>>, staged |-> "list"]

Worlds ==
  {Fine, [Fine EXCEPT !.tool = FALSE], [Fine EXCEPT !.clock = FALSE], [Fine EXCEPT !.journal = <<>>]}
  \union {[Fine EXCEPT !.met = m] : m \in {"failed", "timeout", "garbage"}}
  \union {[Fine EXCEPT !.journal = <<e, B>>] :
            e \in {[A EXCEPT !.cursor = Unstated], [A EXCEPT !.priority = "text"],
                   [A EXCEPT !.priority = Unstated], [A EXCEPT !.usec = "text"], [A EXCEPT !.usec = "0"],
                   [A EXCEPT !.id = "7"], [A EXCEPT !.unit = Unstated], [A EXCEPT !.message = "other"]}}
  \union {[Fine EXCEPT !.replay = TRUE, !.staged = s] : s \in {"list", "none", "unreadable", "garbage", "object"}}

-----------------------------------------------------------------------------
(* source.go, jsondoc.go                                                    *)

\* decodeLines: one document a line; one bad line is no reading at all.
decodeLines(met) == met # "garbage"

\* A journalctl that is not here is absence; one that will not answer is not.
Journalctl(w) == CASE ~w.tool -> Declined("absent")
                   [] w.tool /\ ~w.clock -> Error
                   [] w.tool /\ w.clock /\ w.met \in {"failed", "timeout"} -> Declined("unavailable")
                   [] OTHER -> IF decodeLines(w.met) THEN Doc(w.journal) ELSE Error

replayJournal(w) == CASE w.staged = "none" -> Declined("absent")
                      [] w.staged = "list" -> Doc(w.journal)
                      [] OTHER -> Error

\* journal: the newest page.
journal(w) == LET got == IF w.replay THEN replayJournal(w) ELSE Journalctl(w)
              IN IF IsDoc(got) THEN Doc(SubSeq(got.doc, 1, IF Limit < Len(got.doc) THEN Limit ELSE Len(got.doc)))
                 ELSE got

\* entry: the one record at a cursor, anywhere in the journal; a capture
\* holds one page, and a cursor outside it is a request it cannot answer.
entry(w, cursor) ==
  LET got == IF w.replay THEN journal(w) ELSE Journalctl(w)
      found == SelectSeq(got.doc, LAMBDA e : e.cursor = cursor)
  IN CASE ~IsDoc(got) -> got
       [] IsDoc(got) /\ found # <<>> -> Doc(Head(found))
       [] OTHER -> IF w.replay THEN Error ELSE Declined("unavailable")

probe(w) == IsDoc(journal(w))

-----------------------------------------------------------------------------
(* journal.go                                                               *)

\* usecToISO: zero is a timestamp nobody set.
usecToISO(usec) == IF usec = "0" THEN Unstated ELSE usec

\* entryFacts: a priority or a timestamp that is not a number refuses the entry.
entryFacts(e) == IF e.priority = "text" \/ e.usec = "text" THEN Error
                 ELSE Doc(Facts([Message |-> e.message, Priority |-> e.priority,
                                 Timestamp |-> usecToISO(e.usec), SystemdUnit |-> e.unit]))

\* repeatIdentity: the message's catalogue id, or its text.
repeatIdentity(e) == IF e.id # Unstated THEN <<"id", e.id>> ELSE <<"msg", e.message>>

\* entryRows: an entry nothing names, or one that cannot be read, refuses the page.
entryRows(records) ==
  LET Repeats(e) == Cardinality({i \in DOMAIN records : repeatIdentity(records[i]) = repeatIdentity(e)})
      Build(e) == Row(e.cursor, entryFacts(e).doc @@
                                [RepeatCount |-> Repeats(e), RepeatWindow |-> Len(records)])
  IN IF \E i \in DOMAIN records : records[i].cursor = Unstated \/ ~IsDoc(entryFacts(records[i]))
     THEN Error ELSE Plain([i \in DOMAIN records |-> Build(records[i])])

collectJournal(w) == IF IsDoc(journal(w)) THEN entryRows(journal(w).doc) ELSE journal(w)

Opening(w) == Doc("nothing")
Collect(c, held, w) == IF c \in Served THEN collectJournal(w) ELSE NotServed

-----------------------------------------------------------------------------
(* verbs.go                                                                 *)

verbEntry(c, name, w, Found(_)) ==
  CASE c \notin Served -> Refusal("unsupported")
    [] c \in Served /\ entry(w, name).is = "declined" -> Refusal(entry(w, name).reason)
    [] c \in Served /\ entry(w, name).is = "error" -> NoResponse
    [] OTHER -> Found(entry(w, name).doc)

\* serveObject: the entry's own facts - the page's repeat counts are not its -
\* and its membership of the unit that logged it.
serveObject(c, name, w) ==
  verbEntry(c, name, w, LAMBDA e :
    IF ~IsDoc(entryFacts(e)) THEN NoResponse
    ELSE Response(<<ObjectRecord(Row(name, entryFacts(e).doc))>> \o
                  (IF e.unit = Unstated THEN <<>>
                   ELSE <<[record |-> "relation_assertion", edge |-> Edge("member-of", "unit", e.unit)]>>)))

serveEvidence(c, name, w) ==
  verbEntry(c, name, w, LAMBDA e : Response(<<EvidenceRecord({<<"message", e.message>>}, 1, 8)>>))

\* The page is the collection: the newest entries.
Holds(c, w) == IF (w.replay /\ w.staged = "none") \/ (~w.replay /\ ~w.tool) THEN {}
               ELSE {w.journal[i].cursor : i \in 1..Len(w.journal) \intersect 1..Limit}
=============================================================================
