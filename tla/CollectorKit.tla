---------------------------- MODULE CollectorKit ----------------------------
(***************************************************************************)
(* What the twenty collectors under go/cmd share: the outcomes a           *)
(* read can have, the rows a collection publishes, the answer it gives for *)
(* one requested collection, and the responses of the object and evidence  *)
(* verbs.  A collector is a set of operators over the world it reads; the  *)
(* process that runs one is in Collectors.tla.                             *)
(***************************************************************************)
EXTENDS Integers, FiniteSets, Sequences, SequencesExt, TLC

CONSTANT Unstated        \* a member the document does not carry, or null

-----------------------------------------------------------------------------
(* The outcome of a read: a document, the seam's decline, or an error that *)
(* ends the process ("I could not run").                                   *)

Doc(d) == [is |-> "document", doc |-> d]
Declined(reason) == [is |-> "declined", reason |-> reason]
Error == [is |-> "error"]

IsDoc(r) == r.is = "document"

\* The first outcome of a sequence of reads that is not a document, or the last.
FirstFailure(reads) ==
  LET failed == {i \in DOMAIN reads : ~IsDoc(reads[i])}
  IN IF failed = {} THEN reads[Len(reads)]
     ELSE reads[CHOOSE i \in failed : \A j \in failed : i <= j]

-----------------------------------------------------------------------------
(* Rows.  A fact the document does not state is not on the row at all.     *)

Facts(f) == [x \in {y \in DOMAIN f : f[y] # Unstated} |-> f[x]]

Edge(type, kind, target) == [type |-> type, kind |-> kind, target |-> target]

Row(name, facts) == [name |-> name, facts |-> facts, edges |-> <<>>, unobservable |-> {}]

NamesOf(rows) == {rows[i].name : i \in DOMAIN rows}

\* The sum of a natural-valued operator over the rows.
Total(rows, Of(_)) == FoldLeft(LAMBDA n, r : n + Of(r), 0, rows)

-----------------------------------------------------------------------------
(* The answer for one requested collection.                                *)

\* Rows with the counts the collector's commit states.
Answer(rows, assertions, unobservable) ==
  [is |-> "rows", rows |-> rows, assertions |-> assertions, unobservable |-> unobservable,
   stamped |-> TRUE]

Plain(rows) == Answer(rows, 0, 0)

\* Mutant: the commit counts the rows and forgets their edges.
WithEdgesUncounted(rows) == Plain(rows)

WithEdges(rows) == Answer(rows, Total(rows, LAMBDA r : Len(r.edges)), 0)

WithAll(rows) == Answer(rows, Total(rows, LAMBDA r : Len(r.edges)),
                        Total(rows, LAMBDA r : Cardinality(r.unobservable)))

\* Rows of a collection that never reads the clock it stamps them with.
Unstamped(rows) == [Plain(rows) EXCEPT !.stamped = FALSE]

\* A name the collector never published: declined, never guessed at.
NotServed == Declined("unsupported")

-----------------------------------------------------------------------------
(* The response to a verb: its records and the exit status.  Every         *)
(* response that ran ends with verb_end.                                   *)

Response(records) == [exit |-> 0, records |-> Append(records, [record |-> "verb_end"])]
NoResponse == [exit |-> 1, records |-> <<>>]
Refusal(reason) == Response(<<[record |-> "decline", reason |-> reason]>>)

\* Both verbs answer from the listing: its decline is theirs, its error ends
\* the process, and a name it does not carry is declined as unavailable.
Opened(answer, name, Found(_)) ==
  CASE answer.is = "declined" -> Refusal(answer.reason)
    [] answer.is = "error" -> NoResponse
    [] OTHER -> LET found == SelectSeq(answer.rows, LAMBDA r : r.name = name)
                IN IF found = <<>> THEN Refusal("unavailable") ELSE Found(Head(found))

ObjectRecord(row) == [record |-> "object", row |-> row]

\* An evidence document: what its parts still say, and whether its size was
\* cut at the declared bound.
EvidenceRecord(document, size, bound) ==
  [record |-> "evidence_document", document |-> document, truncated |-> size > bound]
=============================================================================
