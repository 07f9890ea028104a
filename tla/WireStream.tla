----------------------------- MODULE WireStream -----------------------------
(***************************************************************************)
(* The parser of Wire.tla fed one record at a time by a sender that may    *)
(* write any record, sound or not, in any order, and stop anywhere.  The   *)
(* incremental parser is compared with a declarative reading of what a     *)
(* whole stream must be, and with what a lossy transport leaves of it.     *)
(***************************************************************************)
EXTENDS Wire

CONSTANTS Issued,       \* the request: collection |-> generation
          Pool,         \* the records a sender may write, each tagged `sound`
          Tails,        \* what it may go on to write behind a refused record
          MaxRecords    \* bound on the length of one stream the parser reads

\* A record's own rules, whichever its kind: "" or the reason it is refused.
OwnRules(rec) ==
  CASE rec.record = "begin" -> parseBegin(rec, Issued)
    [] rec.record = "object" -> parseObject(rec, Issued)
    [] rec.record = "relation_assertion" -> parseRelation(rec, Issued)
    [] rec.record = "unobservable" -> parseUnobservable(rec, Issued)
    [] rec.record = "decline" -> parseDecline(rec, Issued)
    [] rec.record = "commit" -> parseCommit(rec, Issued)
    [] rec.record = "end" -> parseEnd(rec)
    [] OTHER -> "unknown-record"

\* A record is tagged sound exactly when its own rules hold, and what the
\* rules compare as numbers are numbers.
ASSUME PoolAssumption ==
  /\ Tails \subseteq Seq(Pool)
  /\ \A rec \in Pool : rec.sound \in BOOLEAN /\ (rec.sound <=> OwnRules(rec) = "")
  /\ \A rec \in Pool : rec.record = "object" => rec.at \in Int
  /\ \A rec \in Pool : rec.record = "commit" =>
       rec.objects \in Int /\ rec.assertions \in Int /\ rec.unobservable \in Int
  /\ \A rec \in Pool : rec.record = "end" => rec.wall_ms \in Int

VARIABLES stream,       \* the records written
          batch,        \* the batch ParseBatch has built from them
          closed        \* ParseBatch has returned

vars == <<stream, batch, closed>>

Emissions == {"object", "relation_assertion", "unobservable"}

Init == stream = <<>> /\ batch = EmptyBatch(Issued) /\ closed = FALSE

\* One more record on the wire, and the parser reads on.
Record(rec) ==
  /\ ~closed /\ Len(stream) < MaxRecords
  /\ batch' = Receive(batch, rec, Issued)
  /\ batch'.violation = ""
  /\ stream' = Append(stream, rec)
  /\ UNCHANGED closed

\* One more record, and it is a violation: ParseBatch returns it at once,
\* whatever the sender went on to write.
Refuse(rec) ==
  /\ ~closed /\ Len(stream) < MaxRecords
  /\ batch' = Receive(batch, rec, Issued)
  /\ batch'.violation # ""
  /\ \E rest \in Tails : stream' = Append(stream, rec) \o rest
  /\ closed' = TRUE

\* End of file.
Close ==
  /\ ~closed
  /\ closed' = TRUE
  /\ batch' = Finish(batch, Len(stream))
  /\ UNCHANGED stream

Next == Close \/ \E rec \in Pool : Record(rec) \/ Refuse(rec)

Spec == Init /\ [][Next]_vars

-----------------------------------------------------------------------------
\* Where in s collection c is spoken of, and where by a record of one kind.
About(s, c) == {i \in DOMAIN s : /\ s[i].record \in Emissions \union {"decline", "commit"}
                                 /\ s[i].collection = c}

Of(s, c, kind) == {i \in About(s, c) : s[i].record = kind}

\* A commit states the number of each kind of emission about c.
Counted(s, c, r) ==
  /\ r.objects = Cardinality(Of(s, c, "object"))
  /\ r.assertions = Cardinality(Of(s, c, "relation_assertion"))
  /\ r.unobservable = Cardinality(Of(s, c, "unobservable"))

\* One collection's part of a stream is one of three whole statements, or an
\* unfinished one (emissions and no commit), which establishes nothing.
WholeAnswer(s, c) ==
  LET said == About(s, c)
      OnlyEmissions(places) == \A i \in places : s[i].record \in Emissions
      Closes(k) == /\ s[k].record = "commit" /\ Counted(s, c, s[k])
                   /\ \A i \in said : i <= k
  IN \/ OnlyEmissions(said)
     \/ \E k \in said : Closes(k) /\ OnlyEmissions(said \ {k})
     \/ \E d \in said : /\ said = {d}
                        /\ s[d].record = "decline" /\ s[d].reason # "absent"
     \/ \E d, k \in said : /\ said = {d, k} /\ Closes(k)
                           /\ s[d].record = "decline" /\ s[d].reason = "absent"

\* What a stream must be to be authoritative, said without a parser.
ValidStream(s) ==
  /\ Len(s) >= 2
  /\ \A i \in DOMAIN s : s[i].sound
  /\ \A i \in DOMAIN s : (s[i].record = "begin") = (i = 1)
  /\ \A i \in DOMAIN s : (s[i].record = "end") = (i = Len(s))
  /\ s[Len(s)].request = s[1].request /\ s[Len(s)].batch = s[1].batch
  /\ \A i \in 2..(Len(s) - 1) : s[i].collection \in DOMAIN Issued
  /\ \A c \in DOMAIN Issued : WholeAnswer(s, c)
  /\ \A c \in DOMAIN Issued : \A i, j \in Of(s, c, "object") :
       i < j => s[i].name # s[j].name /\ s[i].at <= s[j].at
  /\ (\E c \in DOMAIN Issued : Of(s, c, "object") # {}) =>
       "wall_ms" \in DOMAIN s[Len(s)].has /\ s[Len(s)].wall_ms > 0

-----------------------------------------------------------------------------
(* Properties                                                              *)

\* One type invariant: the batch has a stream for each issued collection and
\* an unviolated batch counted every record it received.
TypeOK ==
  /\ closed \in BOOLEAN
  /\ DOMAIN batch.collections = DOMAIN Issued
  /\ batch.violation = "" =>
       \A c \in DOMAIN Issued :
         /\ Len(batch.collections[c].objects) = Cardinality(Of(stream, c, "object"))
         /\ batch.collections[c].assertions = Cardinality(Of(stream, c, "relation_assertion"))

\* ParseBatch (wire.go:163-296) accepts exactly the streams the contract
\* describes: the incremental rules and the whole-batch check together are
\* neither too weak nor too strong, and no record is refused that a stream
\* could still have been completed behind.
AcceptsExactlyValidStreams ==
  closed => (Accepted(batch) <=> ValidStream(stream))

\* What an accepted batch says of a collection: its decline, its commit and
\* the objects the store holds from then on.
Nothing == [decline |-> None, commit |-> NoCommit, holds |-> <<>>]

Establishes(b, c) ==
  LET said == b.collections[c]
  IN [decline |-> said.decline, commit |-> said.commit,
      holds |-> IF said.commit = NoCommit THEN <<>> ELSE said.objects]

\* "The interface is not on this host" arrives as "the interface holds nothing".
AbsenceToldAsEmpty(said, told) ==
  said.decline.reason = "absent" /\ told = [said EXCEPT !.decline = None]

\* The records of s at the places kept, in order: the first, the second, ...
Left(s, kept) ==
  [n \in 1..Cardinality(kept) |->
     s[CHOOSE k \in kept : Cardinality({j \in kept : j <= k}) = n]]

\* A transport that loses records changes no answer but one: what is left of
\* an accepted stream is void, or says of each collection what the whole
\* stream did, or nothing (the counts, the end record and the begin echo
\* exist for this: wire.go:371-382).  The one is an absence whose decline
\* record is lost before its zero commit: no count covers a decline.
LossOnlyEmptiesAnAbsence ==
  (closed /\ Accepted(batch)) =>
    \A kept \in SUBSET (DOMAIN stream) :
      LET b == ParseBatch(Left(stream, kept), Issued)
      IN Accepted(b) =>
           \A c \in DOMAIN Issued :
             LET said == Establishes(batch, c)
                 told == Establishes(b, c)
             IN told \in {said, Nothing} \/ AbsenceToldAsEmpty(said, told)

\* wire.go: the commit's counts "let the collator check it received what was
\* sent".  So no loss turns one answer into another.
LossNeverChangesAnAnswer ==
  (closed /\ Accepted(batch)) =>
    \A kept \in SUBSET (DOMAIN stream) :
      LET b == ParseBatch(Left(stream, kept), Issued)
      IN Accepted(b) =>
           \A c \in DOMAIN Issued : Establishes(b, c) \in {Establishes(batch, c), Nothing}
=============================================================================
