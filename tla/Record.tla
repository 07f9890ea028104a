------------------------------- MODULE Record -------------------------------
(***************************************************************************)
(* Change tracking: the `snapshots` table of store/record.go, the writer   *)
(* recordSnapshot (collate/collate.go) and the reader ChangesSince         *)
(* (collate/changes.go).                                                   *)
(*                                                                         *)
(* A key is one (collection, scope).  A reading maps object ids to their   *)
(* facts; name, type and the absent list are compared like facts that are  *)
(* never measures.  Each key is acquired by one collectorLoop goroutine,   *)
(* so the steps of one key are sequential, keys interleave, and the clock, *)
(* a prune or a crash may come between any two steps.                      *)
(*                                                                         *)
(* Stamps are wall-clock seconds and the wall clock may be stepped back.   *)
(* `held` is history: the readings that were really applied.               *)
(***************************************************************************)
EXTENDS Naturals, Sequences, FiniteSets, Functions

CONSTANTS
  Keys,        \* (collection, scope) pairs
  Readings,    \* object sets: functions from ids to functions from facts
  Decls,       \* declarations
  Measures,    \* Measures[d]: the facts d calls counter or gauge
  None,        \* no declaration, no snapshot
  MaxTime,     \* bound on the wall clock
  MaxReadings  \* bound on the readings applied per key

ASSUME RecordBounds == MaxTime \in Nat /\ MaxReadings \in Nat

VARIABLES
  now,         \* the wall clock, in seconds
  decl,        \* decl[k]: the declaration the collection was learned under
  live,        \* live[k]: the applied objects
  rows,        \* the snapshots table
  nextSeq,     \* the AUTOINCREMENT counter
  pc,          \* pc[k]: "idle", "applied" or "built"
  pending,     \* pending[k]: the snapshot built and not yet stored
  held,        \* history: held[k], readings in the order they were applied
  stepped,     \* history: the wall clock has been stepped back
  horizon      \* history: the latest `before` a prune was given

vars == <<now, decl, live, rows, nextSeq, pc, pending, held, stepped, horizon>>

SnapshotFormat == 1

NoObjects == <<>>

(* Diffable: the measures are dropped from every object. *)
Diffable(x, measures) == [id \in DOMAIN x |-> Restrict(x[id], DOMAIN x[id] \ measures)]

Stripped == {Diffable(x, Measures[d]) : x \in Readings, d \in Decls}

(* A row; of an older format, its objects may be anything. *)
Row == [seq : Nat, key : Keys, at : 0 .. MaxTime, objects : Stripped \cup {None},
        format : {0, SnapshotFormat}]

ASSUME NoneAssumption == None \notin Decls /\ None \notin Row

TypeOK ==
  /\ now \in 0 .. MaxTime
  /\ decl \in [Keys -> Decls \cup {None}]
  /\ \A k \in Keys : live[k] \in Readings \cup {NoObjects}
  /\ pc \in [Keys -> {"idle", "applied", "built"}]
  /\ nextSeq \in Nat
  /\ \A r \in rows :
       /\ r.key \in Keys /\ r.at \in 0 .. MaxTime /\ r.seq \in 1 .. nextSeq
       /\ r.format = SnapshotFormat => r.objects \in Stripped
  /\ \A q, r \in rows : q.seq = r.seq => q = r

(* A store this build opens may hold a reading an older build stored.  The *)
(* objects of a host-native reading encode to the bytes they always did,   *)
(* scope and absent being omitted when empty; those of an instance do not. *)
Legacy(k, objs) == [seq |-> 1, key |-> k, at |-> 0, objects |-> objs, format |-> 0]

Init ==
  /\ now = 0
  /\ decl = [k \in Keys |-> None]
  /\ live = [k \in Keys |-> NoObjects]
  /\ rows \in {{}} \cup {{Legacy(k, objs)} : k \in Keys, objs \in Stripped \cup {None}}
  /\ nextSeq = Cardinality(rows)
  /\ pc = [k \in Keys |-> "idle"]
  /\ pending = [k \in Keys |-> None]
  /\ held = [k \in Keys |-> <<>>]
  /\ stepped = FALSE
  /\ horizon = 0

----------------------------------------------------------------------------
(* Reading the table. *)

RowsOf(k) == {r \in rows : r.key = k}

Newest(S) == CHOOSE r \in S : \A q \in S : q.seq <= r.seq

(* ORDER BY taken_at, seq. *)
Precedes(q, r) == q.at < r.at \/ (q.at = r.at /\ q.seq <= r.seq)

(* Mutant: a reading taken in the very second asked about is left out. *)
SnapshotBefore(k, t) ==
  LET S == {r \in RowsOf(k) : r.at < t}
  IN  IF S = {} THEN None ELSE CHOOSE r \in S : \A q \in S : Precedes(q, r)

(* The newest stored reading no later than t, None where there is none. *)
SnapshotAtOrBefore(k, t) ==
  LET S == {r \in RowsOf(k) : r.at <= t}
  IN  IF S = {} THEN None ELSE CHOOSE r \in S : \A q \in S : Precedes(q, r)

(* changedPaths: a fact present on one side alone, or with another value.  *)
Differs(x, y, f) ==
  \/ f \in DOMAIN x /\ f \notin DOMAIN y
  \/ f \notin DOMAIN x /\ f \in DOMAIN y
  \/ f \in DOMAIN x \cap DOMAIN y /\ x[f] # y[f]

(* Compare: ids only after, ids only before, and the facts that differ of  *)
(* ids in both.                                                            *)
Compare(before, after) ==
  [ added   |-> DOMAIN after \ DOMAIN before,
    removed |-> DOMAIN before \ DOMAIN after,
    changed |-> {p \in (DOMAIN before \cap DOMAIN after)
                       \X UNION {DOMAIN y : y \in Range(before) \cup Range(after)} :
                   Differs(before[p[1]], after[p[1]], p[2])} ]

NoChange == [added |-> {}, removed |-> {}, changed |-> {}]

Gap(reason) == [gap |-> reason, diff |-> NoChange]

(* ChangesSince: a stated gap, or the difference between the baseline and  *)
(* the live objects, both without measures.                                *)
ChangesSince(k, t) ==
  LET baseline == SnapshotAtOrBefore(k, t)
  IN  IF decl[k] = None THEN Gap("undeclared")
      ELSE IF baseline = None
        THEN Gap(IF RowsOf(k) = {} THEN "no-record" ELSE "before-record")
      ELSE IF baseline.format # SnapshotFormat THEN Gap("format-changed")
      ELSE [gap  |-> "none",
            diff |-> Compare(baseline.objects, Diffable(live[k], Measures[decl[k]]))]

----------------------------------------------------------------------------
(* Writing it. *)

(* RecordDeclaration and IssueGenerations at the head of an acquisition. *)
Learn(k, d) ==
  /\ pc[k] = "idle"
  /\ decl[k] # d
  /\ decl' = [decl EXCEPT ![k] = d]
  /\ UNCHANGED <<now, live, rows, nextSeq, pc, pending, held, stepped, horizon>>

(* ApplyCommitWith answered "applied". *)
Applied(k, x) ==
  /\ pc[k] = "idle"
  /\ decl[k] # None
  /\ Len(held[k]) < MaxReadings
  /\ live' = [live EXCEPT ![k] = x]
  /\ held' = [held EXCEPT ![k] =
       Append(@, [content |-> x, decl |-> decl[k], from |-> now,
                  until |-> now, kept |-> FALSE])]
  /\ pc' = [pc EXCEPT ![k] = "applied"]
  /\ UNCHANGED <<now, decl, rows, nextSeq, pending, stepped, horizon>>

(* Mutant: the snapshot is taken with the measures still in it. *)
SnapshotForWithMeasures(k) ==
  /\ pc[k] = "applied"
  /\ pending' = [pending EXCEPT ![k] = [at |-> now, objects |-> live[k]]]
  /\ pc' = [pc EXCEPT ![k] = "built"]
  /\ UNCHANGED <<now, decl, live, rows, nextSeq, held, stepped, horizon>>

(* time.Now, then SnapshotFor: built from what is live now, not from what  *)
(* the batch carried.                                                      *)
SnapshotFor(k) ==
  /\ pc[k] = "applied"
  /\ pending' = [pending EXCEPT ![k] =
                   [at |-> now, objects |-> Diffable(live[k], Measures[decl[k]])]]
  /\ pc' = [pc EXCEPT ![k] = "built"]
  /\ UNCHANGED <<now, decl, live, rows, nextSeq, held, stepped, horizon>>

(* Digest equality: sha256 over the stored bytes and nothing else. *)
SameDigest(r, objs) == r.objects = objs

(* Mutant: de-duplicated against the whole history. *)
UnchangedSinceAny(k) ==
  \E r \in RowsOf(k) : SameDigest(r, pending[k].objects)

(* Only the newest stored row is compared: every flip is recorded. *)
UnchangedSinceNewest(k) ==
  RowsOf(k) # {} /\ SameDigest(Newest(RowsOf(k)), pending[k].objects)

Insert(k) ==
  /\ rows' = rows \cup {[seq |-> nextSeq + 1, key |-> k, at |-> pending[k].at,
                         objects |-> pending[k].objects, format |-> SnapshotFormat]}
  /\ nextSeq' = nextSeq + 1

RecordSnapshot(k) ==
  /\ pc[k] = "built"
  /\ \/ UnchangedSinceNewest(k) /\ UNCHANGED <<rows, nextSeq>>
     \/ ~UnchangedSinceNewest(k) /\ Insert(k)
  /\ held' = [held EXCEPT ![k][Len(held[k])] = [@ EXCEPT !.kept = TRUE, !.until = now]]
  /\ pending' = [pending EXCEPT ![k] = None]
  /\ pc' = [pc EXCEPT ![k] = "idle"]
  /\ UNCHANGED <<now, decl, live, stepped, horizon>>

(* A failure to record does not fail the apply. *)
RecordFails(k) ==
  /\ pc[k] \in {"applied", "built"}
  /\ pending' = [pending EXCEPT ![k] = None]
  /\ pc' = [pc EXCEPT ![k] = "idle"]
  /\ UNCHANGED <<now, decl, live, rows, nextSeq, held, stepped, horizon>>

(* Mutant: a plain DELETE. *)
PruneAll(before) ==
  /\ rows' = {r \in rows : r.at >= before}
  /\ horizon' = IF before > horizon THEN before ELSE horizon
  /\ UNCHANGED <<now, decl, live, nextSeq, pc, pending, held, stepped>>

(* PruneSnapshots: MAX(seq) of every collection and scope survives. *)
PruneSnapshots(before) ==
  /\ rows' = {r \in rows : r.at >= before \/ r = Newest(RowsOf(r.key))}
  /\ horizon' = IF before > horizon THEN before ELSE horizon
  /\ UNCHANGED <<now, decl, live, nextSeq, pc, pending, held, stepped>>

Tick ==
  /\ now < MaxTime
  /\ now' = now + 1
  /\ UNCHANGED <<decl, live, rows, nextSeq, pc, pending, held, stepped, horizon>>

(* The wall clock is set back, once. *)
StepBack ==
  /\ ~stepped
  /\ \E t \in 0 .. MaxTime : t < now /\ now' = t
  /\ stepped' = TRUE
  /\ UNCHANGED <<decl, live, rows, nextSeq, pc, pending, held, horizon>>

Crash ==
  /\ pc' = [k \in Keys |-> "idle"]
  /\ pending' = [k \in Keys |-> None]
  /\ UNCHANGED <<now, decl, live, rows, nextSeq, held, stepped, horizon>>

Writer(k) ==
  \/ \E d \in Decls : Learn(k, d)
  \/ \E x \in Readings : Applied(k, x)
  \/ SnapshotFor(k) \/ RecordSnapshot(k) \/ RecordFails(k)

Next ==
  \/ \E k \in Keys : Writer(k)
  \/ \E t \in 1 .. now : PruneSnapshots(t)
  \/ Tick \/ StepBack \/ Crash

Spec == Init /\ [][Next]_vars

----------------------------------------------------------------------------
(* Properties. *)

(* The reading that was live throughout the second t, and whose snapshot   *)
(* was taken by then; 0 where some step was still under way.               *)
SettledAt(k, t) ==
  LET past == {i \in DOMAIN held[k] : held[k][i].from <= t}
      last == Cardinality(past)
  IN  IF last # 0 /\ held[k][last].kept /\ held[k][last].until <= t THEN last ELSE 0

(* "What changed" is answered with the real difference between the reading *)
(* held then and the live one, or with a stated gap that only a prune or a *)
(* row of an old format may have caused: never from a wrong baseline,      *)
(* whatever failed to be recorded, was lost in a crash or was pruned.      *)
AnswerIsTheRealDifference ==
  ~stepped =>
    \A k \in Keys, t \in 0 .. now :
      LET i == SettledAt(k, t)
          answer == ChangesSince(k, t)
          m == Measures[decl[k]]
      IN  (i # 0 /\ held[k][i].decl = decl[k]) =>
            \/ answer.gap = "before-record" /\ horizon # 0
            \/ /\ answer.gap = "format-changed"
               /\ \E r \in RowsOf(k) : r.format # SnapshotFormat
            \/ answer = [gap |-> "none",
                         diff |-> Compare(Diffable(held[k][i].content, m),
                                          Diffable(live[k], m))]

(* "A host that flips between two states must record every flip", and a    *)
(* flip lost to a failure or a crash is caught up by the next one: once a  *)
(* snapshot call has returned, the newest row is the reading it was called *)
(* for.                                                                    *)
NewestRowIsTheLastReadingKept ==
  \A k \in Keys :
    LET n == Len(held[k])
    IN  (n # 0 /\ held[k][n].kept) =>
          /\ RowsOf(k) # {}
          /\ Newest(RowsOf(k)).objects
               = Diffable(held[k][n].content, Measures[held[k][n].decl])

(* "Pruning must never leave a collection with no baseline at all", and    *)
(* none of another collection's rows stand in for its own.                 *)
PruneKeepsABaseline ==
  \A k \in Keys :
    (\E i \in DOMAIN held[k] : held[k][i].kept) =>
      RowsOf(k) # {}

(* record.go, on PruneSnapshots: "the oldest surviving row is the baseline *)
(* every question inside the horizon needs".                               *)
BaselineSurvivesInsideHorizon ==
  ~stepped =>
    \A k \in Keys, t \in horizon .. now :
      SettledAt(k, t) # 0 => SnapshotAtOrBefore(k, t) # None

(* changes.go, ChangesSince, on a baseline of an older format: "the record *)
(* resumes from the first reading taken since".  So a question about a     *)
(* moment at which this build had stored its reading meets no such gap.    *)
RecordResumesAfterFormatChange ==
  ~stepped =>
    \A k \in Keys, t \in 0 .. now :
      SettledAt(k, t) # 0 => ChangesSince(k, t).gap # "format-changed"

(* changes.go: "a fact whose temperament is counter or gauge does not      *)
(* participate".                                                           *)
MeasuresDoNotParticipate ==
  \A k \in Keys, t \in 0 .. now :
    \A p \in ChangesSince(k, t).diff.changed : p[2] \notin Measures[decl[k]]
=============================================================================
