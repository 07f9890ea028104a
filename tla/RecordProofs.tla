---------------------------- MODULE RecordProofs ----------------------------
(***************************************************************************)
(* Proofs about change tracking, for every set of keys, readings,          *)
(* declarations and measures, and every bound.                             *)
(*                                                                         *)
(* The snapshots table remembers rows, and a question names a second; what *)
(* the answer is judged by are the readings that were applied.  The        *)
(* inductive invariant ties the three together: a writer under way builds  *)
(* the row of the last reading (WriterKnowsItsReading); while the wall     *)
(* clock has not been set back, rows and readings are both in the order of *)
(* their seconds (ClockRuns); and whatever second a reading was the last   *)
(* one of, the newest row of that second is its own, or was pruned with    *)
(* all before it (SettledRow).                                             *)
(***************************************************************************)
EXTENDS Record, FiniteSetTheorems, TLAPS

Held == [content : Readings, decl : Decls, from : 0 .. MaxTime, until : 0 .. MaxTime,
         kept : BOOLEAN]

(* The row a reading leaves. *)
SnapshotOf(e) == Diffable(e.content, Measures[e.decl])

LastOf(k) == held[k][Len(held[k])]

Shapes ==
  /\ TypeOK
  /\ live \in [Keys -> Readings \cup {NoObjects}]
  /\ held \in [Keys -> Seq(Held)]
  /\ rows \subseteq Row
  /\ DOMAIN pending = Keys
  /\ horizon \in Nat

NewestExists ==
  \A k \in Keys : RowsOf(k) # {} =>
    \E r \in RowsOf(k) : \A q \in RowsOf(k) : q.seq <= r.seq

(* What is live, and then what is built, is the last reading's: nothing    *)
(* else of the key runs between the apply and the record.                  *)
WriterKnowsItsReading ==
  \A k \in Keys : pc[k] # "idle" =>
    /\ Len(held[k]) # 0 /\ ~LastOf(k).kept
    /\ LastOf(k).decl = decl[k]
    /\ pc[k] = "applied" => live[k] = LastOf(k).content
    /\ pc[k] = "built" =>
         pending[k].objects = SnapshotOf(LastOf(k)) /\ pending[k].at \in 0 .. MaxTime

(* A clock that only runs on dates rows and readings in their order, so    *)
(* the readings begun by a second are the first few.                       *)
RowsInOrder(k) ==
  /\ \A r \in RowsOf(k) : r.at <= now
  /\ \A q, r \in RowsOf(k) : q.seq <= r.seq => q.at <= r.at
  /\ pc[k] = "built" =>
       /\ LastOf(k).from <= pending[k].at /\ pending[k].at <= now
       /\ \A r \in RowsOf(k) : r.at <= pending[k].at

Begun(k, t) == {i \in DOMAIN held[k] : held[k][i].from <= t}

ReadingsInOrder(k) ==
  /\ \A i \in DOMAIN held[k] : held[k][i].from <= now
  /\ \A t \in 0 .. MaxTime : \E m \in 0 .. Len(held[k]) : Begun(k, t) = 1 .. m

ClockRuns == ~stepped => \A k \in Keys : RowsInOrder(k) /\ ReadingsInOrder(k)

(* The newest row no later than t holds these objects, or there is none    *)
(* left that old.                                                          *)
BaselineIs(k, t, objs) ==
  \/ horizon # 0 /\ \A r \in RowsOf(k) : r.at > t
  \/ \E r \in RowsOf(k) :
       /\ r.at <= t /\ r.objects = objs
       /\ \A q \in RowsOf(k) : q.at <= t => q.seq <= r.seq

Settled(k, i, t) ==
  /\ held[k][i].kept /\ held[k][i].until <= t
  /\ \A j \in DOMAIN held[k] : j > i => held[k][j].from > t

SettledRow ==
  ~stepped => \A k \in Keys, t \in 0 .. MaxTime : \A i \in DOMAIN held[k] :
    Settled(k, i, t) => BaselineIs(k, t, SnapshotOf(held[k][i]))

RecordInv ==
  /\ Shapes /\ NewestExists /\ WriterKnowsItsReading
  /\ NewestRowIsTheLastReadingKept /\ PruneKeepsABaseline
  /\ ClockRuns /\ SettledRow

----------------------------------------------------------------------------
(* Rows and readings. *)

LEMMA RowFields ==
  ASSUME Shapes, NEW r \in rows
  PROVE  /\ r.key \in Keys /\ r.at \in 0 .. MaxTime /\ r.at \in Nat
         /\ r.seq \in Nat /\ r.seq <= nextSeq /\ nextSeq \in Nat
         /\ r.format = SnapshotFormat => r.objects \in Stripped
BY RecordBounds DEF Shapes, TypeOK

LEMMA ReadingFields ==
  ASSUME Shapes, NEW k \in Keys
  PROVE  /\ held[k] \in Seq(Held) /\ Len(held[k]) \in Nat
         /\ DOMAIN held[k] = 1 .. Len(held[k])
         /\ \A i \in DOMAIN held[k] :
              /\ held[k][i] \in Held /\ held[k][i].content \in Readings
              /\ held[k][i].decl \in Decls
              /\ held[k][i].from \in Nat /\ held[k][i].until \in Nat
              /\ held[k][i].kept \in BOOLEAN
<1>1. held[k] \in Seq(Held) /\ Len(held[k]) \in Nat /\ DOMAIN held[k] = 1 .. Len(held[k])
  BY DEF Shapes
<1>2. \A i \in DOMAIN held[k] : held[k][i] \in Held
  BY <1>1
<1> QED
  BY <1>1, <1>2, RecordBounds DEF Held

(* A sequence number names one row, so the row of the greatest is Newest.  *)
LEMMA NewestIs ==
  ASSUME NEW S, NEW r \in S,
         \A q \in S : q.seq \in Nat /\ q.seq <= r.seq,
         \A q, x \in S : q.seq = x.seq => q = x
  PROVE  Newest(S) = r
<1> DEFINE x == CHOOSE x \in S : \A q \in S : q.seq <= x.seq
<1>1. x \in S /\ \A q \in S : q.seq <= x.seq
  OBVIOUS
<1>2. Newest(S) = x
  BY DEF Newest
<1> HIDE DEF x
<1>3. x.seq = r.seq
  BY <1>1
<1> QED
  BY <1>1, <1>2, <1>3

LEMMA NewestOfKey ==
  ASSUME Shapes, NewestExists, NEW k \in Keys, RowsOf(k) # {}
  PROVE  /\ Newest(RowsOf(k)) \in RowsOf(k)
         /\ \A q \in RowsOf(k) : q.seq <= Newest(RowsOf(k)).seq
BY DEF NewestExists, Newest

(* What stands while rows and readings do. *)
LEMMA TableStands ==
  ASSUME NewestExists, NewestRowIsTheLastReadingKept, PruneKeepsABaseline,
         UNCHANGED <<rows, held>>
  PROVE  /\ NewestExists' /\ NewestRowIsTheLastReadingKept' /\ PruneKeepsABaseline'
BY DEF NewestExists, NewestRowIsTheLastReadingKept, PruneKeepsABaseline, RowsOf

LEMMA SettledStands ==
  ASSUME SettledRow, UNCHANGED <<rows, held, stepped, horizon>>
  PROVE  SettledRow'
BY DEF SettledRow, Settled, BaselineIs, RowsOf

(* A clock that is not set back leaves everything in order, and so does a  *)
(* writer that gives up.                                                   *)
LEMMA OrderStands ==
  ASSUME Shapes, ClockRuns, UNCHANGED <<rows, held, stepped>>,
         now' \in Nat, now <= now',
         \A k \in Keys : pc'[k] = "built" =>
           pc[k] = "built" /\ pending'[k] = pending[k] /\ pending[k].at \in Nat
  PROVE  ClockRuns'
<1> SUFFICES ASSUME ~stepped, NEW k \in Keys PROVE RowsInOrder(k)' /\ ReadingsInOrder(k)'
  BY DEF ClockRuns
<1>1. RowsInOrder(k) /\ ReadingsInOrder(k)
  BY DEF ClockRuns
<1>2. now \in Nat /\ \A r \in RowsOf(k) : r.at \in Nat
  BY RowFields DEF Shapes, TypeOK, RowsOf
<1>3. RowsOf(k)' = RowsOf(k)
  BY DEF RowsOf
<1>4. RowsInOrder(k)'
  BY <1>1, <1>2, <1>3 DEF RowsInOrder, LastOf
<1>5. \A i \in DOMAIN held[k] : held[k][i].from \in Nat
  BY ReadingFields
<1>6. ReadingsInOrder(k)'
  BY <1>1, <1>2, <1>5 DEF ReadingsInOrder, Begun
<1> QED
  BY <1>4, <1>6

----------------------------------------------------------------------------
(* The initial states: an empty table, or one row of an older build. *)

LEMMA RecordInit == Init => RecordInv
<1> SUFFICES ASSUME Init PROVE RecordInv
  OBVIOUS
<1>1. \A k \in Keys : held[k] = <<>> /\ Len(held[k]) = 0 /\ DOMAIN held[k] = {}
  BY DEF Init
<1>2. \A q, r \in rows : q = r /\ q.seq = 1 /\ q.at = 0 /\ q.format = 0 /\ q.key \in Keys
  BY DEF Init, Legacy
<1>3. nextSeq \in Nat /\ (rows # {} => nextSeq = 1)
  <2> nextSeq = Cardinality(rows)
    BY DEF Init
  <2>1. CASE rows = {}
    BY <2>1, FS_EmptySet
  <2>2. CASE rows # {}
    <3>1. PICK k \in Keys, objs \in Stripped \cup {None} : rows = {Legacy(k, objs)}
      BY <2>2 DEF Init
    <3>2. Cardinality(rows) = 1
      BY <3>1, FS_Singleton, Zenon
    <3> QED
      BY <3>2
  <2> QED
    BY <2>1, <2>2
<1>4. TypeOK
  <2>1. \A r \in rows :
          /\ r.key \in Keys /\ r.at \in 0 .. MaxTime /\ r.seq \in 1 .. nextSeq
          /\ r.format = SnapshotFormat => r.objects \in Stripped
    BY <1>2, <1>3, RecordBounds DEF SnapshotFormat
  <2> QED
    BY <1>2, <1>3, <2>1, RecordBounds DEF Init, TypeOK
<1>5. Shapes
  <2>1. held \in [Keys -> Seq(Held)]
    BY <1>1 DEF Init
  <2>2. rows \subseteq Row
    BY RecordBounds DEF Init, Legacy, Row
  <2> QED
    BY <1>4, <2>1, <2>2 DEF Init, Shapes
<1>6. NewestExists
  BY <1>2 DEF NewestExists, RowsOf
<1>7. WriterKnowsItsReading
  BY DEF Init, WriterKnowsItsReading
<1>8. NewestRowIsTheLastReadingKept /\ PruneKeepsABaseline /\ SettledRow
  BY <1>1 DEF NewestRowIsTheLastReadingKept, PruneKeepsABaseline, SettledRow
<1>9. ClockRuns
  <2>1. ASSUME NEW k \in Keys PROVE RowsInOrder(k)
    BY <1>2 DEF Init, RowsInOrder, RowsOf
  <2>2. ASSUME NEW k \in Keys PROVE ReadingsInOrder(k)
    <3>1. \A t \in 0 .. MaxTime : Begun(k, t) = 1 .. 0
      BY <1>1 DEF Begun
    <3>2. 0 \in 0 .. Len(held[k])
      BY <1>1
    <3> QED
      BY <1>1, <3>1, <3>2 DEF ReadingsInOrder
  <2> QED
    BY <2>1, <2>2 DEF ClockRuns
<1> QED
  BY <1>5, <1>6, <1>7, <1>8, <1>9 DEF RecordInv

----------------------------------------------------------------------------
(* The writer. *)

LEMMA LearnKeeps ==
  ASSUME RecordInv, NEW k \in Keys, NEW d \in Decls, Learn(k, d)
  PROVE  RecordInv'
<1> USE DEF RecordInv
<1>1. /\ pc[k] = "idle" /\ decl' = [decl EXCEPT ![k] = d]
      /\ UNCHANGED <<now, live, rows, nextSeq, pc, pending, held, stepped, horizon>>
  BY DEF Learn
<1>2. Shapes'
  BY <1>1 DEF Shapes, TypeOK
<1>3. WriterKnowsItsReading'
  BY <1>1 DEF Shapes, TypeOK, WriterKnowsItsReading, LastOf
<1>4. ClockRuns'
  BY <1>1 DEF ClockRuns, RowsInOrder, ReadingsInOrder, Begun, LastOf, RowsOf
<1> QED
  BY <1>1, <1>2, <1>3, <1>4, TableStands, SettledStands

LEMMA AppliedKeeps ==
  ASSUME RecordInv, NEW k \in Keys, NEW x \in Readings, Applied(k, x)
  PROVE  RecordInv'
<1> USE DEF RecordInv
<1> DEFINE e == [content |-> x, decl |-> decl[k], from |-> now, until |-> now,
                 kept |-> FALSE]
           n == Len(held[k])
<1>1. /\ pc[k] = "idle" /\ decl[k] # None
      /\ live' = [live EXCEPT ![k] = x]
      /\ held' = [held EXCEPT ![k] = Append(held[k], e)]
      /\ pc' = [pc EXCEPT ![k] = "applied"]
      /\ UNCHANGED <<now, decl, rows, nextSeq, pending, stepped, horizon>>
  BY DEF Applied, Shapes
<1>2. e \in Held
  BY <1>1 DEF Shapes, TypeOK, Held
<1>3. e.content = x /\ e.decl = decl[k] /\ e.from = now /\ e.kept = FALSE
  OBVIOUS
<1>4. /\ held[k] \in Seq(Held) /\ n \in Nat /\ DOMAIN held[k] = 1 .. n
      /\ \A i \in DOMAIN held[k] : held[k][i].from \in Nat
  BY ReadingFields
<1> HIDE DEF e
<1>5. /\ held'[k] \in Seq(Held) /\ Len(held'[k]) = n + 1
      /\ DOMAIN held'[k] = 1 .. (n + 1)
      /\ held'[k][n + 1] = e
      /\ \A i \in DOMAIN held[k] : i \in DOMAIN held'[k] /\ held'[k][i] = held[k][i]
      /\ \A i \in DOMAIN held'[k] : i = n + 1 \/ i \in DOMAIN held[k]
  <2>1. held'[k] = Append(held[k], e)
    BY <1>1 DEF Shapes
  <2>2. /\ held'[k] \in Seq(Held) /\ Len(held'[k]) = n + 1
        /\ held'[k][n + 1] = e
        /\ \A i \in 1 .. n : held'[k][i] = held[k][i]
    BY <1>2, <1>4, <2>1
  <2>3. DOMAIN held'[k] = 1 .. (n + 1)
    BY <2>2
  <2> QED
    BY <1>4, <2>2, <2>3
<1>6. \A j \in Keys : j # k => held'[j] = held[j] /\ pc'[j] = pc[j] /\ live'[j] = live[j]
  BY <1>1 DEF Shapes, TypeOK
<1>7. pc'[k] = "applied" /\ live'[k] = x
  BY <1>1 DEF Shapes, TypeOK
<1>8. Shapes'
  <2>1. held' \in [Keys -> Seq(Held)]
    BY <1>1, <1>5 DEF Shapes
  <2>2. live' \in [Keys -> Readings \cup {NoObjects}]
    BY <1>1 DEF Shapes
  <2> QED
    BY <1>1, <2>1, <2>2 DEF Shapes, TypeOK
<1>9. NewestExists'
  BY <1>1 DEF NewestExists, RowsOf
<1>10. WriterKnowsItsReading'
  <2>1. LastOf(k)' = e
    BY <1>5 DEF LastOf
  <2>2. Len(held'[k]) # 0
    BY <1>4, <1>5
  <2>3. \A j \in Keys : j # k => LastOf(j)' = LastOf(j)
    BY <1>6 DEF LastOf
  <2> QED
    BY <1>1, <1>3, <1>6, <1>7, <2>1, <2>2, <2>3 DEF WriterKnowsItsReading
<1>11. NewestRowIsTheLastReadingKept'
  <2>1. ~held'[k][Len(held'[k])].kept
    BY <1>3, <1>5
  <2>2. \A j \in Keys : RowsOf(j)' = RowsOf(j)
    BY <1>1 DEF RowsOf
  <2> QED
    BY <1>6, <2>1, <2>2 DEF NewestRowIsTheLastReadingKept
<1>12. PruneKeepsABaseline'
  <2>1. \A j \in Keys : \A i \in DOMAIN held'[j] :
          held'[j][i].kept => i \in DOMAIN held[j] /\ held[j][i].kept
    BY <1>3, <1>4, <1>5, <1>6
  <2>2. \A j \in Keys : RowsOf(j)' = RowsOf(j)
    BY <1>1 DEF RowsOf
  <2> QED
    BY <2>1, <2>2 DEF PruneKeepsABaseline
<1>13. ClockRuns'
  <2>1. SUFFICES ASSUME ~stepped, NEW j \in Keys
                 PROVE  RowsInOrder(j)' /\ ReadingsInOrder(j)'
    BY <1>1 DEF ClockRuns
  <2>2. RowsInOrder(j) /\ ReadingsInOrder(j)
    BY <2>1 DEF ClockRuns
  <2>3. RowsInOrder(j)'
    BY <1>1, <1>6, <1>7, <2>2 DEF RowsInOrder, RowsOf, LastOf
  <2>4. CASE j # k
    <3>1. held'[j] = held[j]
      BY <1>6, <2>4
    <3>2. ReadingsInOrder(j)'
      BY <1>1, <2>2, <3>1 DEF ReadingsInOrder, Begun
    <3> QED
      BY <2>3, <3>2
  <2>5. CASE j = k
    <3>1. now \in Nat
      BY RecordBounds DEF Shapes, TypeOK
    <3>2. \A i \in DOMAIN held'[k] : held'[k][i].from <= now
      BY <1>3, <1>4, <1>5, <2>2, <2>5, <3>1 DEF ReadingsInOrder
    <3>3. ASSUME NEW t \in 0 .. MaxTime PROVE \E m \in 0 .. (n + 1) : Begun(k, t)' = 1 .. m
      <4>1. CASE now <= t
        <5>1. \A i \in DOMAIN held'[k] : held'[k][i].from <= t
          <6>1. \A i \in DOMAIN held'[k] : held'[k][i].from \in Nat
            <7>1. e.from \in Nat
              BY <1>3, <3>1
            <7> QED
              BY <1>4, <1>5, <7>1
          <6> QED
            BY <3>1, <3>2, <4>1, <6>1, RecordBounds
        <5>2. Begun(k, t)' = 1 .. (n + 1)
          BY <1>5, <5>1 DEF Begun
        <5> QED
          BY <1>4, <5>2
      <4>2. CASE ~(now <= t)
        <5>1. Begun(k, t)' = Begun(k, t)
          <6>1. ~(e.from <= t)
            BY <1>3, <4>2
          <6> QED
            BY <1>5, <6>1 DEF Begun
        <5>2. PICK m \in 0 .. n : Begun(k, t) = 1 .. m
          BY <2>2, <2>5 DEF ReadingsInOrder
        <5> QED
          BY <1>4, <5>1, <5>2
      <4> QED
        BY <4>1, <4>2
    <3>4. ReadingsInOrder(k)'
      BY <1>1, <1>5, <3>2, <3>3 DEF ReadingsInOrder
    <3> QED
      BY <2>3, <2>5, <3>4
  <2> QED
    BY <2>4, <2>5
<1>14. SettledRow'
  <2>1. SUFFICES ASSUME ~stepped, NEW j \in Keys, NEW t \in 0 .. MaxTime,
                        NEW i \in DOMAIN held'[j], Settled(j, i, t)'
                 PROVE  BaselineIs(j, t, SnapshotOf(held[j][i]))'
    BY <1>1 DEF SettledRow
  <2>2. /\ i \in DOMAIN held[j] /\ held'[j][i] = held[j][i]
    <3>1. held'[j][i].kept
      BY <2>1 DEF Settled
    <3>2. CASE j = k
      BY <1>3, <1>5, <2>1, <3>1, <3>2
    <3>3. CASE j # k
      BY <1>6, <2>1, <3>3
    <3> QED
      BY <3>2, <3>3
  <2>3. \A m \in DOMAIN held[j] : m \in DOMAIN held'[j] /\ held'[j][m] = held[j][m]
    BY <1>4, <1>5, <1>6
  <2>4. Settled(j, i, t)
    BY <2>1, <2>2, <2>3 DEF Settled
  <2>5. BaselineIs(j, t, SnapshotOf(held[j][i]))
    BY <2>1, <2>2, <2>4 DEF SettledRow
  <2>6. SnapshotOf(held[j][i])' = SnapshotOf(held[j][i])
    BY <2>2 DEF SnapshotOf
  <2> QED
    BY <1>1, <2>5, <2>6 DEF BaselineIs, RowsOf
<1> QED
  BY <1>8, <1>9, <1>10, <1>11, <1>12, <1>13, <1>14

LEMMA SnapshotForKeeps ==
  ASSUME RecordInv, NEW k \in Keys, SnapshotFor(k)
  PROVE  RecordInv'
<1> USE DEF RecordInv
<1> DEFINE p == [at |-> now, objects |-> Diffable(live[k], Measures[decl[k]])]
<1>1. /\ pc[k] = "applied" /\ pending' = [pending EXCEPT ![k] = p]
      /\ pc' = [pc EXCEPT ![k] = "built"]
      /\ UNCHANGED <<now, decl, live, rows, nextSeq, held, stepped, horizon>>
  BY DEF SnapshotFor
<1>2. p.at = now /\ p.objects = Diffable(live[k], Measures[decl[k]])
  OBVIOUS
<1> HIDE DEF p
<1>3. /\ pending'[k] = p /\ pc'[k] = "built"
      /\ \A j \in Keys : j # k => pending'[j] = pending[j] /\ pc'[j] = pc[j]
  BY <1>1 DEF Shapes, TypeOK
<1>4. Shapes'
  BY <1>1 DEF Shapes, TypeOK
<1>5. now \in 0 .. MaxTime /\ \A j \in Keys : LastOf(j)' = LastOf(j)
  BY <1>1 DEF Shapes, TypeOK, LastOf
<1>6. WriterKnowsItsReading'
  BY <1>1, <1>2, <1>3, <1>5 DEF WriterKnowsItsReading, SnapshotOf
<1>7. ClockRuns'
  <2>1. SUFFICES ASSUME ~stepped, NEW j \in Keys
                 PROVE  RowsInOrder(j)' /\ ReadingsInOrder(j)'
    BY <1>1 DEF ClockRuns
  <2>2. RowsInOrder(j) /\ ReadingsInOrder(j)
    BY <2>1 DEF ClockRuns
  <2>3. ReadingsInOrder(j)'
    BY <1>1, <2>2 DEF ReadingsInOrder, Begun
  <2>4. RowsOf(j)' = RowsOf(j)
    BY <1>1 DEF RowsOf
  <2>5. j = k => LastOf(k).from <= now
    BY <1>1, <2>2, ReadingFields
    DEF WriterKnowsItsReading, ReadingsInOrder, LastOf
  <2>6. RowsInOrder(j)'
    BY <1>1, <1>2, <1>3, <1>5, <2>2, <2>4, <2>5 DEF RowsInOrder
  <2> QED
    BY <2>3, <2>6
<1> QED
  BY <1>1, <1>4, <1>6, <1>7, TableStands, SettledStands

(* A failure to record, and a crash: what was under way is forgotten. *)
LEMMA GivingUpKeeps ==
  ASSUME RecordInv, Crash \/ \E k \in Keys : RecordFails(k)
  PROVE  RecordInv'
<1> USE DEF RecordInv
<1>1. /\ UNCHANGED <<now, decl, live, rows, nextSeq, held, stepped, horizon>>
      /\ pc' \in [Keys -> {"idle", "applied", "built"}]
      /\ DOMAIN pending' = Keys
      /\ \A j \in Keys : pc'[j] = "idle" \/ (pc'[j] = pc[j] /\ pending'[j] = pending[j])
  <2>1. CASE Crash
    BY <2>1 DEF Crash
  <2>2. ASSUME NEW k \in Keys, RecordFails(k)
        PROVE  /\ UNCHANGED <<now, decl, live, rows, nextSeq, held, stepped, horizon>>
               /\ pc' \in [Keys -> {"idle", "applied", "built"}]
               /\ DOMAIN pending' = Keys
               /\ \A j \in Keys :
                    pc'[j] = "idle" \/ (pc'[j] = pc[j] /\ pending'[j] = pending[j])
    BY <2>2 DEF RecordFails, Shapes, TypeOK
  <2> QED
    BY <2>1, <2>2
<1>2. Shapes'
  BY <1>1 DEF Shapes, TypeOK
<1>3. \A j \in Keys : LastOf(j)' = LastOf(j)
  BY <1>1 DEF LastOf
<1>4. WriterKnowsItsReading'
  BY <1>1, <1>3 DEF WriterKnowsItsReading
<1>5. ClockRuns'
  <2>1. now' \in Nat /\ now <= now'
    BY <1>1, RecordBounds DEF Shapes, TypeOK
  <2>2. \A j \in Keys : pc'[j] = "built" =>
          pc[j] = "built" /\ pending'[j] = pending[j] /\ pending[j].at \in Nat
    BY <1>1, RecordBounds DEF WriterKnowsItsReading
  <2> QED
    BY <1>1, <2>1, <2>2, OrderStands
<1> QED
  BY <1>1, <1>2, <1>4, <1>5, TableStands, SettledStands

(* The clock runs on, or is set back and dates nothing any more. *)
LEMMA ClockKeeps ==
  ASSUME RecordInv, Tick \/ StepBack
  PROVE  RecordInv'
<1> USE DEF RecordInv
<1>1. /\ UNCHANGED <<decl, live, rows, nextSeq, pc, pending, held, horizon>>
      /\ now' \in 0 .. MaxTime
      /\ stepped' \/ (stepped' = stepped /\ now' = now + 1)
  BY RecordBounds DEF Tick, StepBack, Shapes, TypeOK
<1>2. Shapes'
  BY <1>1 DEF Shapes, TypeOK
<1>3. WriterKnowsItsReading'
  BY <1>1 DEF WriterKnowsItsReading, LastOf
<1>4. ClockRuns'
  <2>1. CASE stepped'
    BY <2>1 DEF ClockRuns
  <2>2. CASE ~stepped'
    <3>1. now' \in Nat /\ now <= now' /\ stepped' = stepped
      BY <1>1, <2>2, RecordBounds DEF Shapes, TypeOK
    <3>2. \A j \in Keys : pc'[j] = "built" =>
            pc[j] = "built" /\ pending'[j] = pending[j] /\ pending[j].at \in Nat
      BY <1>1, RecordBounds DEF WriterKnowsItsReading
    <3> QED
      BY <1>1, <3>1, <3>2, OrderStands
  <2> QED
    BY <2>1, <2>2
<1>5. SettledRow'
  <2>1. CASE stepped'
    BY <2>1 DEF SettledRow
  <2>2. CASE ~stepped'
    BY <1>1, <2>2, SettledStands
  <2> QED
    BY <2>1, <2>2
<1> QED
  BY <1>1, <1>2, <1>3, <1>4, <1>5, TableStands

(* What RecordSnapshot does to the table: no other key's rows change, and  *)
(* the newest row of its own, inserted now or there before, is the         *)
(* reading's.                                                              *)
LEMMA RowsAfterRecord ==
  ASSUME RecordInv, NEW k \in Keys, RecordSnapshot(k)
  PROVE  /\ nextSeq' \in Nat /\ rows' \subseteq Row
         /\ \A r \in rows' :
              /\ r.key \in Keys /\ r.at \in 0 .. MaxTime /\ r.seq \in 1 .. nextSeq'
              /\ r.format = SnapshotFormat => r.objects \in Stripped
         /\ \A q, r \in rows' : q.seq = r.seq => q = r
         /\ \A j \in Keys : j # k => RowsOf(j)' = RowsOf(j)
         /\ RowsOf(k) \subseteq RowsOf(k)'
         /\ \A r \in RowsOf(k)' \ RowsOf(k) :
              r.at = pending[k].at /\ \A q \in RowsOf(k) : ~(r.seq <= q.seq)
         /\ \E r \in RowsOf(k)' :
              /\ r.objects = SnapshotOf(LastOf(k))
              /\ \A q \in RowsOf(k)' : q.seq <= r.seq
<1> USE DEF RecordInv
<1>1. pc[k] = "built"
  BY DEF RecordSnapshot
<1>2. /\ pending[k].objects = SnapshotOf(LastOf(k)) /\ pending[k].at \in 0 .. MaxTime
      /\ Len(held[k]) # 0
  BY <1>1 DEF WriterKnowsItsReading
<1>3. SnapshotOf(LastOf(k)) \in Stripped
  <2>1. LastOf(k).content \in Readings /\ LastOf(k).decl \in Decls
    BY <1>2, ReadingFields DEF LastOf
  <2> QED
    BY <2>1 DEF SnapshotOf, Stripped
<1>4. CASE UnchangedSinceNewest(k) /\ UNCHANGED <<rows, nextSeq>>
  <2>1. /\ Newest(RowsOf(k)) \in RowsOf(k)
        /\ \A q \in RowsOf(k) : q.seq <= Newest(RowsOf(k)).seq
    BY <1>4, NewestOfKey DEF UnchangedSinceNewest
  <2>2. Newest(RowsOf(k)).objects = SnapshotOf(LastOf(k))
    BY <1>2, <1>4 DEF UnchangedSinceNewest, SameDigest
  <2>3. \A j \in Keys : RowsOf(j)' = RowsOf(j)
    BY <1>4 DEF RowsOf
  <2>4. /\ \E r \in RowsOf(k)' :
              /\ r.objects = SnapshotOf(LastOf(k))
              /\ \A q \in RowsOf(k)' : q.seq <= r.seq
    BY <2>1, <2>2, <2>3
  <2> QED
    BY <1>4, <2>3, <2>4 DEF Shapes, TypeOK
<1>5. CASE Insert(k)
  <2> DEFINE x == [seq |-> nextSeq + 1, key |-> k, at |-> pending[k].at,
                   objects |-> pending[k].objects, format |-> SnapshotFormat]
  <2>1. rows' = rows \cup {x} /\ nextSeq' = nextSeq + 1
    BY <1>5 DEF Insert
  <2>2. /\ x.seq = nextSeq + 1 /\ x.key = k /\ x.at = pending[k].at
        /\ x.objects = SnapshotOf(LastOf(k))
    BY <1>2
  <2> HIDE DEF x
  <2>3. nextSeq \in Nat /\ \A r \in rows : r.seq \in Nat /\ r.seq <= nextSeq /\ r.seq # 0
    BY DEF Shapes, TypeOK
  <2>4. \A r \in rows' :
          /\ r.key \in Keys /\ r.at \in 0 .. MaxTime /\ r.seq \in 1 .. nextSeq'
          /\ r.format = SnapshotFormat => r.objects \in Stripped
    BY <1>2, <1>3, <2>1, <2>2, <2>3 DEF Shapes, TypeOK
  <2>5. \A q, r \in rows' : q.seq = r.seq => q = r
    BY <2>1, <2>2, <2>3 DEF Shapes, TypeOK
  <2>6. /\ RowsOf(k)' = RowsOf(k) \cup {x}
        /\ \A j \in Keys : j # k => RowsOf(j)' = RowsOf(j)
    BY <2>1, <2>2 DEF RowsOf
  <2>7. \A q \in RowsOf(k) : q.seq <= x.seq /\ ~(x.seq <= q.seq)
    BY <2>2, <2>3 DEF RowsOf
  <2>8. x.seq <= x.seq
    BY <2>2, <2>3
  <2>9. nextSeq' \in Nat /\ rows' \subseteq Row
    <3>1. x \in Row
      BY <1>2, <1>3, <2>3 DEF x, Row
    <3> QED
      BY <2>1, <2>3, <3>1 DEF Shapes
  <2>10. \E r \in RowsOf(k)' :
           /\ r.objects = SnapshotOf(LastOf(k))
           /\ \A q \in RowsOf(k)' : q.seq <= r.seq
    BY <2>2, <2>6, <2>7, <2>8
  <2> QED
    BY <2>2, <2>4, <2>5, <2>6, <2>7, <2>9, <2>10
<1> QED
  BY <1>4, <1>5 DEF RecordSnapshot

LEMMA RecordSnapshotKeeps ==
  ASSUME RecordInv, NEW k \in Keys, RecordSnapshot(k)
  PROVE  RecordInv'
<1> USE DEF RecordInv
<1> DEFINE n == Len(held[k])
           e == [held[k][n] EXCEPT !.kept = TRUE, !.until = now]
<1>1. /\ pc[k] = "built"
      /\ held' = [held EXCEPT ![k] = [held[k] EXCEPT ![n] = e]]
      /\ pending' = [pending EXCEPT ![k] = None]
      /\ pc' = [pc EXCEPT ![k] = "idle"]
      /\ UNCHANGED <<now, decl, live, stepped, horizon>>
  <2>1. held' = [held EXCEPT ![k][Len(held[k])] = [@ EXCEPT !.kept = TRUE, !.until = now]]
    BY DEF RecordSnapshot
  <2>2. held' = [held EXCEPT ![k] = [held[k] EXCEPT ![n] = e]]
    BY <2>1, Zenon DEF Shapes
  <2> QED
    BY <2>2 DEF RecordSnapshot
<1>2. /\ n # 0 /\ LastOf(k) = held[k][n]
      /\ held[k] \in Seq(Held) /\ n \in Nat /\ DOMAIN held[k] = 1 .. n
      /\ \A i \in DOMAIN held[k] : held[k][i] \in Held /\ held[k][i].from \in Nat
  BY <1>1, ReadingFields DEF WriterKnowsItsReading, LastOf
<1>3. held[k][n] \in Held /\ n \in DOMAIN held[k]
  BY <1>2
<1>4. /\ e \in Held /\ e.kept = TRUE /\ e.until = now
      /\ e.content = held[k][n].content /\ e.decl = held[k][n].decl
      /\ e.from = held[k][n].from
  BY <1>3 DEF Held, Shapes, TypeOK
<1> HIDE DEF e
<1>5. /\ held'[k] = [held[k] EXCEPT ![n] = e]
      /\ \A j \in Keys : j # k => held'[j] = held[j]
  BY <1>1 DEF Shapes
<1>6. held'[k] \in Seq(Held) /\ Len(held'[k]) = n /\ DOMAIN held'[k] = DOMAIN held[k]
  <2>1. held'[k] = [i \in 1 .. n |-> IF i = n THEN e ELSE held[k][i]]
    BY <1>2, <1>5
  <2>2. held'[k] \in Seq(Held) /\ Len(held'[k]) = n
    BY <1>2, <1>4, <2>1
  <2>3. DOMAIN held'[k] = 1 .. n
    BY <2>1
  <2> QED
    BY <1>2, <2>2, <2>3
<1>7. held'[k][n] = e /\ \A i \in DOMAIN held[k] : i # n => held'[k][i] = held[k][i]
  BY <1>3, <1>5
<1>8. \A j \in Keys : DOMAIN held'[j] = DOMAIN held[j]
  BY <1>5, <1>6
<1>9. \A j \in Keys : \A i \in DOMAIN held[j] :
        /\ held'[j][i].from = held[j][i].from
        /\ SnapshotOf(held[j][i])' = SnapshotOf(held[j][i])
        /\ j # k \/ i # n => held'[j][i] = held[j][i]
  BY <1>2, <1>4, <1>5, <1>7 DEF SnapshotOf
<1>10. /\ pc'[k] = "idle"
       /\ \A j \in Keys : j # k => pc'[j] = pc[j] /\ pending'[j] = pending[j]
  BY <1>1 DEF Shapes, TypeOK
<1>11. Shapes'
  <2>1. held' \in [Keys -> Seq(Held)]
    BY <1>1, <1>5, <1>6 DEF Shapes
  <2>2. TypeOK'
    BY <1>1, RowsAfterRecord DEF Shapes, TypeOK
  <2> QED
    BY <1>1, <2>1, <2>2, RowsAfterRecord DEF Shapes
<1>12. NewestExists'
  <2>1. \A j \in Keys : j # k => RowsOf(j)' = RowsOf(j)
    BY RowsAfterRecord
  <2>2. \E r \in RowsOf(k)' : \A q \in RowsOf(k)' : q.seq <= r.seq
    BY RowsAfterRecord
  <2> QED
    BY <2>1, <2>2 DEF NewestExists
<1>13. WriterKnowsItsReading'
  <2>1. \A j \in Keys : j # k => LastOf(j)' = LastOf(j)
    BY <1>5 DEF LastOf
  <2> QED
    BY <1>1, <1>5, <1>10, <2>1 DEF WriterKnowsItsReading
<1>14. PICK top \in RowsOf(k)' :
         /\ top.objects = SnapshotOf(held[k][n])
         /\ \A q \in RowsOf(k)' : q.seq <= top.seq
  BY <1>2, RowsAfterRecord
<1>15. NewestRowIsTheLastReadingKept'
  <2>1. Newest(RowsOf(k)') = top
    <3>1. \A q \in RowsOf(k)' : q.seq \in Nat /\ q.seq <= top.seq
      BY <1>14, RowsAfterRecord DEF RowsOf
    <3>2. \A q, r \in RowsOf(k)' : q.seq = r.seq => q = r
      BY RowsAfterRecord DEF RowsOf
    <3> QED
      BY <1>14, <3>1, <3>2, NewestIs
  <2>2. /\ RowsOf(k)' # {}
        /\ Newest(RowsOf(k)').objects
             = Diffable(held'[k][n].content, Measures[held'[k][n].decl])
    BY <1>4, <1>7, <1>14, <2>1 DEF SnapshotOf
  <2>3. \A j \in Keys : j # k => RowsOf(j)' = RowsOf(j)
    BY RowsAfterRecord
  <2>4. ASSUME NEW j \in Keys, j # k,
               Len(held'[j]) # 0, held'[j][Len(held'[j])].kept
        PROVE  /\ RowsOf(j)' # {}
               /\ Newest(RowsOf(j)').objects
                    = Diffable(held'[j][Len(held'[j])].content,
                               Measures[held'[j][Len(held'[j])].decl])
    BY <1>5, <2>3, <2>4 DEF NewestRowIsTheLastReadingKept
  <2> QED
    BY <1>6, <2>2, <2>4 DEF NewestRowIsTheLastReadingKept
<1>16. PruneKeepsABaseline'
  <2>1. RowsOf(k)' # {} /\ \A j \in Keys : j # k => RowsOf(j)' = RowsOf(j)
    BY <1>14, RowsAfterRecord
  <2> QED
    BY <1>5, <2>1 DEF PruneKeepsABaseline
<1>17. ClockRuns'
  <2>1. SUFFICES ASSUME ~stepped, NEW j \in Keys
                 PROVE  RowsInOrder(j)' /\ ReadingsInOrder(j)'
    BY <1>1 DEF ClockRuns
  <2>2. RowsInOrder(j) /\ ReadingsInOrder(j)
    BY <2>1 DEF ClockRuns
  <2>3. ReadingsInOrder(j)'
    <3>1. \A t : Begun(j, t)' = Begun(j, t)
      BY <1>8, <1>9 DEF Begun
    <3>2. Len(held'[j]) = Len(held[j])
      BY <1>5, <1>6
    <3> QED
      BY <1>1, <1>8, <1>9, <2>2, <3>1, <3>2 DEF ReadingsInOrder
  <2>4. CASE j # k
    <3>1. RowsOf(j)' = RowsOf(j)
      BY <2>4, RowsAfterRecord
    <3>2. LastOf(j)' = LastOf(j) /\ pc'[j] = pc[j] /\ pending'[j] = pending[j]
      BY <1>5, <1>10, <2>4 DEF LastOf
    <3>3. RowsInOrder(j)'
      BY <1>1, <2>2, <3>1, <3>2 DEF RowsInOrder
    <3> QED
      BY <2>3, <3>3
  <2>5. CASE j = k
    <3>1. /\ pending[k].at <= now /\ pending[k].at \in Nat
          /\ \A r \in RowsOf(k) : r.at <= now /\ r.at <= pending[k].at
          /\ \A q, r \in RowsOf(k) : q.seq <= r.seq => q.at <= r.at
      BY <1>1, <2>2, <2>5, RecordBounds DEF RowsInOrder, WriterKnowsItsReading
    <3>2. \A r \in RowsOf(k)' \ RowsOf(k) :
            r.at = pending[k].at /\ \A q \in RowsOf(k) : ~(r.seq <= q.seq)
      BY RowsAfterRecord
    <3>3. \A r \in RowsOf(k)' : r.at <= now
      BY <3>1, <3>2
    <3>4. \A q, r \in RowsOf(k)' : q.seq <= r.seq => q.at <= r.at
      BY <3>1, <3>2
    <3>5. RowsInOrder(k)'
      BY <1>1, <1>10, <3>3, <3>4 DEF RowsInOrder
    <3> QED
      BY <2>3, <2>5, <3>5
  <2> QED
    BY <2>4, <2>5
<1>18. SettledRow'
  <2>1. SUFFICES ASSUME ~stepped, NEW j \in Keys, NEW t \in 0 .. MaxTime,
                        NEW i \in DOMAIN held'[j], Settled(j, i, t)'
                 PROVE  BaselineIs(j, t, SnapshotOf(held[j][i]))'
    BY <1>1 DEF SettledRow
  <2>2. i \in DOMAIN held[j] /\ SnapshotOf(held[j][i])' = SnapshotOf(held[j][i])
    BY <1>8, <1>9, <2>1
  <2>3. RowsInOrder(k) /\ ReadingsInOrder(k)
    BY <2>1 DEF ClockRuns
  <2>4. t \in Nat /\ now \in Nat /\ pending[k].at \in Nat
    BY <1>1, RecordBounds DEF Shapes, TypeOK, WriterKnowsItsReading
  <2>5. CASE j = k /\ i = n
    <3>1. now <= t
      BY <1>4, <1>7, <2>1, <2>5 DEF Settled
    <3>2. \A r \in RowsOf(k)' : r.at <= now /\ r.at \in Nat
      BY <1>1, <2>3, <2>4, RowsAfterRecord DEF RowsInOrder, RowsOf
    <3>3. top.at <= t
      BY <1>14, <2>4, <3>1, <3>2
    <3>4. top.objects = SnapshotOf(held[j][i])'
      BY <1>14, <2>2, <2>5
    <3> QED
      BY <1>14, <2>5, <3>3, <3>4 DEF BaselineIs
  <2>6. CASE ~(j = k /\ i = n)
    <3>1. held'[j][i] = held[j][i]
      BY <1>9, <2>2, <2>6
    <3>2. Settled(j, i, t)
      BY <1>8, <1>9, <2>1, <3>1 DEF Settled
    <3>3. BaselineIs(j, t, SnapshotOf(held[j][i]))
      BY <2>1, <2>2, <3>2 DEF SettledRow
    <3>4. {r \in RowsOf(j)' : r.at <= t} = {r \in RowsOf(j) : r.at <= t}
      <4>1. CASE j # k
        BY <4>1, RowsAfterRecord
      <4>2. CASE j = k
        <5>1. i \in 1 .. n /\ i # n
          BY <1>2, <2>2, <2>6, <4>2
        <5>2. n > i
          BY <1>2, <5>1
        <5>3. held[k][n].from > t
          BY <1>3, <3>2, <4>2, <5>2 DEF Settled
        <5>4. held[k][n].from <= pending[k].at /\ held[k][n].from \in Nat
          BY <1>1, <1>2, <1>3, <2>3 DEF RowsInOrder
        <5>5. ~(pending[k].at <= t)
          BY <2>4, <5>3, <5>4
        <5>6. RowsOf(k) \subseteq RowsOf(k)'
          BY RowsAfterRecord
        <5>7. \A r \in RowsOf(k)' \ RowsOf(k) : r.at = pending[k].at
          BY RowsAfterRecord
        <5> QED
          BY <4>2, <5>5, <5>6, <5>7
      <4> QED
        BY <4>1, <4>2
    <3>5. \A r \in RowsOf(j)' : r.at \in Nat
      BY RecordBounds, RowsAfterRecord DEF RowsOf
    <3>6. \A r \in RowsOf(j) : r.at \in Nat
      BY RowFields DEF RowsOf
    <3>7. CASE horizon # 0 /\ \A r \in RowsOf(j) : r.at > t
      <4>1. \A r \in RowsOf(j)' : r.at > t
        BY <2>4, <3>4, <3>5, <3>6, <3>7
      <4> QED
        BY <1>1, <3>7, <4>1 DEF BaselineIs
    <3>8. CASE \E r \in RowsOf(j) :
                 /\ r.at <= t /\ r.objects = SnapshotOf(held[j][i])
                 /\ \A q \in RowsOf(j) : q.at <= t => q.seq <= r.seq
      <4>1. \E r \in RowsOf(j)' :
              /\ r.at <= t /\ r.objects = SnapshotOf(held[j][i])'
              /\ \A q \in RowsOf(j)' : q.at <= t => q.seq <= r.seq
        BY <2>2, <3>4, <3>8
      <4> QED
        BY <4>1 DEF BaselineIs
    <3> QED
      BY <3>3, <3>7, <3>8 DEF BaselineIs
  <2> QED
    BY <2>5, <2>6
<1> QED
  BY <1>11, <1>12, <1>13, <1>15, <1>16, <1>17, <1>18

----------------------------------------------------------------------------
(* Pruning. *)

(* A prune takes from the old end: the newest row of every key survives,   *)
(* and with a row that goes, all before it go.                             *)
LEMMA RowsAfterPrune ==
  ASSUME RecordInv, NEW before \in 1 .. now, PruneSnapshots(before), NEW k \in Keys
  PROVE  /\ RowsOf(k)' \subseteq RowsOf(k)
         /\ RowsOf(k) # {} => Newest(RowsOf(k)) \in RowsOf(k)'
                              /\ Newest(RowsOf(k)') = Newest(RowsOf(k))
         /\ \A r \in RowsOf(k) \ RowsOf(k)' :
              r.at < before /\ ~(Newest(RowsOf(k)).seq <= r.seq)
<1> USE DEF RecordInv
<1>1. rows' = {r \in rows : r.at >= before \/ r = Newest(RowsOf(r.key))}
  BY DEF PruneSnapshots
<1>2. RowsOf(k)' = {r \in RowsOf(k) : r.at >= before \/ r = Newest(RowsOf(k))}
  BY <1>1 DEF RowsOf
<1>3. /\ \A r \in RowsOf(k) : r.at \in Nat /\ r.seq \in Nat
      /\ \A q, r \in RowsOf(k) : q.seq = r.seq => q = r
      /\ before \in Nat
  BY RowFields, RecordBounds DEF RowsOf, Shapes, TypeOK
<1>4. ASSUME RowsOf(k) # {}
      PROVE  /\ Newest(RowsOf(k)) \in RowsOf(k)'
             /\ Newest(RowsOf(k)') = Newest(RowsOf(k))
  <2>1. /\ Newest(RowsOf(k)) \in RowsOf(k)
        /\ \A q \in RowsOf(k) : q.seq <= Newest(RowsOf(k)).seq
    BY <1>4, NewestOfKey
  <2> DEFINE top == Newest(RowsOf(k))
             S == RowsOf(k)'
  <2>2. top \in S
    BY <1>2, <2>1
  <2>3. /\ \A q \in S : q.seq \in Nat /\ q.seq <= top.seq
        /\ \A q, x \in S : q.seq = x.seq => q = x
    BY <1>2, <1>3, <2>1
  <2> HIDE DEF top, S
  <2>4. Newest(S) = top
    BY <2>2, <2>3, NewestIs
  <2> QED
    BY <2>2, <2>4 DEF top, S
<1>5. ASSUME NEW r \in RowsOf(k), r \notin RowsOf(k)'
      PROVE  r.at < before /\ ~(Newest(RowsOf(k)).seq <= r.seq)
  <2>1. ~(r.at >= before) /\ r # Newest(RowsOf(k))
    BY <1>2, <1>5
  <2>2. /\ Newest(RowsOf(k)) \in RowsOf(k)
        /\ \A q \in RowsOf(k) : q.seq <= Newest(RowsOf(k)).seq
    BY <1>5, NewestOfKey
  <2>3. Newest(RowsOf(k)).seq # r.seq
    BY <1>3, <2>1, <2>2
  <2> QED
    BY <1>3, <2>1, <2>2, <2>3
<1> QED
  BY <1>2, <1>4, <1>5

LEMMA PruneKeeps ==
  ASSUME RecordInv, NEW before \in 1 .. now, PruneSnapshots(before)
  PROVE  RecordInv'
<1> USE DEF RecordInv
<1>1. /\ rows' \subseteq rows
      /\ horizon' = IF before > horizon THEN before ELSE horizon
      /\ UNCHANGED <<now, decl, live, nextSeq, pc, pending, held, stepped>>
  BY DEF PruneSnapshots
<1>2. before \in Nat /\ before # 0 /\ horizon \in Nat
  BY RecordBounds DEF Shapes, TypeOK
<1>3. horizon' \in Nat /\ horizon' # 0
  BY <1>1, <1>2
<1>4. Shapes'
  BY <1>1, <1>3 DEF Shapes, TypeOK
<1>5. NewestExists'
  <2>1. ASSUME NEW k \in Keys, RowsOf(k)' # {}
        PROVE  \E r \in RowsOf(k)' : \A q \in RowsOf(k)' : q.seq <= r.seq
    <3>1. RowsOf(k)' \subseteq RowsOf(k) /\ RowsOf(k) # {}
      BY <2>1, RowsAfterPrune
    <3>2. \A q \in RowsOf(k) : q.seq <= Newest(RowsOf(k)).seq
      BY <3>1, NewestOfKey
    <3>3. Newest(RowsOf(k)) \in RowsOf(k)'
      BY <3>1, RowsAfterPrune
    <3> QED
      BY <3>1, <3>2, <3>3
  <2> QED
    BY <2>1 DEF NewestExists
<1>6. WriterKnowsItsReading'
  BY <1>1 DEF WriterKnowsItsReading, LastOf
<1>7. NewestRowIsTheLastReadingKept'
  <2>1. ASSUME NEW k \in Keys, Len(held[k]) # 0, held[k][Len(held[k])].kept
        PROVE  /\ RowsOf(k)' # {}
               /\ Newest(RowsOf(k)').objects
                    = Diffable(held[k][Len(held[k])].content,
                               Measures[held[k][Len(held[k])].decl])
    <3>1. /\ RowsOf(k) # {}
          /\ Newest(RowsOf(k)).objects
               = Diffable(held[k][Len(held[k])].content,
                          Measures[held[k][Len(held[k])].decl])
      BY <2>1 DEF NewestRowIsTheLastReadingKept
    <3>2. RowsOf(k)' # {} /\ Newest(RowsOf(k)') = Newest(RowsOf(k))
      BY <3>1, RowsAfterPrune
    <3> QED
      BY <3>1, <3>2
  <2> QED
    BY <1>1, <2>1 DEF NewestRowIsTheLastReadingKept
<1>8. PruneKeepsABaseline'
  BY <1>1, RowsAfterPrune DEF PruneKeepsABaseline
<1>9. ClockRuns'
  <2>1. SUFFICES ASSUME ~stepped, NEW k \in Keys
                 PROVE  RowsInOrder(k)' /\ ReadingsInOrder(k)'
    BY <1>1 DEF ClockRuns
  <2>2. RowsInOrder(k) /\ ReadingsInOrder(k)
    BY <2>1 DEF ClockRuns
  <2>3. RowsOf(k)' \subseteq RowsOf(k)
    BY RowsAfterPrune
  <2>4. RowsInOrder(k)'
    BY <1>1, <2>2, <2>3 DEF RowsInOrder, LastOf
  <2>5. ReadingsInOrder(k)'
    BY <1>1, <2>2 DEF ReadingsInOrder, Begun
  <2> QED
    BY <2>4, <2>5
<1>10. SettledRow'
  <2>1. SUFFICES ASSUME ~stepped, NEW k \in Keys, NEW t \in 0 .. MaxTime,
                        NEW i \in DOMAIN held[k], Settled(k, i, t)
                 PROVE  BaselineIs(k, t, SnapshotOf(held[k][i]))'
    BY <1>1 DEF SettledRow, Settled
  <2>2. BaselineIs(k, t, SnapshotOf(held[k][i])) /\ RowsInOrder(k)
    BY <2>1 DEF SettledRow, ClockRuns
  <2>3. SnapshotOf(held[k][i])' = SnapshotOf(held[k][i])
    BY <1>1 DEF SnapshotOf
  <2>4. /\ RowsOf(k)' \subseteq RowsOf(k)
        /\ \A r \in RowsOf(k) \ RowsOf(k)' :
             r.at < before /\ ~(Newest(RowsOf(k)).seq <= r.seq)
    BY RowsAfterPrune
  <2>5. \A r \in RowsOf(k) : r.at \in Nat /\ r.seq \in Nat
    BY RowFields DEF RowsOf
  <2>6. CASE \A r \in RowsOf(k) : r.at > t
    BY <1>3, <2>4, <2>6 DEF BaselineIs
  <2>7. CASE \E r \in RowsOf(k) :
               /\ r.at <= t /\ r.objects = SnapshotOf(held[k][i])
               /\ \A q \in RowsOf(k) : q.at <= t => q.seq <= r.seq
    <3>1. PICK r \in RowsOf(k) :
            /\ r.at <= t /\ r.objects = SnapshotOf(held[k][i])
            /\ \A q \in RowsOf(k) : q.at <= t => q.seq <= r.seq
      BY <2>7
    <3>2. CASE r \in RowsOf(k)'
      BY <2>3, <2>4, <3>1, <3>2 DEF BaselineIs
    <3>3. CASE r \notin RowsOf(k)'
      <4>1. ASSUME NEW q \in RowsOf(k)', ~(q.at > t) PROVE FALSE
        <5>1. q \in RowsOf(k) /\ q.at <= t /\ t \in Nat
          BY <2>4, <2>5, <4>1, RecordBounds
        <5>2. q.seq <= r.seq /\ q.at <= r.at
          BY <2>2, <3>1, <5>1 DEF RowsInOrder
        <5>3. r.at < before /\ ~(Newest(RowsOf(k)).seq <= r.seq)
          BY <2>4, <3>1, <3>3
        <5>4. q.at < before
          BY <1>2, <2>5, <3>1, <5>1, <5>2, <5>3
        <5>5. q # Newest(RowsOf(k))
          BY <5>2, <5>3
        <5>6. q.at >= before \/ q = Newest(RowsOf(q.key))
          BY <4>1 DEF PruneSnapshots, RowsOf
        <5> QED
          BY <1>2, <2>5, <5>1, <5>4, <5>5, <5>6 DEF RowsOf
      <4> QED
        BY <1>3, <4>1 DEF BaselineIs
    <3> QED
      BY <3>2, <3>3
  <2> QED
    BY <2>2, <2>6, <2>7 DEF BaselineIs
<1> QED
  BY <1>4, <1>5, <1>6, <1>7, <1>8, <1>9, <1>10

----------------------------------------------------------------------------
(* The theorems. *)

LEMMA RecordNext == RecordInv /\ [Next]_vars => RecordInv'
<1> SUFFICES ASSUME RecordInv, [Next]_vars PROVE RecordInv'
  OBVIOUS
<1>1. CASE \E k \in Keys : Writer(k)
  BY <1>1, LearnKeeps, AppliedKeeps, SnapshotForKeeps, RecordSnapshotKeeps, GivingUpKeeps
  DEF Writer
<1>2. CASE \E t \in 1 .. now : PruneSnapshots(t)
  BY <1>2, PruneKeeps
<1>3. CASE Tick \/ StepBack
  BY <1>3, ClockKeeps
<1>4. CASE Crash
  BY <1>4, GivingUpKeeps
<1>5. CASE UNCHANGED vars
  <2>1. UNCHANGED <<now, decl, live, rows, nextSeq, pc, pending, held, stepped, horizon>>
    BY <1>5 DEF vars
  <2>2. Shapes' /\ WriterKnowsItsReading'
    BY <2>1 DEF RecordInv, Shapes, TypeOK, WriterKnowsItsReading, LastOf
  <2>3. ClockRuns'
    BY <2>1 DEF RecordInv, ClockRuns, RowsInOrder, ReadingsInOrder, Begun, LastOf, RowsOf
  <2> QED
    BY <2>1, <2>2, <2>3, TableStands, SettledStands DEF RecordInv
<1> QED
  BY <1>1, <1>2, <1>3, <1>4, <1>5 DEF Next

LEMMA RecordHolds == Spec => []RecordInv
BY RecordInit, RecordNext, PTL DEF Spec

(* Whatever is applied, recorded, pruned or lost in a crash, every row of  *)
(* the snapshots table is a dated row of a known key, without measures     *)
(* unless an older build wrote it, and a sequence number names one row.    *)
THEOREM RecordTypes == Spec => []TypeOK
<1>1. RecordInv => TypeOK
  BY DEF RecordInv, Shapes
<1> QED
  BY <1>1, RecordHolds, PTL

(* "Record every flip": once a snapshot call has returned, the newest row  *)
(* is the reading it was called for, whether it was inserted or found.     *)
THEOREM EveryFlipIsRecorded == Spec => []NewestRowIsTheLastReadingKept
<1>1. RecordInv => NewestRowIsTheLastReadingKept
  BY DEF RecordInv
<1> QED
  BY <1>1, RecordHolds, PTL

(* "Pruning must never leave a collection with no baseline at all": a key  *)
(* that was ever recorded has a row, at any horizon.                       *)
THEOREM ABaselineIsAlwaysLeft == Spec => []PruneKeepsABaseline
<1>1. RecordInv => PruneKeepsABaseline
  BY DEF RecordInv
<1> QED
  BY <1>1, RecordHolds, PTL

(* The row ChangesSince takes for a baseline is the one of the last        *)
(* sequence number: in a table in order, ORDER BY taken_at, seq is ORDER   *)
(* BY seq.                                                                 *)
LEMMA BaselineOfOrderedRows ==
  ASSUME Shapes, NEW k \in Keys, NEW t \in 0 .. MaxTime, RowsInOrder(k),
         NEW r \in RowsOf(k), r.at <= t,
         \A q \in RowsOf(k) : q.at <= t => q.seq <= r.seq
  PROVE  SnapshotAtOrBefore(k, t) = r
<1> DEFINE S == {q \in RowsOf(k) : q.at <= t}
           x == CHOOSE x \in S : \A q \in S : Precedes(q, x)
<1>1. /\ \A q \in RowsOf(k) : q.at \in Nat /\ q.seq \in Nat
      /\ \A p, q \in RowsOf(k) : p.seq = q.seq => p = q
  BY RowFields DEF RowsOf, Shapes, TypeOK
<1>2. r \in S /\ \A q \in S : Precedes(q, r)
  BY <1>1 DEF RowsInOrder, Precedes
<1>3. x \in S /\ \A q \in S : Precedes(q, x)
  BY <1>2
<1>4. SnapshotAtOrBefore(k, t) = x
  BY <1>2 DEF SnapshotAtOrBefore
<1> HIDE DEF x
<1>5. Precedes(x, r) /\ Precedes(r, x)
  BY <1>2, <1>3
<1>6. x.seq = r.seq
  BY <1>1, <1>2, <1>3, <1>5 DEF Precedes
<1> QED
  BY <1>1, <1>3, <1>4, <1>6

(* The readings begun by a second are the first few, so counting them      *)
(* finds the one that second belongs to.                                   *)
LEMMA SettledIsTheLastBegun ==
  ASSUME Shapes, NEW k \in Keys, NEW t \in 0 .. MaxTime, ReadingsInOrder(k),
         SettledAt(k, t) # 0
  PROVE  /\ SettledAt(k, t) \in DOMAIN held[k]
         /\ Settled(k, SettledAt(k, t), t)
<1>1. PICK m \in 0 .. Len(held[k]) : Begun(k, t) = 1 .. m
  BY DEF ReadingsInOrder
<1>2. Len(held[k]) \in Nat /\ DOMAIN held[k] = 1 .. Len(held[k])
      /\ \A i \in DOMAIN held[k] : held[k][i].from \in Nat
  BY ReadingFields
<1>3. Cardinality(1 .. m) = m
  BY <1>2, FS_Interval
<1>4. SettledAt(k, t) = IF m # 0 /\ held[k][m].kept /\ held[k][m].until <= t THEN m ELSE 0
  BY <1>1, <1>3 DEF SettledAt, Begun
<1>5. SettledAt(k, t) = m /\ m # 0 /\ held[k][m].kept /\ held[k][m].until <= t
  BY <1>4
<1>6. m \in DOMAIN held[k]
  BY <1>2, <1>5
<1>7. \A j \in DOMAIN held[k] : j > m => held[k][j].from > t
  <2>1. ASSUME NEW j \in DOMAIN held[k], j > m PROVE ~(held[k][j].from <= t)
    <3>1. j \notin Begun(k, t)
      BY <1>1, <1>2, <2>1
    <3> QED
      BY <3>1 DEF Begun
  <2>2. t \in Nat
    BY RecordBounds
  <2> QED
    BY <1>2, <2>1, <2>2
<1> QED
  BY <1>5, <1>6, <1>7 DEF Settled

(* "What changed since t" (ChangesSince) is the real difference between    *)
(* the reading held at t and what is live, or a stated gap that only a     *)
(* prune or a row of an older format causes: whatever failed to be         *)
(* recorded, was lost in a crash or was pruned, for as long as the wall    *)
(* clock is not set back.                                                  *)
THEOREM AnswersAreRealDifferences == Spec => []AnswerIsTheRealDifference
<1>1. RecordInv => AnswerIsTheRealDifference
  <2> SUFFICES ASSUME RecordInv, ~stepped, NEW k \in Keys, NEW t \in 0 .. now,
                      SettledAt(k, t) # 0, held[k][SettledAt(k, t)].decl = decl[k]
               PROVE  \/ ChangesSince(k, t).gap = "before-record" /\ horizon # 0
                      \/ /\ ChangesSince(k, t).gap = "format-changed"
                         /\ \E r \in RowsOf(k) : r.format # SnapshotFormat
                      \/ ChangesSince(k, t) =
                           [gap  |-> "none",
                            diff |-> Compare(Diffable(held[k][SettledAt(k, t)].content,
                                                      Measures[decl[k]]),
                                             Diffable(live[k], Measures[decl[k]]))]
    BY DEF AnswerIsTheRealDifference
  <2> DEFINE i == SettledAt(k, t)
  <2>1. t \in 0 .. MaxTime
    BY RecordBounds DEF RecordInv, Shapes, TypeOK
  <2>2. RowsInOrder(k) /\ ReadingsInOrder(k)
    BY DEF RecordInv, ClockRuns
  <2>3. i \in DOMAIN held[k] /\ Settled(k, i, t)
    BY <2>1, <2>2, SettledIsTheLastBegun DEF RecordInv
  <2>4. BaselineIs(k, t, SnapshotOf(held[k][i]))
    BY <2>1, <2>3 DEF RecordInv, SettledRow
  <2>5. SnapshotOf(held[k][i]) = Diffable(held[k][i].content, Measures[decl[k]])
    BY DEF SnapshotOf
  <2>6. decl[k] # None
    BY <2>3, ReadingFields, NoneAssumption DEF RecordInv
  <2>7. CASE horizon # 0 /\ \A r \in RowsOf(k) : r.at > t
    <3>1. RowsOf(k) # {}
      BY <2>3 DEF RecordInv, PruneKeepsABaseline, Settled
    <3>2. {r \in RowsOf(k) : r.at <= t} = {}
      BY <2>1, <2>7, RowFields, RecordBounds DEF RecordInv, RowsOf
    <3>3. SnapshotAtOrBefore(k, t) = None
      BY <3>2 DEF SnapshotAtOrBefore
    <3>4. ChangesSince(k, t).gap = "before-record"
      BY <2>6, <3>1, <3>3 DEF ChangesSince, Gap
    <3> QED
      BY <2>7, <3>4
  <2>8. CASE \E r \in RowsOf(k) :
               /\ r.at <= t /\ r.objects = SnapshotOf(held[k][i])
               /\ \A q \in RowsOf(k) : q.at <= t => q.seq <= r.seq
    <3>1. PICK r \in RowsOf(k) :
            /\ r.at <= t /\ r.objects = SnapshotOf(held[k][i])
            /\ \A q \in RowsOf(k) : q.at <= t => q.seq <= r.seq
      BY <2>8
    <3>2. SnapshotAtOrBefore(k, t) = r
      BY <2>1, <2>2, <3>1, BaselineOfOrderedRows DEF RecordInv
    <3>3. r # None
      BY NoneAssumption DEF RecordInv, Shapes, RowsOf
    <3> QED
      BY <2>5, <2>6, <3>1, <3>2, <3>3 DEF ChangesSince, Gap
  <2> QED
    BY <2>4, <2>7, <2>8 DEF BaselineIs
<1> QED
  BY <1>1, RecordHolds, PTL
=============================================================================
