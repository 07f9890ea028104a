------------------------ MODULE BatchAuthorityProofs ------------------------
(***************************************************************************)
(* Proofs about the batch authority, for every set of collections, scopes, *)
(* contents and boots, every hash function and every caller.               *)
(*                                                                         *)
(* The inductive invariant is AuthorityInv: the type invariant, the        *)
(* generation discipline, and the agreement of the two tables with the     *)
(* ledger.  The tables alone do not suffice: that an admitted reading is   *)
(* newer than every reading its scope ever had follows only from the       *)
(* bound the row's generation puts on the whole ledger.                    *)
(***************************************************************************)
EXTENDS BatchAuthority, TLAPS

AuthorityInv ==
  /\ AuthorityTypeOK
  /\ OneReadingPerGeneration
  /\ RowIsNewestReading
  /\ ObjectsAreNewestReading

(* What the judgement of ApplyCommitWith establishes when it admits. *)
LEMMA AdmittedIsNewer ==
  ASSUME NEW c \in Collections, NEW r \in Reading,
         AuthorityTypeOK, Outcome(c, r) = "applied"
  PROVE  r.gen \in Nat /\ r.gen > appliedGen[c] /\ r.gen <= issuedGen[c]
<1>1. r.gen \in Nat /\ appliedGen[c] \in Nat /\ issuedGen[c] \in Nat
  BY MaxGenAssumption DEF AuthorityTypeOK, Reading, ReadingRecord
<1>2. ~(r.gen > issuedGen[c])
  BY <1>1 DEF Outcome, Unissued
<1>3. ~(r.gen < appliedGen[c])
  BY <1>1, <1>2 DEF Outcome, Unissued
<1>4. r.gen # appliedGen[c]
  BY <1>1, <1>2, <1>3 DEF Outcome, Unissued
<1> QED
  BY <1>1, <1>2, <1>3, <1>4

LEMMA InitInv == AuthorityInit => AuthorityInv
<1> SUFFICES ASSUME AuthorityInit PROVE AuthorityInv
  OBVIOUS
<1>1. AuthorityTypeOK
  BY ContentsAssumption DEF AuthorityInit, AuthorityTypeOK, Declines
<1>2. OneReadingPerGeneration
  BY DEF AuthorityInit, OneReadingPerGeneration
<1>3. RowIsNewestReading
  BY DEF AuthorityInit, RowIsNewestReading
<1>4. ObjectsAreNewestReading
  BY DEF AuthorityInit, ObjectsAreNewestReading
<1> QED
  BY <1>1, <1>2, <1>3, <1>4 DEF AuthorityInv
(* An admitted commit keeps the invariant: the only step that writes all   *)
(* three variables.                                                        *)
LEMMA LandInv ==
  ASSUME NEW c \in Collections, NEW r \in Reading, AuthorityInv,
         Outcome(c, r) = "applied", LandReading(c, r)
  PROVE  AuthorityInv'
<1> USE DEF AuthorityInv
<1>0. /\ appliedGen'[c] = r.gen
      /\ issuedGen' = issuedGen
      /\ contentHash'[c] = HashOf[r.content]
      /\ bootId'[c] = r.boot
      /\ ledger'[c] = ledger[c] \cup {r}
      /\ objects'[c][r.scope] = r.content
      /\ \A s \in Scopes : s # r.scope => objects'[c][s] = objects[c][s]
      /\ \A d \in Collections : d # c =>
           appliedGen'[d] = appliedGen[d] /\ contentHash'[d] = contentHash[d]
           /\ bootId'[d] = bootId[d] /\ ledger'[d] = ledger[d] /\ objects'[d] = objects[d]
  BY DEF LandReading, StampReading, AuthorityTypeOK, Reading, ReadingRecord
<1>1. r.gen \in Nat /\ r.gen > appliedGen[c] /\ r.gen <= issuedGen[c]
  BY AdmittedIsNewer
<1>2. AuthorityTypeOK'
  <2>1. HashOf[r.content] \in Hashes /\ r.content \in Contents /\ r.scope \in Scopes
        /\ r.boot \in Boots
    BY HashAssumption DEF Reading, ReadingRecord
  <2>2. UNCHANGED <<issuedGen, declaration, timensSkew>>
        /\ appliedGen' \in [Collections -> Nat]
        /\ contentHash' \in [Collections -> Hashes \cup {None}]
        /\ bootId' \in [Collections -> Boots \cup {None}]
    BY <1>1, <2>1 DEF LandReading, StampReading, AuthorityTypeOK
  <2>3. freshness' \in [Collections -> {"current", "stale"}]
        /\ decline' \in [Collections -> Declines]
    BY DEF LandReading, ClearDecline, AuthorityTypeOK, Declines
  <2>4. objects' \in [Collections -> [Scopes -> Contents]]
    BY <2>1 DEF LandReading, AuthorityTypeOK
  <2>5. ledger' \in [Collections -> SUBSET Reading]
    BY DEF LandReading, StampReading, AuthorityTypeOK
  <2> QED
    BY <2>2, <2>3, <2>4, <2>5 DEF AuthorityTypeOK
<1>3. \A q \in ledger[c] : q.gen \in Nat /\ 1 <= q.gen /\ q.gen <= appliedGen[c]
  BY DEF OneReadingPerGeneration, AuthorityTypeOK
<1>4. OneReadingPerGeneration'
  <2> SUFFICES ASSUME NEW d \in Collections
               PROVE  /\ \A q \in ledger'[d] : q.gen \in 1 .. appliedGen'[d]
                      /\ \A p, q \in ledger'[d] : p.gen = q.gen => p = q
                      /\ appliedGen'[d] <= issuedGen'[d]
    BY DEF OneReadingPerGeneration
  <2>1. CASE d # c
    BY <2>1, <1>0 DEF OneReadingPerGeneration
  <2>2. CASE d = c
    <3>1. appliedGen[c] \in Nat
      BY DEF AuthorityTypeOK
    <3>2. \A q \in ledger'[c] : q.gen \in 1 .. appliedGen'[c]
      BY <1>0, <1>1, <1>3, <3>1
    <3>3. \A p, q \in ledger'[c] : p.gen = q.gen => p = q
      BY <1>0, <1>1, <1>3, <3>1 DEF OneReadingPerGeneration
    <3> QED
      BY <2>2, <1>0, <1>1, <3>2, <3>3
  <2> QED
    BY <2>1, <2>2
<1>5. RowIsNewestReading'
  BY <1>0 DEF RowIsNewestReading
<1>6. ObjectsAreNewestReading'
  <2> SUFFICES ASSUME NEW d \in Collections, NEW s \in Scopes
               PROVE  LET mine == {q \in ledger'[d] : q.scope = s}
                      IN  \/ mine = {} /\ objects'[d][s] = Empty
                          \/ \E q \in mine : /\ objects'[d][s] = q.content
                                             /\ \A p \in mine : p.gen <= q.gen
    BY DEF ObjectsAreNewestReading
  <2>1. CASE d # c
    BY <2>1, <1>0 DEF ObjectsAreNewestReading
  <2>2. CASE d = c /\ s # r.scope
    <3>1. {q \in ledger'[d] : q.scope = s} = {q \in ledger[d] : q.scope = s}
      BY <2>2, <1>0
    <3> QED
      BY <2>2, <3>1, <1>0 DEF ObjectsAreNewestReading
  <2>3. CASE d = c /\ s = r.scope
    <3>1. r \in {q \in ledger'[d] : q.scope = s} /\ objects'[d][s] = r.content
      BY <2>3, <1>0
    <3>2. appliedGen[c] \in Nat
      BY DEF AuthorityTypeOK
    <3>3. \A p \in {q \in ledger'[d] : q.scope = s} : p.gen <= r.gen
      BY <2>3, <1>0, <1>1, <1>3, <3>2
    <3> QED
      BY <3>1, <3>3
  <2> QED
    BY <2>1, <2>2, <2>3
<1> QED
  BY <1>2, <1>4, <1>5, <1>6

(* The operations that write only the row's other columns leave what the   *)
(* ledger speaks of alone.                                                 *)
LEMMA MarkingInv ==
  ASSUME AuthorityInv, UNCHANGED content, AuthorityTypeOK',
         \A c \in Collections : issuedGen'[c] >= issuedGen[c]
  PROVE  AuthorityInv'
<1> USE DEF AuthorityInv, content
<1>1. OneReadingPerGeneration'
  <2>1. \A c \in Collections : /\ appliedGen[c] \in Nat /\ issuedGen[c] \in Nat
                               /\ issuedGen'[c] \in Nat
    BY DEF AuthorityTypeOK
  <2> QED
    BY <2>1 DEF OneReadingPerGeneration
<1>2. RowIsNewestReading'
  BY DEF RowIsNewestReading
<1>3. ObjectsAreNewestReading'
  BY DEF ObjectsAreNewestReading
<1> QED
  BY <1>1, <1>2, <1>3

LEMMA NextInv == AuthorityInv /\ [AuthorityNext]_avars => AuthorityInv'
<1> SUFFICES ASSUME AuthorityInv, [AuthorityNext]_avars PROVE AuthorityInv'
  OBVIOUS
<1>0. AuthorityTypeOK
  BY DEF AuthorityInv
<1>1. ASSUME NEW names \in SUBSET Collections, NEW d \in Decls,
             IssueGenerations(names, d)
      PROVE  AuthorityInv'
  <2>1. AuthorityTypeOK' /\ \A c \in Collections : issuedGen'[c] >= issuedGen[c]
    BY <1>0, <1>1 DEF IssueGenerations, AuthorityTypeOK, content
  <2> QED
    BY <1>1, <2>1, MarkingInv DEF IssueGenerations
<1>2. ASSUME NEW c \in Collections, NEW r \in Reading, ApplyCommitWith(c, r)
      PROVE  AuthorityInv'
  <2>1. CASE Outcome(c, r) = "applied" /\ LandReading(c, r)
    BY <2>1, LandInv
  <2>2. CASE UNCHANGED avars
    BY <1>0, <2>2, MarkingInv DEF avars, content, AuthorityTypeOK
  <2> QED
    BY <1>2, <2>1, <2>2 DEF ApplyCommitWith
<1>3. ASSUME NEW c \in Collections, MarkStaleWith(c)
      PROVE  AuthorityInv'
  <2>1. AuthorityTypeOK' /\ \A d \in Collections : issuedGen'[d] >= issuedGen[d]
    BY <1>0, <1>3 DEF MarkStaleWith, AuthorityTypeOK, Declines, content
  <2> QED
    BY <1>3, <2>1, MarkingInv DEF MarkStaleWith
<1>4. ASSUME NEW c \in Collections, RecordAbsent(c)
      PROVE  AuthorityInv'
  <2>1. AuthorityTypeOK' /\ \A d \in Collections : issuedGen'[d] >= issuedGen[d]
    BY <1>0, <1>4 DEF RecordAbsent, AuthorityTypeOK, Declines, content
  <2> QED
    BY <1>4, <2>1, MarkingInv DEF RecordAbsent
<1>5. ASSUME NEW c \in Collections, NEW k \in Skews, RecordTimensSkew(c, k)
      PROVE  AuthorityInv'
  <2>1. AuthorityTypeOK' /\ \A d \in Collections : issuedGen'[d] >= issuedGen[d]
    BY <1>0, <1>5 DEF RecordTimensSkew, AuthorityTypeOK, content
  <2> QED
    BY <1>5, <2>1, MarkingInv DEF RecordTimensSkew
<1>6. CASE UNCHANGED avars
  BY <1>0, <1>6, MarkingInv DEF avars, content, AuthorityTypeOK
<1> QED
  BY <1>1, <1>2, <1>3, <1>4, <1>5, <1>6
  DEF AuthorityNext, AnyIssue, AnyApply, AnyMark

(* The tables keep their types under every caller of store.go. *)
THEOREM AuthorityTypes == AuthoritySpec => []AuthorityTypeOK
<1>1. AuthorityInv => AuthorityTypeOK
  BY DEF AuthorityInv
<1> QED
  BY InitInv, NextInv, <1>1, PTL DEF AuthoritySpec

(* However often and in whatever order commits are delivered to            *)
(* ApplyCommitWith, no generation is spent on two readings and none is     *)
(* served that was not issued.                                             *)
THEOREM GenerationsAreSpentOnce == AuthoritySpec => []OneReadingPerGeneration
<1>1. AuthorityInv => OneReadingPerGeneration
  BY DEF AuthorityInv
<1> QED
  BY InitInv, NextInv, <1>1, PTL DEF AuthoritySpec

(* The row ApplyCommitWith writes always describes the newest reading that *)
(* landed: the generation never runs ahead of the objects.                 *)
THEOREM RowsDescribeNewest == AuthoritySpec => []RowIsNewestReading
<1>1. AuthorityInv => RowIsNewestReading
  BY DEF AuthorityInv
<1> QED
  BY InitInv, NextInv, <1>1, PTL DEF AuthoritySpec

(* Every scope of the objects table always serves the newest reading ever  *)
(* applied to it.                                                          *)
THEOREM ObjectsServeNewest == AuthoritySpec => []ObjectsAreNewestReading
<1>1. AuthorityInv => ObjectsAreNewestReading
  BY DEF AuthorityInv
<1> QED
  BY InitInv, NextInv, <1>1, PTL DEF AuthoritySpec

(* A caller's step is a step of the versioned view, or leaves it alone. *)
LEMMA NextIsViewStep ==
  AuthorityInv /\ [AuthorityNext]_avars => [View!VNext]_(View!vvars)
<1> SUFFICES ASSUME AuthorityInv, [AuthorityNext]_avars
             PROVE  View!VNext \/ UNCHANGED <<appliedGen, objects>>
  BY DEF View!vvars
<1>1. ASSUME NEW c \in Collections, NEW r \in Reading, ApplyCommitWith(c, r)
      PROVE  View!VNext \/ UNCHANGED <<appliedGen, objects>>
  <2>1. CASE Outcome(c, r) = "applied" /\ LandReading(c, r)
    <3>1. r.gen \in Nat /\ r.gen > appliedGen[c]
      BY <2>1, AdmittedIsNewer DEF AuthorityInv
    <3>2. r.scope \in Scopes /\ r.content \in Contents
      BY DEF Reading, ReadingRecord
    <3>3. appliedGen'[c] = r.gen
      BY <2>1 DEF LandReading, StampReading, AuthorityInv, AuthorityTypeOK
    <3>4. View!Supersede(c, r.scope, r.content)
      BY <2>1, <3>1, <3>3 DEF View!Supersede, LandReading, StampReading
    <3> QED
      BY <3>2, <3>4 DEF View!VNext
  <2>2. CASE UNCHANGED avars
    BY <2>2 DEF avars, content
  <2> QED
    BY <1>1, <2>1, <2>2 DEF ApplyCommitWith
<1>2. CASE AnyIssue
  BY <1>2 DEF AnyIssue, IssueGenerations, content
<1>3. CASE AnyMark
  BY <1>3 DEF AnyMark, MarkStaleWith, RecordAbsent, RecordTimensSkew, content
<1>4. CASE UNCHANGED avars
  BY <1>4 DEF avars, content
<1> QED
  BY <1>1, <1>2, <1>3, <1>4 DEF AuthorityNext, AnyApply

(* The batch authority of store.go implements the view a reader of the     *)
(* collator is promised.                                                   *)
THEOREM AuthorityImplementsView == AuthoritySpec => ViewSpec
<1>1. AuthorityInit => View!VInit
  BY DEF AuthorityInit, View!VInit
<1> QED
  BY InitInv, NextInv, NextIsViewStep, <1>1, PTL DEF AuthoritySpec, ViewSpec, View!VSpec
=============================================================================
