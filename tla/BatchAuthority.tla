--------------------------- MODULE BatchAuthority ---------------------------
(***************************************************************************)
(* The collator's batch authority: the `collections` and `objects` tables  *)
(* of store/store.go and the operations that write them.                   *)
(*                                                                         *)
(* The store has one SQLite connection, so every statement or transaction  *)
(* is one atomic, durable step and a crash between two of them changes     *)
(* nothing; a crash inside one rolls back to the state before it.  SQLite  *)
(* itself is external.  AuthorityNext lets any caller make any call, in    *)
(* any order and any number of times: the code's own words are that "the   *)
(* authority must not depend on its caller's diligence".                   *)
(*                                                                         *)
(* A commit's object set is one abstract value.  `ledger` is a history     *)
(* variable: what was really applied, which the tables must agree with.    *)
(***************************************************************************)
EXTENDS Naturals, FiniteSets

CONSTANTS
  Collections,  \* collection names
  Scopes,       \* HostNative and the instance scopes
  Contents,     \* object sets a commit can carry, Empty among them
  Empty,        \* the object set with nothing in it
  Hashes,       \* content hashes
  HashOf,       \* HashObjects: it ignores object types and could-not-reads
  Decls,        \* declaration digests
  Boots,        \* boot ids
  Skews,        \* time-namespace offsets, collector less collator
  None,         \* SQL NULL
  MaxGen        \* bound on the generations issued per collection

ASSUME ContentsAssumption == Empty \in Contents
ASSUME HashAssumption == HashOf \in [Contents -> Hashes] /\ None \notin Hashes
ASSUME MaxGenAssumption == MaxGen \in Nat

VARIABLES
  issuedGen,    \* issued_gen; 0 stands for "no row yet" in `collections`
  appliedGen,   \* applied_gen
  contentHash,  \* content_hash
  bootId,       \* boot_id
  freshness,    \* the `stale` column
  decline,      \* decline_reason; the three non-committing reasons are one
  declaration,  \* declaration, a digest
  timensSkew,   \* timens_skew
  objects,      \* objects[c][s]: the object set stored for a scope
  ledger        \* history: ledger[c], the readings that were applied

content == <<appliedGen, contentHash, bootId, objects, ledger>>
avars == <<issuedGen, content, freshness, decline, declaration, timensSkew>>

Declines == {"none", "absent", "declined"}

(* One committed reading, and what its batch's begin said. *)
ReadingRecord ==
  [ gen         : 0 .. MaxGen + 1,   \* a caller may claim one never issued
    scope       : Scopes,
    content     : Contents,
    kind        : {"commit", "absent"},
    boot        : Boots,
    declaration : Decls,
    skew        : Skews ]

(* A decline of "absent" commits with zero objects. *)
Reading == {r \in ReadingRecord : r.kind = "absent" => r.content = Empty}

AuthorityInit ==
  /\ issuedGen = [c \in Collections |-> 0]
  /\ appliedGen = [c \in Collections |-> 0]
  /\ contentHash = [c \in Collections |-> None]
  /\ bootId = [c \in Collections |-> None]
  /\ freshness = [c \in Collections |-> "current"]
  /\ decline = [c \in Collections |-> "none"]
  /\ declaration = [c \in Collections |-> None]
  /\ timensSkew = [c \in Collections |-> None]
  /\ objects = [c \in Collections |-> [s \in Scopes |-> Empty]]
  /\ ledger = [c \in Collections |-> {}]

----------------------------------------------------------------------------
(* Operations. *)

(* IssueGenerations: one transaction that numbers every name and stamps    *)
(* the declaration it was learned under.                                   *)
IssueGenerations(names, d) ==
  /\ \A c \in names : issuedGen[c] < MaxGen
  /\ issuedGen' = [c \in Collections |-> issuedGen[c] + IF c \in names THEN 1 ELSE 0]
  /\ declaration' = [c \in Collections |-> IF c \in names THEN d ELSE declaration[c]]
  /\ UNCHANGED <<content, freshness, decline, timensSkew>>

Unissued(c, r) == issuedGen[c] = 0 \/ r.gen > issuedGen[c]

SameContent(c, r) == contentHash[c] = HashOf[r.content]

(* Mutant: no test against the applied generation, so the last commit to   *)
(* arrive wins.                                                            *)
OutcomeArrivalOrder(c, r) ==
  IF Unissued(c, r) THEN "error"
  ELSE IF r.gen = appliedGen[c] /\ SameContent(c, r) THEN "noop-identical"
  ELSE "applied"

(* Mutant: equal generation with different content is taken as new. *)
OutcomeMerges(c, r) ==
  IF Unissued(c, r) THEN "error"
  ELSE IF r.gen < appliedGen[c] THEN "refused-below-applied"
  ELSE IF r.gen = appliedGen[c] /\ SameContent(c, r) THEN "noop-identical"
  ELSE "applied"

(* The judgement ApplyCommitWith makes before it writes. *)
Outcome(c, r) ==
  IF Unissued(c, r) THEN "error"
  ELSE IF r.gen < appliedGen[c] THEN "refused-below-applied"
  ELSE IF r.gen # appliedGen[c] THEN "applied"
  ELSE IF SameContent(c, r) THEN "noop-identical"
  ELSE "generation-reused"

(* Mutant: the row keeps the boot id of an earlier reading. *)
StampReadingKeepsBoot(c, r) ==
  /\ appliedGen' = [appliedGen EXCEPT ![c] = r.gen]
  /\ contentHash' = [contentHash EXCEPT ![c] = HashOf[r.content]]
  /\ bootId' = [bootId EXCEPT ![c] = IF @ = None THEN r.boot ELSE @]
  /\ ledger' = [ledger EXCEPT ![c] = ledger[c] \cup {r}]

(* The row's half of an admitted commit, and the history it makes. *)
StampReading(c, r) ==
  /\ appliedGen' = [appliedGen EXCEPT ![c] = r.gen]
  /\ contentHash' = [contentHash EXCEPT ![c] = HashOf[r.content]]
  /\ bootId' = [bootId EXCEPT ![c] = r.boot]
  /\ ledger' = [ledger EXCEPT ![c] = ledger[c] \cup {r}]

ClearDecline(c) ==
  /\ freshness' = [freshness EXCEPT ![c] = "current"]
  /\ decline' = [decline EXCEPT ![c] = "none"]

(* Mutant: the objects of every scope are retired. *)
LandReadingAllScopes(c, r) ==
  /\ objects' = [objects EXCEPT ![c] =
                   [s \in Scopes |-> IF s = r.scope THEN r.content ELSE Empty]]
  /\ StampReading(c, r)
  /\ ClearDecline(c)
  /\ UNCHANGED <<issuedGen, declaration, timensSkew>>

(* Mutant: the DELETE names no scope, so the other scopes have no rows. *)
LandReadingUnscoped(c, r) ==
  /\ objects' = [objects EXCEPT ![c] = [s \in {r.scope} |-> r.content]]
  /\ StampReading(c, r)
  /\ ClearDecline(c)
  /\ UNCHANGED <<issuedGen, declaration, timensSkew>>

(* Mutant: a commit leaves the previous decline standing. *)
LandReadingKeepsDecline(c, r) ==
  /\ objects' = [objects EXCEPT ![c] = [objects[c] EXCEPT ![r.scope] = r.content]]
  /\ StampReading(c, r)
  /\ UNCHANGED <<issuedGen, freshness, decline, declaration, timensSkew>>

(* The writes of an admitted commit: the scope's objects are retired and   *)
(* replaced, the generation advances, stale and decline are cleared.       *)
LandReading(c, r) ==
  /\ objects' = [objects EXCEPT ![c] = [objects[c] EXCEPT ![r.scope] = r.content]]
  /\ StampReading(c, r)
  /\ ClearDecline(c)
  /\ UNCHANGED <<issuedGen, declaration, timensSkew>>

(* ApplyCommitWith.  A refusal or a no-op writes only the rejections log,  *)
(* which nothing reads back.                                               *)
ApplyCommitWith(c, r) ==
  \/ Outcome(c, r) = "applied" /\ LandReading(c, r)
  \/ Outcome(c, r) # "applied" /\ UNCHANGED avars

(* MarkStaleWith: prior objects stand, marked stale. *)
MarkStaleWith(c) ==
  /\ issuedGen[c] > 0
  /\ freshness' = [freshness EXCEPT ![c] = "stale"]
  /\ decline' = [decline EXCEPT ![c] = "declined"]
  /\ UNCHANGED <<issuedGen, content, declaration, timensSkew>>

(* RecordAbsent: a write of its own, after the apply that cleared decline. *)
RecordAbsent(c) ==
  /\ issuedGen[c] > 0
  /\ decline' = [decline EXCEPT ![c] = "absent"]
  /\ UNCHANGED <<issuedGen, content, freshness, declaration, timensSkew>>

RecordTimensSkew(c, k) ==
  /\ issuedGen[c] > 0
  /\ timensSkew' = [timensSkew EXCEPT ![c] = k]
  /\ UNCHANGED <<issuedGen, content, freshness, decline, declaration>>

----------------------------------------------------------------------------
(* Any caller, any call. *)

AnyIssue ==
  \E names \in SUBSET Collections, d \in Decls : IssueGenerations(names, d)

AnyApply == \E c \in Collections, r \in Reading : ApplyCommitWith(c, r)

AnyMark ==
  \E c \in Collections :
    MarkStaleWith(c) \/ RecordAbsent(c) \/ \E k \in Skews : RecordTimensSkew(c, k)

AuthorityNext == AnyIssue \/ AnyApply \/ AnyMark

AuthoritySpec == AuthorityInit /\ [][AuthorityNext]_avars

----------------------------------------------------------------------------
(* Properties. *)

AuthorityTypeOK ==
  /\ issuedGen \in [Collections -> Nat]
  /\ appliedGen \in [Collections -> Nat]
  /\ contentHash \in [Collections -> Hashes \cup {None}]
  /\ bootId \in [Collections -> Boots \cup {None}]
  /\ freshness \in [Collections -> {"current", "stale"}]
  /\ decline \in [Collections -> Declines]
  /\ declaration \in [Collections -> Decls \cup {None}]
  /\ timensSkew \in [Collections -> Skews \cup {None}]
  /\ objects \in [Collections -> [Scopes -> Contents]]
  /\ ledger \in [Collections -> SUBSET Reading]

(* No reading is served above what was issued, and no generation is ever   *)
(* spent on two readings: the authority's answer to a re-sent batch and to *)
(* a generation reused with other content (ApplyCommitWith).               *)
OneReadingPerGeneration ==
  \A c \in Collections :
    /\ \A r \in ledger[c] : r.gen \in 1 .. appliedGen[c]
    /\ \A q, r \in ledger[c] : q.gen = r.gen => q = r
    /\ appliedGen[c] <= issuedGen[c]

(* "A generation may never advance over unapplied objects" (crash boundary *)
(* mid-apply): the row's generation, hash and boot id are those of the     *)
(* newest applied reading.                                                 *)
RowIsNewestReading ==
  \A c \in Collections :
    \/ appliedGen[c] = 0 /\ ledger[c] = {}
    \/ \E r \in ledger[c] :
         /\ r.gen = appliedGen[c]
         /\ contentHash[c] = HashOf[r.content]
         /\ bootId[c] = r.boot

(* Every scope serves the newest reading that was ever applied to it, in   *)
(* whatever order commits arrive: an older commit never replaces a newer   *)
(* one and no scope's apply disturbs another scope's objects.              *)
ObjectsAreNewestReading ==
  \A c \in Collections, s \in Scopes :
    LET mine == {r \in ledger[c] : r.scope = s}
    IN  \/ mine = {} /\ objects[c][s] = Empty
        \/ \E r \in mine :
             /\ objects[c][s] = r.content
             /\ \A q \in mine : q.gen <= r.gen

(* The tables implement the versioned view a reader is promised. *)
View ==
  INSTANCE VersionedView
    WITH generation <- appliedGen,
         view <- objects

ViewSpec == View!VSpec
=============================================================================
