-------------------------- MODULE RelationsProofs --------------------------
(***************************************************************************)
(* Proofs about the collator's relations, for every set of collectors,     *)
(* whatever kinds they claim, whatever their objects assert, and for any   *)
(* number of store errors and crashes.                                     *)
(*                                                                         *)
(* Edges are landed from a goroutine's locals, statements after the        *)
(* objects they were assembled from, so the inductive invariant follows    *)
(* them there: what is still to be resolved and what has been are together *)
(* the keys the published objects assert (AssemblyOfObjects), and nothing  *)
(* is left over, after a failure either, when the next reading replaces    *)
(* those objects (NothingLeftOver).  Another goroutine's sweep writes to   *)
(* edges it read earlier; it can bring none back because it writes only to *)
(* a key that is still a row.                                              *)
(***************************************************************************)
EXTENDS Relations, TLAPS

WorkKeys(c) == {a.key : a \in work[c]}

\* The assembly under way is that of the objects published
AssemblyOfObjects ==
  \A c \in Collectors :
    pc[c] = "resolve" => DOMAIN built[c] \union WorkKeys(c) = AssertedKeys(c, objects[c])

\* The relations resolved so far are landed or there are none
NothingLeftOver == \A c \in Collectors : pc[c] # "resolve" => built[c] = NoEdge

\* A row of the relations table has a column to write
EdgesAreRows ==
  /\ \A k \in DOMAIN edges : "resolved" \in DOMAIN edges[k]
  /\ \A c \in Collectors : \A k \in DOMAIN built[c] :
       "resolved" \in DOMAIN built[c][k] /\ built[c][k].resolved \in BOOLEAN

\* Every goroutine has its locals
LocalsOfEach ==
  /\ DOMAIN byKind = Collectors /\ DOMAIN batch = Collectors
  /\ DOMAIN work = Collectors /\ DOMAIN hit = Collectors /\ DOMAIN built = Collectors

RelationsInv ==
  /\ TypeOK
  /\ LocalsOfEach
  /\ EdgesAreRows
  /\ EdgesAreOfOneReading
  /\ AssemblyOfObjects
  /\ NothingLeftOver

Places == {"idle", "collect", "apply", "resolve", "sweep", "retest", "write"}

----------------------------------------------------------------------------

LEMMA NoEdgeIsEmpty == DOMAIN NoEdge = {}
BY DEF NoEdge

LEMMA KeyParts ==
  ASSUME NEW c, NEW s, NEW t
  PROVE  Key(c, s, t)[1] = c /\ Key(c, s, t)[2] = s
BY DEF Key

(* What a batch asserts: keys of the host's, from the batch's own objects. *)
LEMMA AssertionKeys ==
  ASSUME NEW c \in Collectors, NEW names \in SUBSET Names
  PROVE  \A a \in Assertions(c, names) : a.key \in Keys /\ a.key[1] = c
<1> SUFFICES ASSUME NEW a \in Assertions(c, names)
             PROVE  a.key \in Keys /\ a.key[1] = c
  OBVIOUS
<1>1. PICK s \in names : \E i \in DOMAIN Links[c][s] :
        a = [key |-> Key(c, s, Links[c][s][i][2]), kind |-> Links[c][s][i][1]]
  BY DEF Assertions
<1>2. PICK i \in DOMAIN Links[c][s] : a.key = Key(c, s, Links[c][s][i][2])
  BY <1>1
<1>3. a.key \in Keys
  <2> DEFINE Of(d, t) == {Key(d, t, Links[d][t][j][2]) : j \in DOMAIN Links[d][t]}
  <2>1. a.key \in Of(c, s)
    BY <1>2
  <2>2. Of(c, s) \in {Of(d, t) : d \in Collectors, t \in Names}
    OBVIOUS
  <2>3. Keys = UNION {Of(d, t) : d \in Collectors, t \in Names}
    BY DEF Keys
  <2> HIDE DEF Of
  <2> QED
    BY <2>1, <2>2, <2>3
<1> QED
  BY <1>2, <1>3, KeyParts

LEMMA AssertedAreKeys ==
  ASSUME NEW c \in Collectors, NEW names \in SUBSET Names
  PROVE  \A k \in AssertedKeys(c, names) : k \in Keys /\ k[1] = c
BY AssertionKeys DEF AssertedKeys

LEMMA NothingAsserted == ASSUME NEW c PROVE AssertedKeys(c, {}) = {}
BY DEF AssertedKeys, Assertions

LEMMA IndexedKinds ==
  ASSUME NEW known PROVE DOMAIN PrefixIndex(known) \subseteq Kinds
BY DEF PrefixIndex

LEMMA ResolvesIsBoolean ==
  ASSUME NEW c, NEW kind, NEW name PROVE Resolves(c, kind, name) \in BOOLEAN
BY DEF Resolves

LEMMA CountedFailure ==
  ASSUME RelationsInv, Failing PROVE failures' \in 0..MaxFailures
BY LinksAssumption DEF RelationsInv, TypeOK, Failing

LEMMA RelationsInit == Init => RelationsInv
<1> SUFFICES ASSUME Init PROVE RelationsInv
  OBVIOUS
<1>1. TypeOK /\ LocalsOfEach /\ EdgesAreRows /\ AssemblyOfObjects /\ NothingLeftOver
  BY NoEdgeIsEmpty, LinksAssumption
  DEF Init, TypeOK, LocalsOfEach, EdgesAreRows, AssemblyOfObjects, NothingLeftOver
<1>2. EdgesAreOfOneReading
  BY NoEdgeIsEmpty, NothingAsserted DEF Init, EdgesAreOfOneReading, EdgesOf
<1> QED
  BY <1>1, <1>2 DEF RelationsInv

----------------------------------------------------------------------------
(* The steps of a goroutine that leave objects, edges and the relations it *)
(* is assembling alone.                                                    *)
LEMMA QuietKeeps ==
  ASSUME RelationsInv, NEW c \in Collectors,
         Declare(c) \/ Collect(c) \/ CollectFails(c) \/ Sweep(c) \/ Retest(c) \/ Ack(c)
  PROVE  RelationsInv'
<1> USE DEF Declare, Collect, CollectFails, Sweep, Retest, Ack, tables, history
<1>0. pc \in [Collectors -> Places] /\ LocalsOfEach
  BY DEF RelationsInv, TypeOK, Places
<1>1. /\ UNCHANGED <<objects, edges, landed, behind, failures, built>>
      /\ pc[c] # "resolve" /\ pc'[c] # "resolve"
      /\ \A d \in Collectors : d # c => pc'[d] = pc[d] /\ work'[d] = work[d]
  BY <1>0 DEF LocalsOfEach
<1>2. LocalsOfEach'
  BY <1>0 DEF LocalsOfEach
<1>3. TypeOK'
  <2>1. stored' \subseteq Collectors
    BY DEF RelationsInv, TypeOK
  <2>2. pc' \in [Collectors -> Places]
    BY <1>0 DEF Places
  <2>3. \A d \in Collectors : DOMAIN byKind'[d] \subseteq Kinds
    <3>1. byKind' = byKind \/ byKind' = [byKind EXCEPT ![c] = NoEdge]
          \/ byKind' = [byKind EXCEPT ![c] = PrefixIndex(stored \union {c})]
      OBVIOUS
    <3>2. DOMAIN PrefixIndex(stored \union {c}) \subseteq Kinds
      BY IndexedKinds
    <3> QED
      BY <1>0, <3>1, <3>2, NoEdgeIsEmpty DEF RelationsInv, TypeOK, LocalsOfEach
  <2>4. \A d \in Collectors : batch'[d] \in Answers[d] \union {Declined}
    <3>1. CASE batch' = batch
      BY <3>1 DEF RelationsInv, TypeOK
    <3>2. CASE Collect(c)
      <4>1. PICK answer \in Answers[c] : batch' = [batch EXCEPT ![c] = answer]
        BY <3>2
      <4>2. batch'[c] = answer /\ \A d \in Collectors : d # c => batch'[d] = batch[d]
        BY <1>0, <4>1 DEF LocalsOfEach
      <4> QED
        BY <4>2 DEF RelationsInv, TypeOK
    <3> QED
      BY <3>1, <3>2
  <2>5. \A d \in Collectors : \A a \in work'[d] : a.key \in Keys
    <3>1. \/ work' = work \/ work' = [work EXCEPT ![c] = Waiting]
          \/ \E p \in work[c] : work' = [work EXCEPT ![c] = work[c] \ {p}]
      OBVIOUS
    <3>2. \A a \in Waiting : a.key \in Keys
      BY DEF RelationsInv, TypeOK, Waiting, Unresolved
    <3> QED
      BY <1>0, <3>1, <3>2 DEF RelationsInv, TypeOK, LocalsOfEach
  <2>6. \A d \in Collectors : pc'[d] = "write" => hit'[d] \in work'[d]
    <3>1. \/ pc'[c] # "write" /\ hit' = hit
          \/ hit'[c] \in work[c] /\ work' = work /\ \A d \in Collectors : d # c => hit'[d] = hit[d]
      BY <1>0 DEF LocalsOfEach, Places
    <3> QED
      BY <1>1, <3>1 DEF RelationsInv, TypeOK
  <2> QED
    BY <1>1, <2>1, <2>2, <2>3, <2>4, <2>5, <2>6 DEF RelationsInv, TypeOK, Places
<1>4. EdgesAreOfOneReading'
  BY <1>1 DEF RelationsInv, EdgesAreOfOneReading, EdgesOf
<1>5. EdgesAreRows' /\ AssemblyOfObjects' /\ NothingLeftOver'
  BY <1>1
  DEF RelationsInv, EdgesAreRows, AssemblyOfObjects, WorkKeys, NothingLeftOver
<1> QED
  BY <1>2, <1>3, <1>4, <1>5 DEF RelationsInv

(* applyCollection replaces the objects, and the assembly starts from them. *)
LEMMA ApplyKeeps ==
  ASSUME RelationsInv, NEW c \in Collectors, Apply(c) PROVE RelationsInv'
<1>0. pc \in [Collectors -> Places] /\ LocalsOfEach /\ pc[c] = "apply"
      /\ UNCHANGED <<stored, edges, landed, behind, failures, byKind, hit, built>>
  BY DEF RelationsInv, TypeOK, Places, Apply, history
<1>1. CASE batch[c] = Declined
  <2>1. UNCHANGED <<objects, batch, work>> /\ pc' = [pc EXCEPT ![c] = "sweep"]
    BY <1>1 DEF Apply
  <2>2. TypeOK' /\ LocalsOfEach'
    BY <1>0, <2>1 DEF RelationsInv, TypeOK, LocalsOfEach, Places
  <2>3. EdgesAreOfOneReading'
    BY <1>0, <2>1 DEF RelationsInv, EdgesAreOfOneReading, EdgesOf
  <2>4. EdgesAreRows' /\ AssemblyOfObjects' /\ NothingLeftOver'
    BY <1>0, <2>1
    DEF RelationsInv, EdgesAreRows, AssemblyOfObjects, WorkKeys, NothingLeftOver
  <2> QED
    BY <2>2, <2>3, <2>4 DEF RelationsInv
<1>2. CASE batch[c] # Declined
  <2>1. /\ objects' = [objects EXCEPT ![c] = batch[c]]
        /\ batch' = [batch EXCEPT ![c] = Declined]
        /\ work' = [work EXCEPT ![c] = Assertions(c, batch[c])]
        /\ pc' = [pc EXCEPT ![c] = "resolve"]
    BY <1>2 DEF Apply
  <2>2. batch[c] \in SUBSET Names
    BY <1>2, LinksAssumption DEF RelationsInv, TypeOK
  <2>3. \A a \in Assertions(c, batch[c]) : a.key \in Keys
    BY <2>2, AssertionKeys
  <2>4. /\ objects'[c] = batch[c] /\ pc'[c] = "resolve"
        /\ work'[c] = Assertions(c, batch[c]) /\ batch'[c] = Declined
        /\ \A d \in Collectors : d # c =>
             /\ objects'[d] = objects[d] /\ pc'[d] = pc[d]
             /\ work'[d] = work[d] /\ batch'[d] = batch[d]
    BY <1>0, <2>1 DEF LocalsOfEach, RelationsInv, TypeOK
  <2>5. TypeOK'
    <3>1. objects' \in [Collectors -> SUBSET Names]
      BY <2>1, <2>2 DEF RelationsInv, TypeOK
    <3>2. pc' \in [Collectors -> Places]
      BY <1>0, <2>1 DEF Places
    <3>3. \A d \in Collectors : \A a \in work'[d] : a.key \in Keys
      BY <2>3, <2>4 DEF RelationsInv, TypeOK
    <3>4. \A d \in Collectors : pc'[d] = "write" => hit'[d] \in work'[d]
      BY <1>0, <2>4 DEF RelationsInv, TypeOK
    <3>5. \A d \in Collectors : batch'[d] \in Answers[d] \union {Declined}
      BY <2>4 DEF RelationsInv, TypeOK
    <3> QED
      BY <1>0, <3>1, <3>2, <3>3, <3>4, <3>5 DEF RelationsInv, TypeOK, Places
  <2>6. LocalsOfEach'
    BY <1>0, <2>1 DEF LocalsOfEach
  <2>7. EdgesAreOfOneReading'
    BY <1>0, <2>4 DEF RelationsInv, EdgesAreOfOneReading, EdgesOf
  <2>8. AssemblyOfObjects'
    <3>1. built'[c] = NoEdge
      BY <1>0 DEF RelationsInv, NothingLeftOver
    <3>2. WorkKeys(c)' = AssertedKeys(c, objects'[c])
      BY <2>4 DEF WorkKeys, AssertedKeys
    <3>3. \A d \in Collectors : d # c => WorkKeys(d)' = WorkKeys(d)
      BY <2>4 DEF WorkKeys
    <3> QED
      BY <1>0, <2>4, <3>1, <3>2, <3>3, NoEdgeIsEmpty DEF RelationsInv, AssemblyOfObjects
  <2>9. EdgesAreRows' /\ NothingLeftOver'
    BY <1>0, <2>4 DEF RelationsInv, EdgesAreRows, NothingLeftOver
  <2> QED
    BY <2>5, <2>6, <2>7, <2>8, <2>9 DEF RelationsInv
<1> QED
  BY <1>1, <1>2

(* ApplyAssertions resolves one assertion more, or its query failed. *)
LEMMA OneMoreKeeps ==
  ASSUME RelationsInv, NEW c \in Collectors, pc[c] = "resolve",
         NEW a \in work[c], NEW found \in BOOLEAN,
         built' = [built EXCEPT ![c] = WithBuilt(c, a, found)],
         work' = [work EXCEPT ![c] = work[c] \ {a}],
         failures' \in 0..MaxFailures,
         UNCHANGED <<stored, objects, edges, landed, behind, pc, byKind, batch, hit>>
  PROVE  RelationsInv'
<1>1. /\ built'[c] = WithBuilt(c, a, found) /\ work'[c] = work[c] \ {a}
      /\ \A d \in Collectors : d # c => built'[d] = built[d] /\ work'[d] = work[d]
      /\ LocalsOfEach'
  BY DEF RelationsInv, LocalsOfEach
<1>2. /\ DOMAIN WithBuilt(c, a, found) = DOMAIN built[c] \union {a.key}
      /\ \A k \in DOMAIN built[c] : k # a.key => WithBuilt(c, a, found)[k] = built[c][k]
      /\ WithBuilt(c, a, found)[a.key] = [kind |-> a.kind, resolved |-> found]
  BY DEF WithBuilt
<1>3. a.key \in Keys
  BY DEF RelationsInv, TypeOK
<1>4. TypeOK'
  <2>1. \A d \in Collectors : DOMAIN built'[d] \subseteq Keys
    BY <1>1, <1>2, <1>3 DEF RelationsInv, TypeOK
  <2>2. \A d \in Collectors : \A b \in work'[d] : b.key \in Keys
    BY <1>1 DEF RelationsInv, TypeOK
  <2>3. \A d \in Collectors : pc'[d] = "write" => hit'[d] \in work'[d]
    BY <1>1 DEF RelationsInv, TypeOK
  <2> QED
    BY <2>1, <2>2, <2>3 DEF RelationsInv, TypeOK
<1>5. EdgesAreOfOneReading'
  BY DEF RelationsInv, EdgesAreOfOneReading, EdgesOf
<1>6. AssemblyOfObjects'
  <2>1. WorkKeys(c) = WorkKeys(c)' \union {a.key}
    BY <1>1 DEF WorkKeys
  <2>2. \A d \in Collectors : d # c => WorkKeys(d)' = WorkKeys(d)
    BY <1>1 DEF WorkKeys
  <2>3. DOMAIN built'[c] \union WorkKeys(c)' = DOMAIN built[c] \union WorkKeys(c)
    BY <1>1, <1>2, <2>1
  <2> QED
    BY <1>1, <2>2, <2>3 DEF RelationsInv, AssemblyOfObjects
<1>7. EdgesAreRows'
  BY <1>1, <1>2 DEF RelationsInv, EdgesAreRows
<1>8. NothingLeftOver'
  BY <1>1 DEF RelationsInv, NothingLeftOver
<1> QED
  BY <1>1, <1>4, <1>5, <1>6, <1>7, <1>8 DEF RelationsInv

LEMMA ResolveKeeps ==
  ASSUME RelationsInv, NEW c \in Collectors, Resolve(c) PROVE RelationsInv'
<1>1. PICK a \in work[c] :
        /\ built' = [built EXCEPT ![c] = WithBuilt(c, a, Resolves(c, a.kind, a.key[3]))]
        /\ work' = [work EXCEPT ![c] = work[c] \ {a}]
  BY DEF Resolve
<1>2. pc[c] = "resolve" /\ failures' \in 0..MaxFailures
      /\ UNCHANGED <<stored, objects, edges, landed, behind, pc, byKind, batch, hit>>
  BY DEF Resolve, tables, history, RelationsInv, TypeOK
<1> QED
  BY <1>1, <1>2, ResolvesIsBoolean, OneMoreKeeps

LEMMA QueryFailsKeeps ==
  ASSUME RelationsInv, NEW c \in Collectors, QueryFails(c) PROVE RelationsInv'
<1>1. PICK a \in work[c] :
        /\ work' = [work EXCEPT ![c] = work[c] \ {a}]
        /\ \/ pc[c] = "resolve" /\ built' = [built EXCEPT ![c] = WithBuilt(c, a, FALSE)]
           \/ pc[c] = "retest" /\ UNCHANGED built
  BY DEF QueryFails
<1>2. failures' \in 0..MaxFailures
      /\ UNCHANGED <<stored, objects, edges, landed, behind, pc, byKind, batch, hit>>
  BY CountedFailure DEF QueryFails, tables
<1>3. CASE pc[c] = "resolve"
  BY <1>1, <1>2, <1>3, OneMoreKeeps
<1>4. CASE pc[c] = "retest" /\ UNCHANGED built
  <2>1. /\ work'[c] \subseteq work[c] /\ LocalsOfEach'
        /\ \A d \in Collectors : d # c => work'[d] = work[d]
    BY <1>1, <1>2, <1>4 DEF RelationsInv, LocalsOfEach
  <2>2. TypeOK'
    BY <1>2, <1>4, <2>1 DEF RelationsInv, TypeOK
  <2>3. EdgesAreOfOneReading'
    BY <1>2 DEF RelationsInv, EdgesAreOfOneReading, EdgesOf
  <2>4. EdgesAreRows' /\ AssemblyOfObjects' /\ NothingLeftOver'
    BY <1>2, <1>4, <2>1
    DEF RelationsInv, EdgesAreRows, AssemblyOfObjects, WorkKeys, NothingLeftOver
  <2> QED
    BY <2>1, <2>2, <2>3, <2>4 DEF RelationsInv
<1> QED
  BY <1>1, <1>3, <1>4

----------------------------------------------------------------------------
(* A refused or failed assembly: the edges stand, and are of an older      *)
(* reading.                                                                *)
LEMMA UnassembledKeeps ==
  ASSUME RelationsInv, NEW c \in Collectors, pc[c] = "resolve", Unassembled(c),
         failures' \in 0..MaxFailures
  PROVE  RelationsInv'
<1>1. /\ UNCHANGED <<stored, objects, edges, landed, byKind, batch, hit>>
      /\ behind' = behind \union {c} /\ pc' = [pc EXCEPT ![c] = "sweep"]
      /\ work' = [work EXCEPT ![c] = {}] /\ built' = [built EXCEPT ![c] = NoEdge]
  BY DEF Unassembled, tables
<1>2. /\ pc'[c] = "sweep" /\ work'[c] = {} /\ built'[c] = NoEdge /\ LocalsOfEach'
      /\ \A d \in Collectors : d # c =>
           pc'[d] = pc[d] /\ work'[d] = work[d] /\ built'[d] = built[d]
  BY <1>1 DEF RelationsInv, LocalsOfEach, TypeOK
<1>3. TypeOK'
  <2>1. pc' \in [Collectors -> Places]
    BY <1>1 DEF RelationsInv, TypeOK, Places
  <2> QED
    BY <1>1, <1>2, <2>1, NoEdgeIsEmpty DEF RelationsInv, TypeOK, Places
<1>4. EdgesAreOfOneReading'
  BY <1>1, <1>2 DEF RelationsInv, EdgesAreOfOneReading, EdgesOf
<1>5. EdgesAreRows' /\ AssemblyOfObjects' /\ NothingLeftOver'
  BY <1>1, <1>2, NoEdgeIsEmpty
  DEF RelationsInv, EdgesAreRows, AssemblyOfObjects, WorkKeys, NothingLeftOver
<1> QED
  BY <1>2, <1>3, <1>4, <1>5 DEF RelationsInv

(* The transaction of ApplyAssertions. *)
LEMMA LandKeeps ==
  ASSUME RelationsInv, NEW c \in Collectors, Land(c) PROVE RelationsInv'
<1>1. /\ pc[c] = "resolve" /\ work[c] = {} /\ edges' = LandEdges(c)
      /\ landed' = [landed EXCEPT ![c] = objects[c]] /\ behind' = behind \ {c}
      /\ built' = [built EXCEPT ![c] = NoEdge] /\ pc' = [pc EXCEPT ![c] = "sweep"]
      /\ UNCHANGED <<stored, objects, failures, byKind, batch, work, hit>>
  BY DEF Land
<1>2. /\ built'[c] = NoEdge /\ pc'[c] = "sweep" /\ landed'[c] = objects[c]
      /\ \A d \in Collectors : d # c =>
           built'[d] = built[d] /\ pc'[d] = pc[d] /\ landed'[d] = landed[d]
      /\ LocalsOfEach'
  BY <1>1 DEF RelationsInv, LocalsOfEach, TypeOK
<1>3. DOMAIN built[c] = AssertedKeys(c, objects[c])
  <2>1. WorkKeys(c) = {}
    BY <1>1 DEF WorkKeys
  <2> QED
    BY <1>1, <2>1 DEF RelationsInv, AssemblyOfObjects
<1>4. \A k \in DOMAIN built[c] : k[1] = c /\ k \in Keys
  <2>1. objects[c] \in SUBSET Names
    BY DEF RelationsInv, TypeOK
  <2> QED
    BY <1>3, <2>1, AssertedAreKeys
<1>5. /\ DOMAIN edges' = {k \in DOMAIN edges : k[1] # c} \union DOMAIN built[c]
      /\ \A k \in DOMAIN edges' :
           \/ k \in DOMAIN edges /\ k[1] # c /\ edges'[k] = edges[k]
           \/ k \in DOMAIN built[c] /\ edges'[k] = built[c][k]
  BY <1>1 DEF LandEdges
<1>6. TypeOK'
  <2>1. DOMAIN edges' \subseteq Keys
    BY <1>4, <1>5 DEF RelationsInv, TypeOK
  <2>2. \A k \in DOMAIN edges' : edges'[k].resolved \in BOOLEAN
    BY <1>5 DEF RelationsInv, TypeOK, EdgesAreRows
  <2>3. pc' \in [Collectors -> Places] /\ landed' \in [Collectors -> SUBSET Names]
    BY <1>1 DEF RelationsInv, TypeOK, Places
  <2> QED
    BY <1>1, <1>2, <2>1, <2>2, <2>3, NoEdgeIsEmpty DEF RelationsInv, TypeOK, Places
<1>7. EdgesAreOfOneReading'
  <2>1. EdgesOf(c)' = AssertedKeys(c, landed'[c])
    BY <1>2, <1>3, <1>4, <1>5 DEF EdgesOf
  <2>2. \A d \in Collectors : d # c => EdgesOf(d)' = EdgesOf(d)
    BY <1>4, <1>5 DEF EdgesOf
  <2> QED
    BY <1>1, <1>2, <2>1, <2>2 DEF RelationsInv, EdgesAreOfOneReading
<1>8. EdgesAreRows' /\ AssemblyOfObjects' /\ NothingLeftOver'
  BY <1>1, <1>2, <1>5, NoEdgeIsEmpty
  DEF RelationsInv, EdgesAreRows, AssemblyOfObjects, WorkKeys, NothingLeftOver
<1> QED
  BY <1>2, <1>6, <1>7, <1>8 DEF RelationsInv

(* UpgradeUnresolved writes by key: it adds no row. *)
LEMMA WriteKeeps ==
  ASSUME RelationsInv, NEW c \in Collectors, Write(c) PROVE RelationsInv'
<1> DEFINE row == hit[c].key
<1>1. /\ pc[c] = "write"
      /\ edges' = IF row \in DOMAIN edges THEN [edges EXCEPT ![row].resolved = TRUE] ELSE edges
      /\ work' = [work EXCEPT ![c] = work[c] \ {hit[c]}]
      /\ hit' = [hit EXCEPT ![c] = NoHit] /\ pc' = [pc EXCEPT ![c] = "retest"]
      /\ UNCHANGED <<stored, objects, landed, behind, failures, byKind, batch, built>>
  BY DEF Write, history
<1>2. /\ work'[c] \subseteq work[c] /\ pc'[c] = "retest"
      /\ \A d \in Collectors : d # c =>
           work'[d] = work[d] /\ hit'[d] = hit[d] /\ pc'[d] = pc[d]
      /\ LocalsOfEach'
  BY <1>1 DEF RelationsInv, LocalsOfEach, TypeOK
<1>3. /\ DOMAIN edges' = DOMAIN edges
      /\ \A k \in DOMAIN edges :
           edges'[k].resolved \in BOOLEAN /\ "resolved" \in DOMAIN edges'[k]
  <2>1. CASE row \notin DOMAIN edges
    BY <1>1, <2>1 DEF RelationsInv, TypeOK, EdgesAreRows
  <2>2. CASE row \in DOMAIN edges
    <3>1. edges' = [edges EXCEPT ![row] = [edges[row] EXCEPT !.resolved = TRUE]]
      BY <1>1, <2>2
    <3>2. DOMAIN edges' = DOMAIN edges
      BY <3>1
    <3>3. \A k \in DOMAIN edges : k # row => edges'[k] = edges[k]
      BY <3>1
    <3>4. edges'[row] = [edges[row] EXCEPT !.resolved = TRUE]
      BY <2>2, <3>1
    <3> QED
      BY <3>2, <3>3, <3>4 DEF RelationsInv, TypeOK, EdgesAreRows
  <2> QED
    BY <2>1, <2>2
<1>4. TypeOK'
  <2>1. pc' \in [Collectors -> Places]
    BY <1>1 DEF RelationsInv, TypeOK, Places
  <2> QED
    BY <1>1, <1>2, <1>3, <2>1 DEF RelationsInv, TypeOK, Places
<1>5. EdgesAreOfOneReading'
  BY <1>1, <1>2, <1>3 DEF RelationsInv, EdgesAreOfOneReading, EdgesOf
<1>6. EdgesAreRows' /\ AssemblyOfObjects' /\ NothingLeftOver'
  BY <1>1, <1>2, <1>3
  DEF RelationsInv, EdgesAreRows, AssemblyOfObjects, WorkKeys, NothingLeftOver
<1> QED
  BY <1>2, <1>4, <1>5, <1>6 DEF RelationsInv

(* Rounds that end where they stand, a crash's included: the tables stay,  *)
(* and an assembly that was under way leaves its collection behind.        *)
LEMMA GiveUpKeeps ==
  ASSUME RelationsInv, NEW cs \in SUBSET Collectors, GiveUp(cs),
         failures' \in 0..MaxFailures
  PROVE  RelationsInv'
<1>1. /\ UNCHANGED <<stored, objects, edges, landed>>
      /\ behind' = behind \union {c \in cs : pc[c] = "resolve"}
      /\ LocalsOfEach' /\ DOMAIN pc' = Collectors
  BY DEF GiveUp, tables, LocalsOfEach
<1>2. \A c \in cs : /\ pc'[c] = "idle" /\ byKind'[c] = NoEdge /\ batch'[c] = Declined
                   /\ work'[c] = {} /\ built'[c] = NoEdge
  BY DEF GiveUp
<1>3. \A c \in Collectors \ cs :
        /\ pc'[c] = pc[c] /\ byKind'[c] = byKind[c] /\ batch'[c] = batch[c]
        /\ work'[c] = work[c] /\ hit'[c] = hit[c] /\ built'[c] = built[c]
  BY DEF GiveUp
<1>4. TypeOK'
  <2>1. pc' \in [Collectors -> Places]
    BY DEF RelationsInv, TypeOK, Places, GiveUp
  <2>2. \A c \in cs :
          /\ DOMAIN byKind'[c] \subseteq Kinds /\ batch'[c] \in Answers[c] \union {Declined}
          /\ \A a \in work'[c] : a.key \in Keys
          /\ DOMAIN built'[c] \subseteq Keys /\ pc'[c] # "write"
    BY <1>2, NoEdgeIsEmpty
  <2>3. \A c \in Collectors \ cs :
          /\ DOMAIN byKind'[c] \subseteq Kinds /\ batch'[c] \in Answers[c] \union {Declined}
          /\ \A a \in work'[c] : a.key \in Keys
          /\ DOMAIN built'[c] \subseteq Keys /\ (pc'[c] = "write" => hit'[c] \in work'[c])
    BY <1>3 DEF RelationsInv, TypeOK
  <2> QED
    BY <1>1, <2>1, <2>2, <2>3 DEF RelationsInv, TypeOK, Places
<1>5. EdgesAreOfOneReading'
  <2> SUFFICES ASSUME NEW c \in Collectors
               PROVE  /\ EdgesOf(c)' = AssertedKeys(c, landed[c])
                      /\ (pc'[c] # "resolve" /\ c \notin behind') => landed[c] = objects[c]
    BY <1>1 DEF EdgesAreOfOneReading
  <2>1. EdgesOf(c)' = EdgesOf(c)
    BY <1>1 DEF EdgesOf
  <2>2. (pc'[c] # "resolve" /\ c \notin behind') => pc[c] # "resolve" /\ c \notin behind
    BY <1>1, <1>3
  <2> QED
    BY <2>1, <2>2 DEF RelationsInv, EdgesAreOfOneReading
<1>6. EdgesAreRows' /\ NothingLeftOver'
  BY <1>1, <1>2, <1>3, NoEdgeIsEmpty DEF RelationsInv, EdgesAreRows, NothingLeftOver
<1>7. AssemblyOfObjects'
  BY <1>1, <1>2, <1>3 DEF RelationsInv, AssemblyOfObjects, WorkKeys
<1> QED
  BY <1>1, <1>4, <1>5, <1>6, <1>7 DEF RelationsInv

LEMMA RelationsStep == RelationsInv /\ [Next]_vars => RelationsInv'
<1> SUFFICES ASSUME RelationsInv, [Next]_vars PROVE RelationsInv'
  OBVIOUS
<1>1. ASSUME NEW c \in Collectors, Declare(c) \/ Round(c) PROVE RelationsInv'
  <2>1. CASE Refuse(c)
    <3>1. pc[c] = "resolve" /\ Unassembled(c) /\ failures' \in 0..MaxFailures
      BY <2>1 DEF Refuse, RelationsInv, TypeOK
    <3> QED
      BY <3>1, UnassembledKeeps
  <2>2. CASE ~Refuse(c)
    BY <1>1, <2>2, QuietKeeps, ApplyKeeps, ResolveKeeps, LandKeeps, WriteKeeps DEF Round
  <2> QED
    BY <2>1, <2>2
<1>2. ASSUME NEW c \in Collectors, LandFails(c) PROVE RelationsInv'
  <2>1. pc[c] = "resolve" /\ Unassembled(c) /\ failures' \in 0..MaxFailures
    BY <1>2, CountedFailure DEF LandFails
  <2> QED
    BY <2>1, UnassembledKeeps
<1>3. ASSUME NEW c \in Collectors, RoundFails(c) PROVE RelationsInv'
  <2>1. GiveUp({c}) /\ failures' \in 0..MaxFailures
    BY <1>3, CountedFailure DEF RoundFails
  <2> QED
    BY <2>1, GiveUpKeeps
<1>4. CASE Crash
  <2>1. GiveUp(Collectors) /\ failures' \in 0..MaxFailures
    BY <1>4, CountedFailure DEF Crash
  <2> QED
    BY <2>1, GiveUpKeeps
<1>5. CASE UNCHANGED vars
  <2>1. UNCHANGED <<stored, objects, edges, landed, behind, failures>>
        /\ UNCHANGED <<pc, byKind, batch, work, hit, built>>
    BY <1>5 DEF vars, tables, history, goroutines
  <2> QED
    BY <2>1
    DEF RelationsInv, TypeOK, LocalsOfEach, EdgesAreRows, EdgesAreOfOneReading, EdgesOf,
        AssemblyOfObjects, WorkKeys, NothingLeftOver
<1> QED
  BY <1>1, <1>2, <1>3, <1>4, <1>5, QueryFailsKeeps DEF Next

(* AcquireOnce, ApplyAssertions and UpgradeUnresolved keep the tables and  *)
(* every goroutine's locals to their types, however they interleave and    *)
(* wherever they are cut off.                                              *)
THEOREM RelationsTypes == Spec => []TypeOK
<1>1. RelationsInv => TypeOK
  BY DEF RelationsInv
<1> QED
  BY RelationsInit, RelationsStep, <1>1, PTL DEF Spec

(* Whatever other collectors' sweeps write in between, and wherever store  *)
(* errors and crashes cut a round off, the edges of a collection are those *)
(* one reading asserted, and it is the published reading unless its own    *)
(* assembly is under way, was refused or was cut off (AcquireOnce,         *)
(* ApplyAssertions).                                                       *)
THEOREM EdgesComeFromOneReading == Spec => []EdgesAreOfOneReading
<1>1. RelationsInv => EdgesAreOfOneReading
  BY DEF RelationsInv
<1> QED
  BY RelationsInit, RelationsStep, <1>1, PTL DEF Spec
=============================================================================
