------------------------- MODULE HubFindingsProofs -------------------------
(***************************************************************************)
(* Proofs about the hub's findings, for every set of hosts, collections    *)
(* and operators, and every bound.                                         *)
(*                                                                         *)
(* A finding names generations, and what it promises is about readings:    *)
(* a generation is one number too few to tell a reading by, because the    *)
(* objects are read after the manifest (Promote) and a lost store counts   *)
(* from the beginning again (LoseStore).  The inductive invariant          *)
(* therefore ties generations to the history of readings in the three      *)
(* places they meet: at the collator (ReadingsAreTold), in a manifest      *)
(* (ManifestIsEarlier) and in a snapshot (SnapshotIsAReading).  A verdict  *)
(* is a reading's and a declaration's, so each of them says by which       *)
(* declaration's rules a reading raised what it raised.  The rest          *)
(* of it says how episodes, the log and the two copies of the open set     *)
(* keep step across crashes (ClosedWasResolved, LateRequests,              *)
(* LastWordIsDated).                                                       *)
(***************************************************************************)
EXTENDS HubFindings, TLAPS

Transition == [finding : Hosts, action : {"acknowledge", "unacknowledge", "resolved"},
               episode : Nat \ {0}]

Request == {t \in Transition : t.action # "resolved"}

Shapes ==
  /\ running \in [Hosts -> [Collections -> Declarations]]
  /\ under \in [Hosts -> [Collections -> Declarations \cup {None}]]
  /\ axes \in [Hosts -> [Collections -> Declarations \cup {None}]]
  /\ held \subseteq Collections \X Declarations
  /\ gen \in [Hosts -> [Collections -> Nat]]
  /\ stale \in [Hosts -> [Collections -> BOOLEAN]]
  /\ raises \in [Hosts -> [Collections -> SUBSET Declarations]]
  /\ readings \in 0 .. MaxReadings
  /\ actual \in [Hosts -> [Collections -> Nat]]
  /\ raised \in [Hosts -> [Collections -> Nat]]
  /\ ruled \in [Hosts -> [Collections -> Declarations \cup {None}]]
  /\ episode \in [Hosts -> Nat]
  /\ open \in [Hosts -> Finding \cup {None}] /\ stored \in [Hosts -> Finding \cup {None}]
  /\ log \in Seq(Transition)
  /\ request \in [Writers -> Request \cup {None}]
  /\ DOMAIN manifest = Hosts /\ DOMAIN snapshot = Hosts

(* Rows, and a round under way, are stamped with a declaration. *)
RowsAreStamped ==
  \A h \in Hosts, c \in Collections :
    under[h][c] = None => gen[h][c] = 0 /\ <<h, c>> \notin issued

(* What a collator holds, told by the readings that made it.  A reading    *)
(* that raised a finding and is still the last one still fires the rule    *)
(* that raised it.                                                         *)
ReadingsAreTold ==
  \A h \in Hosts, c \in Collections :
    /\ gen[h][c] <= readings /\ actual[h][c] <= readings
    /\ gen[h][c] > 0 => actual[h][c] > 0
    /\ raised[h][c] <= actual[h][c]
    /\ gen[h][c] > 0 /\ raised[h][c] = actual[h][c] => ruled[h][c] \in raises[h][c]

ManifestIsEarlier ==
  \A h \in Hosts : manifest[h] # None =>
    \A c \in DOMAIN manifest[h] :
      c \in Collections /\ manifest[h][c].generation \in 0 .. gen[h][c]

(* A collection of a snapshot is one reading, no older than what raised    *)
(* the host's finding; and if it is that very reading, judged by the same  *)
(* rules, it fires.                                                        *)
SnapshotIsAReading ==
  \A h \in Hosts : snapshot[h] # None =>
    \A c \in DOMAIN snapshot[h] :
      /\ c \in Collections
      /\ snapshot[h][c].generation \in 0 .. MaxReadings
      /\ snapshot[h][c].actual \in raised[h][c] .. actual[h][c]
      /\ snapshot[h][c].generation > 0 => snapshot[h][c].actual > 0
      /\ snapshot[h][c].cites \in Declarations \cup {None}
      /\ snapshot[h][c].generation > 0 /\ snapshot[h][c].actual = raised[h][c]
           /\ snapshot[h][c].cites = ruled[h][c] => snapshot[h][c].opinion
      /\ snapshot[h][c].opinion /\ gen[h][c] > 0 /\ snapshot[h][c].actual = actual[h][c] =>
           snapshot[h][c].cites \in raises[h][c]

(* A fold has only findings left to handle: open ones or derived ones. *)
FoldIsUnderWay ==
  /\ by \in Hosts \cup {None} /\ (by = None => todo = {})
  /\ todo \subseteq Hosts
  /\ \A h \in todo : open[h] # None \/ Deriving(h) # {}
  /\ connected \subseteq Hosts

ResolvedIn(h, e) ==
  \E i \in DOMAIN log : log[i] = [finding |-> h, action |-> "resolved", episode |-> e]

OpenHasAnEpisode == \A h \in Hosts : open[h] # None \/ stored[h] # None => episode[h] # 0

(* What is stored and no longer open was resolved, on record. *)
ClosedWasResolved ==
  \A h \in Hosts : stored[h] # None /\ open[h] = None => ResolvedIn(h, episode[h])

(* A POST that is overtaken by a new occurrence was overtaken by a         *)
(* resolution on record.                                                   *)
LateRequests ==
  \A w \in Writers :
    request[w] # None /\ request[w].episode # episode[request[w].finding] =>
      ResolvedIn(request[w].finding, request[w].episode)

IsLast(j) == \A k \in DOMAIN log : log[k].finding = log[j].finding => k <= j

LastWordIsDated ==
  /\ \A h \in Hosts : Records(h) # {} => \E j \in Records(h) : \A k \in Records(h) : k <= j
  /\ \A j \in DOMAIN log :
       IsLast(j) /\ log[j].action = "acknowledge"
         /\ log[j].episode # episode[log[j].finding] =>
         \E i \in DOMAIN log :
           i < j /\ log[i] = [log[j] EXCEPT !.action = "resolved"]

EvidenceInv == ReadingsAreTold /\ ManifestIsEarlier /\ SnapshotIsAReading

RecordInv == OpenHasAnEpisode /\ ClosedWasResolved /\ LateRequests /\ LastWordIsDated

FindingsInv == Shapes /\ RowsAreStamped /\ EvidenceInv /\ FoldIsUnderWay /\ RecordInv

----------------------------------------------------------------------------
(* What most steps leave alone. *)

LEMMA EvidenceStands ==
  ASSUME EvidenceInv,
         UNCHANGED <<gen, raises, readings, actual, raised, ruled, manifest, snapshot>>
  PROVE  EvidenceInv'
BY DEF EvidenceInv, ReadingsAreTold, ManifestIsEarlier, SnapshotIsAReading

LEMMA RecordStands ==
  ASSUME RecordInv, UNCHANGED <<open, stored, log, episode, request>>
  PROVE  RecordInv'
BY DEF RecordInv, OpenHasAnEpisode, ClosedWasResolved, LateRequests, LastWordIsDated,
       ResolvedIn, IsLast, Records

(* Appending disturbs no earlier record, and the new one is its finding's  *)
(* last word.                                                              *)
LEMMA AppendedRecord ==
  ASSUME Shapes, NEW t \in Transition, log' = Append(log, t)
  PROVE  /\ log' \in Seq(Transition)
         /\ Len(log) \in Nat /\ DOMAIN log = 1 .. Len(log)
         /\ DOMAIN log' = 1 .. (Len(log) + 1)
         /\ \A i \in DOMAIN log : log'[i] = log[i] /\ i \in DOMAIN log'
         /\ log'[Len(log) + 1] = t /\ Len(log') = Len(log) + 1
         /\ \A h, e : ResolvedIn(h, e) => ResolvedIn(h, e)'
<1>1. log \in Seq(Transition)
  BY DEF Shapes
<1>2. /\ log' \in Seq(Transition)
      /\ Len(log) \in Nat /\ DOMAIN log = 1 .. Len(log)
      /\ Len(log') = Len(log) + 1
      /\ \A i \in 1 .. Len(log) : log'[i] = log[i]
      /\ log'[Len(log) + 1] = t
  BY <1>1
<1>3. DOMAIN log' = 1 .. (Len(log) + 1)
  BY <1>2
<1>4. \A i \in DOMAIN log : i \in DOMAIN log'
  BY <1>2, <1>3
<1> QED
  BY <1>2, <1>3, <1>4 DEF ResolvedIn

(* The last word stays dated when a record of it is appended that is no    *)
(* acknowledgement of the past, or one that a resolution overtook.         *)
LEMMA LastWordStaysDated ==
  ASSUME Shapes, LastWordIsDated, NEW t \in Transition, log' = Append(log, t),
         episode' = episode,
         t.action = "acknowledge" /\ t.episode # episode[t.finding] =>
           ResolvedIn(t.finding, t.episode)
  PROVE  LastWordIsDated'
<1> DEFINE n == Len(log) + 1
<1>1. /\ Len(log) \in Nat /\ DOMAIN log = 1 .. Len(log) /\ DOMAIN log' = 1 .. n
      /\ \A i \in DOMAIN log : log'[i] = log[i] /\ i \in DOMAIN log'
      /\ log'[n] = t
  BY AppendedRecord
<1>2. ASSUME NEW h \in Hosts, Records(h)' # {}
      PROVE  \E j \in Records(h)' : \A k \in Records(h)' : k <= j
  <2>1. CASE t.finding = h
    <3>1. n \in Records(h)' /\ \A k \in Records(h)' : k <= n
      BY <1>1, <2>1 DEF Records
    <3> QED
      BY <3>1
  <2>2. CASE t.finding # h
    <3>1. Records(h)' = Records(h)
      BY <1>1, <2>2 DEF Records
    <3> QED
      BY <1>2, <3>1 DEF LastWordIsDated
  <2> QED
    BY <2>1, <2>2
<1>3. ASSUME NEW j \in DOMAIN log', IsLast(j)', log'[j].action = "acknowledge",
             log'[j].episode # episode'[log'[j].finding]
      PROVE  \E i \in DOMAIN log' :
               i < j /\ log'[i] = [log'[j] EXCEPT !.action = "resolved"]
  <2>1. CASE j = n
    <3>1. PICK i \in DOMAIN log :
            log[i] = [finding |-> t.finding, action |-> "resolved", episode |-> t.episode]
      BY <1>1, <1>3, <2>1 DEF ResolvedIn
    <3>2. [t EXCEPT !.action = "resolved"]
            = [finding |-> t.finding, action |-> "resolved", episode |-> t.episode]
      BY DEF Transition
    <3>3. i < j
      BY <1>1, <2>1, <3>1
    <3> QED
      BY <1>1, <2>1, <3>1, <3>2, <3>3
  <2>2. CASE j # n
    <3>1. j \in DOMAIN log
      BY <1>1, <2>2
    <3>2. IsLast(j)
      BY <1>1, <1>3, <3>1 DEF IsLast
    <3>3. PICK i \in DOMAIN log :
            i < j /\ log[i] = [log[j] EXCEPT !.action = "resolved"]
      BY <1>1, <1>3, <3>1, <3>2 DEF LastWordIsDated
    <3> QED
      BY <1>1, <3>1, <3>3
  <2> QED
    BY <2>1, <2>2
<1> QED
  BY <1>2, <1>3 DEF LastWordIsDated

----------------------------------------------------------------------------
(* The initial states. *)

LEMMA FindingsInit == Init => FindingsInv
<1> SUFFICES ASSUME Init PROVE FindingsInv
  OBVIOUS
<1>1. Shapes
  <2>1. log \in Seq(Transition)
    BY DEF Init
  <2> QED
    BY <2>1, FindingsBounds, FirstAssumption DEF Init, Zero, Never, Nobody, Shapes
<1>2. ReadingsAreTold
  BY DEF Init, Zero, ReadingsAreTold
<1>3. ManifestIsEarlier /\ SnapshotIsAReading
  BY DEF Init, ManifestIsEarlier, SnapshotIsAReading
<1>4. FoldIsUnderWay
  BY DEF Init, FoldIsUnderWay
<1>5. OpenHasAnEpisode /\ ClosedWasResolved /\ LateRequests
  BY DEF Init, OpenHasAnEpisode, ClosedWasResolved, LateRequests
<1>6. LastWordIsDated
  BY DEF Init, LastWordIsDated, Records
<1>7. RowsAreStamped
  BY DEF Init, Zero, RowsAreStamped
<1> QED
  BY <1>7, <1>1, <1>2, <1>3, <1>4, <1>5, <1>6 DEF FindingsInv, EvidenceInv, RecordInv

----------------------------------------------------------------------------
(* The collators and the session. *)

LEMMA AcquireKeeps ==
  ASSUME FindingsInv, NEW h \in Hosts, NEW c \in Collections, Acquire(h, c)
  PROVE  FindingsInv'
<1> USE DEF FindingsInv
<1>1. PICK fires \in SUBSET Declarations : raises' = [raises EXCEPT ![h][c] = fires]
  BY DEF Acquire
<1>2. /\ readings' = readings + 1 /\ readings < MaxReadings
      /\ gen' = [gen EXCEPT ![h][c] = @ + 1]
      /\ stale' = [stale EXCEPT ![h][c] = FALSE]
      /\ actual' = [actual EXCEPT ![h][c] = readings + 1]
      /\ <<h, c>> \in issued /\ issued' = issued \ {<<h, c>>}
  BY DEF Acquire
<1>3. /\ UNCHANGED <<running, under, held, axes, manifest, snapshot, connected>>
      /\ UNCHANGED <<open, stored, todo, by, raised, ruled, episode, stampedBy, log>>
      /\ UNCHANGED <<request, said, restarts>>
  BY DEF Acquire, estateVars, axisVars, registryVars, writeVars
<1>4. Shapes'
  <2>1. readings' \in 0 .. MaxReadings
    BY <1>2, FindingsBounds DEF Shapes
  <2>2. /\ gen' \in [Hosts -> [Collections -> Nat]]
        /\ actual' \in [Hosts -> [Collections -> Nat]]
    BY <1>2 DEF Shapes
  <2>3. /\ stale' \in [Hosts -> [Collections -> BOOLEAN]]
        /\ raises' \in [Hosts -> [Collections -> SUBSET Declarations]]
    BY <1>1, <1>2 DEF Shapes
  <2> QED
    BY <1>3, <2>1, <2>2, <2>3 DEF Shapes
<1>5. ASSUME NEW k \in Hosts, NEW d \in Collections
      PROVE  IF k = h /\ d = c
               THEN /\ gen'[k][d] = gen[k][d] + 1 /\ actual'[k][d] = readings + 1
                    /\ raises'[k][d] = fires
               ELSE /\ gen'[k][d] = gen[k][d] /\ actual'[k][d] = actual[k][d]
                    /\ raises'[k][d] = raises[k][d]
  BY <1>1, <1>2 DEF Shapes
<1>6. ASSUME NEW k \in Hosts, NEW d \in Collections
      PROVE  /\ gen[k][d] \in Nat /\ actual[k][d] \in Nat /\ raised[k][d] \in Nat
             /\ readings \in Nat
  BY DEF Shapes
<1>7. ReadingsAreTold'
  BY <1>2, <1>3, <1>5, <1>6 DEF EvidenceInv, ReadingsAreTold
<1>8. ManifestIsEarlier'
  BY <1>3, <1>5, <1>6 DEF EvidenceInv, ManifestIsEarlier
<1>9. SnapshotIsAReading'
  BY <1>3, <1>5, <1>6 DEF EvidenceInv, ReadingsAreTold, SnapshotIsAReading
<1>10. FoldIsUnderWay'
  BY <1>3 DEF FoldIsUnderWay, Deriving, Backed
<1>11. RowsAreStamped'
  BY <1>2, <1>3, <1>5, <1>6 DEF RowsAreStamped
<1> QED
  BY <1>3, <1>4, <1>7, <1>8, <1>9, <1>10, <1>11, RecordStands DEF EvidenceInv

LEMMA UpgradeKeeps ==
  ASSUME FindingsInv, NEW h \in Hosts, NEW c \in Collections, Upgrade(h, c) \/ Issue(h, c)
  PROVE  FindingsInv'
<1> USE DEF FindingsInv
<1>1. /\ UNCHANGED <<gen, stale, raises, readings, actual, held, axes, manifest, snapshot>>
      /\ UNCHANGED <<connected, open, stored, todo, by, raised, ruled, episode, stampedBy>>
      /\ UNCHANGED <<log, request>>
  BY DEF Upgrade, Issue, estateVars, axisVars, registryVars, writeVars
<1>2. /\ running' \in [Hosts -> [Collections -> Declarations]]
      /\ under' \in [Hosts -> [Collections -> Declarations \cup {None}]]
  <2>1. CASE Upgrade(h, c)
    <3>1. PICK d \in Declarations : running' = [running EXCEPT ![h][c] = d]
      BY <2>1 DEF Upgrade
    <3>2. under' = under
      BY <2>1 DEF Upgrade
    <3> QED
      BY <3>1, <3>2 DEF Shapes
  <2>2. CASE Issue(h, c)
    <3>1. running' = running /\ under' = [under EXCEPT ![h][c] = running[h][c]]
      BY <2>2 DEF Issue
    <3>2. running[h][c] \in Declarations
      BY DEF Shapes
    <3> QED
      BY <3>1, <3>2 DEF Shapes
  <2> QED
    BY <2>1, <2>2
<1>3. Shapes'
  BY <1>1, <1>2 DEF Shapes
<1>4. RowsAreStamped'
  <2>1. CASE Upgrade(h, c)
    BY <1>1, <2>1 DEF Upgrade, RowsAreStamped
  <2>2. CASE Issue(h, c)
    <3>1. /\ issued' = issued \cup {<<h, c>>}
          /\ under' = [under EXCEPT ![h][c] = running[h][c]]
      BY <2>2 DEF Issue
    <3>2. running[h][c] # None
      BY NoneAssumption DEF Shapes
    <3>3. ASSUME NEW k \in Hosts, NEW d \in Collections, under'[k][d] = None
          PROVE  under[k][d] = None /\ <<k, d>> # <<h, c>>
      BY <3>1, <3>2, <3>3 DEF Shapes
    <3> QED
      BY <1>1, <3>1, <3>3 DEF RowsAreStamped
  <2> QED
    BY <2>1, <2>2
<1>5. FoldIsUnderWay'
  BY <1>1 DEF FoldIsUnderWay, Deriving, Backed
<1> QED
  BY <1>1, <1>3, <1>4, <1>5, RecordStands, EvidenceStands

LEMMA DeclineKeeps ==
  ASSUME FindingsInv, NEW h \in Hosts, NEW c \in Collections, Decline(h, c)
  PROVE  FindingsInv'
<1> USE DEF FindingsInv, Decline, estateVars, axisVars, registryVars, writeVars
<1>1. Shapes'
  BY DEF Shapes
<1>2. FoldIsUnderWay'
  BY DEF FoldIsUnderWay, Deriving, Backed
<1>3. RowsAreStamped'
  BY DEF RowsAreStamped
<1> QED
  BY <1>1, <1>2, <1>3, RecordStands, EvidenceStands

LEMMA LoseStoreKeeps ==
  ASSUME FindingsInv, NEW h \in Hosts, LoseStore(h)
  PROVE  FindingsInv'
<1> USE DEF FindingsInv
<1>1. /\ manifest[h] = None
      /\ gen' = [gen EXCEPT ![h] = Zero] /\ stale' = [stale EXCEPT ![h] = Never]
      /\ raises' = [raises EXCEPT ![h] = [c \in Collections |-> {}]]
      /\ under' = [under EXCEPT ![h] = Nobody]
      /\ issued' = {p \in issued : p[1] # h}
      /\ UNCHANGED <<running, held, axes>>
      /\ UNCHANGED <<readings, actual, manifest, snapshot, connected, open, stored, todo>>
      /\ UNCHANGED <<by, raised, ruled, episode, stampedBy, log, request, said>>
  BY DEF LoseStore, estateVars, axisVars, registryVars, writeVars
<1>2. Shapes'
  BY <1>1 DEF Shapes, Zero, Never, Nobody
<1>3. ASSUME NEW k \in Hosts, NEW d \in Collections
      PROVE  IF k = h THEN gen'[k][d] = 0
                      ELSE /\ gen'[k][d] = gen[k][d] /\ raises'[k][d] = raises[k][d]
                           /\ under'[k][d] = under[k][d]
  BY <1>1 DEF Shapes, Zero
<1>4. readings \in Nat
  BY DEF Shapes
<1>5. ReadingsAreTold'
  BY <1>1, <1>3, <1>4 DEF EvidenceInv, ReadingsAreTold
<1>6. ManifestIsEarlier'
  BY <1>1, <1>3 DEF EvidenceInv, ManifestIsEarlier
<1>7. SnapshotIsAReading'
  BY <1>1, <1>3 DEF EvidenceInv, SnapshotIsAReading
<1>8. FoldIsUnderWay'
  BY <1>1 DEF FoldIsUnderWay, Deriving, Backed
<1>9. RowsAreStamped'
  BY <1>1, <1>3 DEF RowsAreStamped
<1> QED
  BY <1>1, <1>2, <1>5, <1>6, <1>7, <1>8, <1>9, RecordStands DEF EvidenceInv

LEMMA DeclareShapes ==
  ASSUME Shapes, NEW h \in Hosts, NEW answering \in SUBSET Collections,
         Declare(h, answering)
  PROVE  /\ axes' \in [Hosts -> [Collections -> Declarations \cup {None}]]
         /\ held' \subseteq Collections \X Declarations
BY DEF Shapes, Declare

LEMMA OpenSessionKeeps ==
  ASSUME FindingsInv, NEW h \in Hosts, OpenSession(h)
  PROVE  FindingsInv'
<1> USE DEF FindingsInv
<1>1. manifest' = [manifest EXCEPT ![h] =
                    [c \in Numbered(h) |->
                       [generation |-> gen[h][c], fresh |-> ~stale[h][c]]]]
  BY DEF OpenSession
<1>2. /\ connected' = {h} /\ by = None
      /\ UNCHANGED <<running, under, issued, gen, stale, raises, readings, actual>>
      /\ UNCHANGED <<snapshot, open, stored, todo>>
      /\ UNCHANGED <<by, raised, ruled, episode, stampedBy, log, request, said, restarts>>
  BY DEF OpenSession, collatorVars, registryVars, writeVars
<1>3. Shapes'
  <2>1. PICK answering \in SUBSET Collections : Declare(h, answering)
    BY DEF OpenSession
  <2> QED
    BY <1>1, <1>2, <2>1, DeclareShapes DEF Shapes
<1>4. ManifestIsEarlier'
  <2>1. SUFFICES ASSUME NEW k \in Hosts, manifest'[k] # None, NEW c \in DOMAIN manifest'[k]
                 PROVE  /\ c \in Collections
                        /\ manifest'[k][c].generation \in 0 .. gen'[k][c]
    BY DEF ManifestIsEarlier
  <2>2. CASE k = h
    <3>1. manifest'[k] = [d \in Numbered(h) |->
                            [generation |-> gen[h][d], fresh |-> ~stale[h][d]]]
      BY <1>1, <2>2 DEF Shapes
    <3>2. c \in Collections /\ manifest'[k][c].generation = gen[h][c]
      BY <2>1, <3>1 DEF Numbered
    <3> QED
      BY <1>2, <2>2, <3>2 DEF Shapes
  <2>3. CASE k # h
    BY <1>1, <1>2, <2>1, <2>3 DEF Shapes, EvidenceInv, ManifestIsEarlier
  <2> QED
    BY <2>2, <2>3
<1>5. ReadingsAreTold' /\ SnapshotIsAReading'
  BY <1>2 DEF EvidenceInv, ReadingsAreTold, SnapshotIsAReading
<1>6. FoldIsUnderWay'
  BY <1>2 DEF FoldIsUnderWay
<1>7. RowsAreStamped'
  BY <1>2 DEF RowsAreStamped
<1> QED
  BY <1>2, <1>3, <1>4, <1>5, <1>6, <1>7, RecordStands DEF EvidenceInv

LEMMA RefuseManifestKeeps ==
  ASSUME FindingsInv, NEW h \in Hosts, RefuseManifest(h)
  PROVE  FindingsInv'
<1> USE DEF FindingsInv
<1>1. /\ UNCHANGED <<running, under, issued, gen, stale, raises, readings, actual>>
      /\ UNCHANGED <<manifest, snapshot, connected, open, stored, todo, by, raised, ruled>>
      /\ UNCHANGED <<episode, stampedBy, log, request>>
      /\ by = None
  BY DEF RefuseManifest, collatorVars, registryVars, writeVars
<1>2. Shapes'
  <2>1. PICK answering \in SUBSET Collections : Declare(h, answering)
    BY DEF RefuseManifest
  <2> QED
    BY <1>1, <2>1, DeclareShapes DEF Shapes
<1>3. RowsAreStamped' /\ FoldIsUnderWay'
  BY <1>1 DEF RowsAreStamped, FoldIsUnderWay
<1> QED
  BY <1>1, <1>2, <1>3, EvidenceStands, RecordStands

LEMMA PromoteKeeps ==
  ASSUME FindingsInv, NEW h \in Hosts, Promote(h)
  PROVE  FindingsInv'
<1> USE DEF FindingsInv
<1> DEFINE seen == [c \in DOMAIN manifest[h] |->
                      [generation |-> manifest[h][c].generation,
                       fresh |-> manifest[h][c].fresh,
                       opinion |-> manifest[h][c].generation > 0
                                     /\ under[h][c] \in raises[h][c],
                       cites |-> under[h][c], actual |-> actual[h][c]]]
<1>1. /\ manifest[h] # None
      /\ snapshot' = [snapshot EXCEPT ![h] = seen]
      /\ manifest' = [manifest EXCEPT ![h] = None]
      /\ by' = h
      /\ todo' = {k \in Hosts : open[k] # None} \cup {k \in Hosts : Deriving(k)' # {}}
  BY DEF Promote
<1>2. /\ UNCHANGED <<running, under, issued, gen, stale, raises, readings, actual>>
      /\ UNCHANGED <<held, axes, connected, open, stored>>
      /\ UNCHANGED <<raised, ruled, episode, stampedBy, log, request, said, restarts>>
  BY DEF Promote, collatorVars, axisVars, writeVars
<1>3. Shapes'
  BY <1>1, <1>2 DEF Shapes
<1>4. ReadingsAreTold' /\ ManifestIsEarlier'
  BY <1>1, <1>2 DEF Shapes, EvidenceInv, ReadingsAreTold, ManifestIsEarlier
<1>5. SnapshotIsAReading'
  <2>1. SUFFICES ASSUME NEW k \in Hosts, snapshot'[k] # None, NEW c \in DOMAIN snapshot'[k]
                 PROVE
          /\ c \in Collections
          /\ snapshot'[k][c].generation \in 0 .. MaxReadings
          /\ snapshot'[k][c].actual \in raised[k][c] .. actual[k][c]
          /\ snapshot'[k][c].generation > 0 => snapshot'[k][c].actual > 0
          /\ snapshot'[k][c].cites \in Declarations \cup {None}
          /\ snapshot'[k][c].generation > 0 /\ snapshot'[k][c].actual = raised[k][c]
               /\ snapshot'[k][c].cites = ruled[k][c] => snapshot'[k][c].opinion
          /\ snapshot'[k][c].opinion /\ gen[k][c] > 0
               /\ snapshot'[k][c].actual = actual[k][c] => snapshot'[k][c].cites \in raises[k][c]
    BY <1>2 DEF SnapshotIsAReading
  <2>2. CASE k = h
    <3>1. snapshot'[k] = seen
      BY <1>1, <2>2 DEF Shapes
    <3>2. /\ c \in DOMAIN manifest[h]
          /\ snapshot'[k][c].generation = manifest[h][c].generation
          /\ snapshot'[k][c].actual = actual[h][c]
      BY <2>1, <3>1
    <3>3. /\ snapshot'[k][c].cites = under[h][c]
          /\ snapshot'[k][c].opinion => under[h][c] \in raises[h][c]
          /\ manifest[h][c].generation > 0 /\ under[h][c] \in raises[h][c] =>
               snapshot'[k][c].opinion
      <4> DEFINE fires == manifest[h][c].generation > 0 /\ under[h][c] \in raises[h][c]
      <4>1. snapshot'[k][c] = [generation |-> manifest[h][c].generation,
                               fresh |-> manifest[h][c].fresh, opinion |-> fires,
                               cites |-> under[h][c], actual |-> actual[h][c]]
        BY <3>1, <3>2, Zenon
      <4> HIDE DEF fires
      <4>2. snapshot'[k][c].cites = under[h][c] /\ snapshot'[k][c].opinion = fires
        BY <4>1
      <4> QED
        BY <4>2, Zenon DEF fires
    <3>4. c \in Collections /\ manifest[h][c].generation \in 0 .. gen[h][c]
      BY <1>1, <3>2 DEF EvidenceInv, ManifestIsEarlier
    <3>5. /\ gen[h][c] \in Nat /\ actual[h][c] \in Nat /\ raised[h][c] \in Nat
          /\ readings \in Nat /\ readings <= MaxReadings /\ MaxReadings \in Nat
          /\ under[h][c] \in Declarations \cup {None}
      BY <3>4, FindingsBounds DEF Shapes
    <3>6. /\ gen[h][c] <= readings
          /\ gen[h][c] > 0 => actual[h][c] > 0
          /\ raised[h][c] <= actual[h][c]
          /\ gen[h][c] > 0 /\ raised[h][c] = actual[h][c] => ruled[h][c] \in raises[h][c]
      BY <3>4 DEF EvidenceInv, ReadingsAreTold
    <3>7. /\ c \in Collections
          /\ snapshot'[k][c].generation \in 0 .. MaxReadings
          /\ snapshot'[k][c].actual \in raised[k][c] .. actual[k][c]
          /\ snapshot'[k][c].generation > 0 => snapshot'[k][c].actual > 0
          /\ snapshot'[k][c].cites \in Declarations \cup {None}
      BY <2>2, <3>2, <3>3, <3>4, <3>5, <3>6
    <3>8. ASSUME snapshot'[k][c].generation > 0, snapshot'[k][c].actual = raised[k][c],
                 snapshot'[k][c].cites = ruled[k][c]
          PROVE  snapshot'[k][c].opinion
      BY <2>2, <3>2, <3>3, <3>4, <3>5, <3>6, <3>8
    <3>9. ASSUME snapshot'[k][c].opinion
          PROVE  snapshot'[k][c].cites \in raises[k][c]
      BY <2>2, <3>3, <3>9
    <3> QED
      BY <3>7, <3>8, <3>9
  <2>3. CASE k # h
    <3>1. snapshot'[k] = snapshot[k]
      BY <1>1, <2>3 DEF Shapes
    <3> QED
      BY <2>1, <3>1 DEF EvidenceInv, SnapshotIsAReading
  <2> QED
    BY <2>2, <2>3
<1>6. FoldIsUnderWay'
  <2>1. by' \in Hosts /\ by' # None /\ todo' \subseteq Hosts
    BY <1>1, NoneAssumption
  <2>2. \A k \in todo' : open'[k] # None \/ Deriving(k)' # {}
    BY <1>1, <1>2
  <2> QED
    BY <1>2, <2>1, <2>2 DEF FoldIsUnderWay
<1>7. RowsAreStamped'
  BY <1>2 DEF RowsAreStamped
<1> QED
  BY <1>2, <1>3, <1>4, <1>5, <1>6, <1>7, RecordStands DEF EvidenceInv

LEMMA CutKeeps ==
  ASSUME FindingsInv, NEW h \in Hosts, Cut(h)
  PROVE  FindingsInv'
<1> USE DEF FindingsInv, Cut, collatorVars, axisVars, registryVars, writeVars
<1>1. Shapes'
  BY DEF Shapes
<1>2. EvidenceInv'
  BY DEF Shapes, EvidenceInv, ReadingsAreTold, ManifestIsEarlier, SnapshotIsAReading
<1>3. FoldIsUnderWay'
  BY DEF FoldIsUnderWay, Deriving, Backed
<1>4. RowsAreStamped'
  BY DEF RowsAreStamped
<1> QED
  BY <1>1, <1>2, <1>3, <1>4, RecordStands

----------------------------------------------------------------------------
(* The fold. *)

(* A verdict other than current is given of a finding that is open. *)
LEMMA JudgedIsOpen ==
  ASSUME Shapes, FoldIsUnderWay, NEW h \in todo, Verdict(h) # "current"
  PROVE  /\ h \in Hosts /\ open[h] # None /\ open[h] \in Finding /\ Deriving(h) = {}
BY DEF Shapes, FoldIsUnderWay, Verdict

(* What a current verdict writes is a finding. *)
LEMMA DerivedIsAFinding ==
  ASSUME FindingsInv, NEW h \in Hosts
  PROVE  /\ [contributors |-> Contributors(h), verdict |-> "current"] \in Finding
         /\ [contributors |-> Contributors(h), verdict |-> "current"] # None
<1>1. \A c \in Deriving(h) : c \in Collections /\ snapshot[h][c].generation \in 0 .. MaxReadings
  BY DEF FindingsInv, EvidenceInv, SnapshotIsAReading, Deriving
<1>2. Contributors(h) \in SUBSET (Collections \X (0 .. MaxReadings))
  BY <1>1 DEF Contributors
<1>3. [contributors |-> Contributors(h), verdict |-> "current"] \in Finding
  BY <1>2 DEF Finding
<1> QED
  BY <1>3, NoneAssumption

LEMMA FoldResolvedKeeps ==
  ASSUME FindingsInv, NEW h \in Hosts, FoldResolved(h)
  PROVE  FindingsInv'
<1> USE DEF FindingsInv
<1> DEFINE t == [finding |-> h, action |-> "resolved", episode |-> episode[h]]
<1>1. /\ h \in todo /\ Verdict(h) = "resolved"
      /\ log' = Append(log, t)
      /\ open' = [open EXCEPT ![h] = None]
      /\ todo' = todo \ {h}
  BY DEF FoldResolved
<1>2. /\ UNCHANGED <<running, under, issued, gen, stale, raises, readings, actual>>
      /\ UNCHANGED <<held, axes, manifest, snapshot, connected>>
      /\ UNCHANGED <<stored, by, raised, ruled, episode, request>>
  BY DEF FoldResolved, collatorVars, estateVars, axisVars
<1>3. open[h] # None
  BY <1>1, JudgedIsOpen
<1>4. t \in Transition /\ t.action # "acknowledge"
  BY <1>3 DEF RecordInv, OpenHasAnEpisode, Shapes, Transition
<1> HIDE DEF t
<1>5. /\ log' \in Seq(Transition)
      /\ \A k, e : ResolvedIn(k, e) => ResolvedIn(k, e)'
      /\ Len(log) + 1 \in DOMAIN log' /\ log'[Len(log) + 1] = t
  BY <1>1, <1>4, AppendedRecord
<1>6. Shapes'
  BY <1>1, <1>2, <1>5 DEF Shapes
<1>7. EvidenceInv'
  BY <1>2, EvidenceStands
<1>8. FoldIsUnderWay'
  BY <1>1, <1>2 DEF Shapes, FoldIsUnderWay, Deriving, Backed
<1>9. OpenHasAnEpisode'
  BY <1>1, <1>2 DEF Shapes, RecordInv, OpenHasAnEpisode
<1>10. ClosedWasResolved'
  <2>1. ResolvedIn(h, episode[h])'
    BY <1>2, <1>5 DEF ResolvedIn, t
  <2>2. \A k \in Hosts : k # h => open'[k] = open[k]
    BY <1>1 DEF Shapes
  <2>3. ASSUME NEW k \in Hosts, stored'[k] # None, open'[k] = None
        PROVE  ResolvedIn(k, episode[k])'
    BY <1>2, <1>5, <2>1, <2>2, <2>3 DEF RecordInv, ClosedWasResolved
  <2> QED
    BY <2>3 DEF ClosedWasResolved
<1>11. LateRequests'
  <2>1. ASSUME NEW w \in Writers, request'[w] # None,
               request'[w].episode # episode'[request'[w].finding]
        PROVE  ResolvedIn(request[w].finding, request[w].episode)'
    BY <1>2, <1>5, <2>1 DEF RecordInv, LateRequests
  <2> QED
    BY <1>2, <2>1 DEF LateRequests, ResolvedIn
<1>12. LastWordIsDated'
  BY <1>1, <1>2, <1>4, LastWordStaysDated DEF RecordInv
<1>13. RowsAreStamped'
  BY <1>2 DEF RowsAreStamped
<1> QED
  BY <1>6, <1>7, <1>8, <1>9, <1>10, <1>11, <1>12, <1>13 DEF RecordInv

(* A condition recurs behind a resolution on record; the episode moves on. *)
LEMMA FoldCurrentKeeps ==
  ASSUME FindingsInv, NEW h \in Hosts, FoldCurrent(h)
  PROVE  FindingsInv'
<1> USE DEF FindingsInv
<1> DEFINE f == [contributors |-> Contributors(h), verdict |-> "current"]
           r == [c \in Collections |-> IF c \in Deriving(h) THEN snapshot[h][c].actual
                                       ELSE IF Recurs(h) THEN 0 ELSE raised[h][c]]
           u == [c \in Collections |-> IF c \in Deriving(h) THEN snapshot[h][c].cites
                                       ELSE ruled[h][c]]
           e == IF Recurs(h) THEN episode[h] + 1 ELSE episode[h]
<1>1. /\ h \in todo /\ open' = [open EXCEPT ![h] = f]
      /\ raised' = [raised EXCEPT ![h] = r] /\ ruled' = [ruled EXCEPT ![h] = u]
      /\ episode' = [episode EXCEPT ![h] = e]
      /\ todo' = todo \ {h}
  BY DEF FoldCurrent, Shapes
<1>2. /\ UNCHANGED <<running, under, issued, gen, stale, raises, readings, actual>>
      /\ UNCHANGED <<held, axes, manifest, snapshot, connected>>
      /\ UNCHANGED <<stored, by, log, request, restarts>>
  BY DEF FoldCurrent, collatorVars, estateVars, axisVars
<1>3. f \in Finding /\ f # None
  BY DerivedIsAFinding
<1>4. snapshot[h] # None => \A c \in DOMAIN snapshot[h] :
        /\ c \in Collections
        /\ raised[h][c] \in Nat /\ actual[h][c] \in Nat /\ gen[h][c] \in Nat
        /\ snapshot[h][c].generation \in Nat
        /\ snapshot[h][c].actual \in raised[h][c] .. actual[h][c]
        /\ snapshot[h][c].generation > 0 => snapshot[h][c].actual > 0
        /\ snapshot[h][c].cites \in Declarations \cup {None}
        /\ snapshot[h][c].generation > 0 /\ snapshot[h][c].actual = raised[h][c]
             /\ snapshot[h][c].cites = ruled[h][c] => snapshot[h][c].opinion
        /\ snapshot[h][c].opinion /\ gen[h][c] > 0 /\ snapshot[h][c].actual = actual[h][c]
             => snapshot[h][c].cites \in raises[h][c]
  BY DEF Shapes, EvidenceInv, SnapshotIsAReading
<1>5. \A c \in Deriving(h) :
        snapshot[h] # None /\ c \in DOMAIN snapshot[h] /\ snapshot[h][c].opinion
  BY DEF Deriving
<1>6. \A c \in Collections : r[c] \in Nat /\ u[c] \in Declarations \cup {None}
  BY <1>4, <1>5 DEF Shapes
<1>7. /\ raised'[h] = r /\ ruled'[h] = u /\ episode'[h] = e /\ open'[h] = f
      /\ \A k \in Hosts : k # h => /\ raised'[k] = raised[k] /\ ruled'[k] = ruled[k]
                                   /\ episode'[k] = episode[k] /\ open'[k] = open[k]
  BY <1>1 DEF Shapes
<1>8. episode[h] \in Nat /\ e \in Nat /\ (e = episode[h] \/ (Recurs(h) /\ e = episode[h] + 1))
  BY DEF Shapes
<1> HIDE DEF f, e
<1>9. Shapes'
  <2>1. /\ raised' \in [Hosts -> [Collections -> Nat]]
        /\ ruled' \in [Hosts -> [Collections -> Declarations \cup {None}]]
    BY <1>1, <1>6 DEF Shapes
  <2>2. episode' \in [Hosts -> Nat] /\ open' \in [Hosts -> Finding \cup {None}]
    BY <1>1, <1>3, <1>8 DEF Shapes
  <2> QED
    BY <1>2, <2>1, <2>2 DEF Shapes
<1>10. ReadingsAreTold'
  <2>1. \A c \in Collections :
          /\ r[c] <= actual[h][c]
          /\ gen[h][c] > 0 /\ r[c] = actual[h][c] => u[c] \in raises[h][c]
    BY <1>4, <1>5 DEF Shapes, EvidenceInv, ReadingsAreTold
  <2> HIDE DEF r, u
  <2> QED
    BY <1>2, <1>7, <2>1 DEF EvidenceInv, ReadingsAreTold
<1>11. SnapshotIsAReading'
  <2>1. snapshot[h] # None => \A c \in DOMAIN snapshot[h] :
          /\ snapshot[h][c].actual \in r[c] .. actual[h][c]
          /\ snapshot[h][c].generation > 0 /\ snapshot[h][c].actual = r[c]
               /\ snapshot[h][c].cites = u[c] => snapshot[h][c].opinion
    BY <1>4, <1>5
  <2> HIDE DEF r, u
  <2> QED
    BY <1>2, <1>7, <2>1 DEF EvidenceInv, SnapshotIsAReading
<1>12. ManifestIsEarlier'
  BY <1>2 DEF EvidenceInv, ManifestIsEarlier
<1>13. FoldIsUnderWay'
  <2>1. \A k \in Hosts : Deriving(k)' = Deriving(k)
    BY <1>2 DEF Deriving, Backed
  <2> QED
    BY <1>1, <1>2, <1>7, <2>1 DEF FoldIsUnderWay
<1>14. OpenHasAnEpisode'
  <2>1. e # 0
    BY <1>8 DEF RecordInv, OpenHasAnEpisode, Recurs, e
  <2> QED
    BY <1>2, <1>7, <2>1 DEF RecordInv, OpenHasAnEpisode
<1>15. \A k, x : ResolvedIn(k, x)' <=> ResolvedIn(k, x)
  BY <1>2 DEF ResolvedIn
<1>16. ClosedWasResolved'
  BY <1>2, <1>3, <1>7, <1>15 DEF RecordInv, ClosedWasResolved, ResolvedIn
<1>17. Recurs(h) => episode[h] = 0 \/ ResolvedIn(h, episode[h])
  BY DEF Recurs, ResolvedIn
<1>18. LateRequests'
  <2>1. SUFFICES ASSUME NEW w \in Writers, request[w] # None,
                        request[w].episode # episode'[request[w].finding]
                 PROVE  ResolvedIn(request[w].finding, request[w].episode)
    BY <1>2 DEF LateRequests, ResolvedIn
  <2>2. request[w].finding \in Hosts /\ request[w].episode \in Nat \ {0}
    BY <2>1 DEF Shapes, Request, Transition
  <2>3. CASE request[w].episode = episode[request[w].finding]
    BY <1>7, <1>8, <1>17, <2>1, <2>2, <2>3
  <2>4. CASE request[w].episode # episode[request[w].finding]
    BY <2>1, <2>4 DEF RecordInv, LateRequests
  <2> QED
    BY <2>3, <2>4
<1>19. LastWordIsDated'
  <2>1. ASSUME NEW j \in DOMAIN log, IsLast(j), log[j].action = "acknowledge",
               log[j].episode # episode'[log[j].finding]
        PROVE  \E i \in DOMAIN log : i < j /\ log[i] = [log[j] EXCEPT !.action = "resolved"]
    <3>1. /\ log[j] \in Transition /\ DOMAIN log = 1 .. Len(log) /\ Len(log) \in Nat
      BY DEF Shapes
    <3>2. log[j].finding \in Hosts /\ log[j].episode \in Nat \ {0}
      BY <3>1 DEF Transition
    <3>3. CASE log[j].episode # episode[log[j].finding]
      BY <2>1, <3>3 DEF RecordInv, LastWordIsDated
    <3>4. CASE log[j].episode = episode[log[j].finding]
      <4>1. log[j].finding = h /\ ResolvedIn(h, log[j].episode)
        BY <1>7, <1>8, <1>17, <2>1, <3>2, <3>4
      <4>2. PICK i \in DOMAIN log :
              log[i] = [finding |-> h, action |-> "resolved", episode |-> log[j].episode]
        BY <4>1 DEF ResolvedIn
      <4>3. i <= j /\ i # j
        BY <2>1, <4>1, <4>2 DEF IsLast
      <4>4. log[i] = [log[j] EXCEPT !.action = "resolved"]
        BY <3>1, <4>1, <4>2 DEF Transition
      <4> QED
        BY <3>1, <4>3, <4>4
    <3> QED
      BY <3>3, <3>4
  <2>2. \A k \in Hosts : Records(k)' = Records(k)
    BY <1>2 DEF Records
  <2> QED
    BY <1>2, <2>1, <2>2 DEF RecordInv, LastWordIsDated, IsLast
<1>20. RowsAreStamped'
  BY <1>2 DEF RowsAreStamped
<1> QED
  BY <1>20, <1>9, <1>10, <1>11, <1>12, <1>13, <1>14, <1>16, <1>18, <1>19
  DEF EvidenceInv, RecordInv

LEMMA FoldFrozenKeeps ==
  ASSUME FindingsInv, NEW h \in Hosts, FoldFrozen(h)
  PROVE  FindingsInv'
<1> USE DEF FindingsInv
<1> DEFINE f == [open[h] EXCEPT !.verdict = "frozen"]
<1>1. /\ h \in todo /\ Verdict(h) = "frozen" /\ todo' = todo \ {h}
      /\ open' = [open EXCEPT ![h] = f]
  BY DEF FoldFrozen, Shapes
<1>2. /\ UNCHANGED <<running, under, issued, gen, stale, raises, readings, actual>>
      /\ UNCHANGED <<held, axes, manifest, snapshot, connected>>
      /\ UNCHANGED <<stored, by, raised, ruled, episode, log, request>>
  BY DEF FoldFrozen, collatorVars, estateVars, axisVars, writeVars
<1>3. open[h] # None /\ open[h] \in Finding
  BY <1>1, JudgedIsOpen
<1>4. f \in Finding /\ f # None
  BY <1>3, NoneAssumption DEF Finding
<1> HIDE DEF f
<1>5. open'[h] = f /\ \A k \in Hosts : k # h => open'[k] = open[k]
  BY <1>1 DEF Shapes
<1>6. Shapes'
  BY <1>1, <1>2, <1>4 DEF Shapes
<1>7. EvidenceInv'
  BY <1>2, EvidenceStands
<1>8. FoldIsUnderWay'
  BY <1>1, <1>2, <1>5 DEF FoldIsUnderWay, Deriving, Backed
<1>9. OpenHasAnEpisode'
  BY <1>2, <1>3, <1>5 DEF RecordInv, OpenHasAnEpisode
<1>10. ClosedWasResolved'
  BY <1>2, <1>4, <1>5 DEF RecordInv, ClosedWasResolved, ResolvedIn
<1>11. LateRequests' /\ LastWordIsDated'
  BY <1>2 DEF RecordInv, LateRequests, LastWordIsDated, ResolvedIn, IsLast, Records
<1>12. RowsAreStamped'
  BY <1>2 DEF RowsAreStamped
<1> QED
  BY <1>12, <1>6, <1>7, <1>8, <1>9, <1>10, <1>11 DEF RecordInv

LEMMA EndFoldKeeps ==
  ASSUME FindingsInv, Persist \/ FoldFails
  PROVE  FindingsInv'
<1> USE DEF FindingsInv
<1>1. /\ UNCHANGED <<running, under, issued, gen, stale, raises, readings, actual>>
      /\ UNCHANGED <<held, axes, manifest, snapshot, raised, ruled>>
      /\ UNCHANGED <<open, episode, log, request>>
      /\ stored' \in {open, stored}
      /\ by' = None /\ todo' = {} /\ connected' = {}
  BY DEF Persist, FoldFails, EndFold, collatorVars, axisVars, writeVars
<1>2. Shapes'
  BY <1>1 DEF Shapes
<1>3. EvidenceInv'
  BY <1>1, EvidenceStands
<1>4. FoldIsUnderWay'
  BY <1>1 DEF FoldIsUnderWay
<1>5. OpenHasAnEpisode' /\ ClosedWasResolved'
  BY <1>1 DEF RecordInv, OpenHasAnEpisode, ClosedWasResolved, ResolvedIn
<1>6. LateRequests' /\ LastWordIsDated'
  BY <1>1 DEF RecordInv, LateRequests, LastWordIsDated, ResolvedIn, IsLast, Records
<1>7. RowsAreStamped'
  BY <1>1 DEF RowsAreStamped
<1> QED
  BY <1>7, <1>2, <1>3, <1>4, <1>5, <1>6 DEF RecordInv

----------------------------------------------------------------------------
(* The write listener, and a restart. *)

LEMMA CheckOpenKeeps ==
  ASSUME FindingsInv, NEW w \in Writers, NEW h \in Hosts, CheckOpen(w, h)
  PROVE  FindingsInv'
<1> USE DEF FindingsInv
<1>1. PICK a \in {"acknowledge", "unacknowledge"} :
        request' = [request EXCEPT ![w] =
                      [finding |-> h, action |-> a, episode |-> episode[h]]]
  BY DEF CheckOpen
<1>2. /\ UNCHANGED <<running, under, issued, gen, stale, raises, readings, actual>>
      /\ UNCHANGED <<held, axes, manifest, snapshot, connected>>
      /\ UNCHANGED <<open, stored, todo, by, raised, ruled, episode, log>>
      /\ open[h] # None
  BY DEF CheckOpen, collatorVars, estateVars, axisVars, registryVars
<1> DEFINE q == [finding |-> h, action |-> a, episode |-> episode[h]]
<1>3. q \in Request
  BY <1>2 DEF Shapes, RecordInv, OpenHasAnEpisode, Request, Transition
<1>4. q.finding = h /\ q.episode = episode[h]
  OBVIOUS
<1> HIDE DEF q
<1>5. request' = [request EXCEPT ![w] = q]
  BY <1>1 DEF q
<1>6. Shapes'
  BY <1>2, <1>3, <1>5 DEF Shapes
<1>7. EvidenceInv'
  BY <1>2, EvidenceStands
<1>8. FoldIsUnderWay'
  BY <1>2 DEF FoldIsUnderWay, Deriving, Backed
<1>9. LateRequests'
  <2>1. request'[w] = q /\ \A v \in Writers : v # w => request'[v] = request[v]
    BY <1>5 DEF Shapes
  <2> QED
    BY <1>2, <1>4, <2>1 DEF RecordInv, LateRequests, ResolvedIn
<1>10. OpenHasAnEpisode' /\ ClosedWasResolved' /\ LastWordIsDated'
  BY <1>2 DEF RecordInv, OpenHasAnEpisode, ClosedWasResolved, LastWordIsDated,
              ResolvedIn, IsLast, Records
<1>11. RowsAreStamped'
  BY <1>2 DEF RowsAreStamped
<1> QED
  BY <1>11, <1>6, <1>7, <1>8, <1>9, <1>10 DEF RecordInv

LEMMA StoreTransitionKeeps ==
  ASSUME FindingsInv, NEW w \in Writers, StoreTransition(w)
  PROVE  FindingsInv'
<1> USE DEF FindingsInv
<1>1. /\ request[w] # None /\ log' = Append(log, request[w])
      /\ request' = [request EXCEPT ![w] = None]
      /\ UNCHANGED <<running, under, issued, gen, stale, raises, readings, actual>>
      /\ UNCHANGED <<held, axes, manifest, snapshot, connected>>
      /\ UNCHANGED <<open, stored, todo, by, raised, ruled, episode>>
  BY DEF StoreTransition, collatorVars, estateVars, axisVars, registryVars
<1>2. request[w] \in Request /\ request[w] \in Transition
  BY <1>1 DEF Shapes, Request
<1>3. /\ log' \in Seq(Transition)
      /\ \A k, e : ResolvedIn(k, e) => ResolvedIn(k, e)'
  BY <1>1, <1>2, AppendedRecord
<1>4. Shapes'
  BY <1>1, <1>3 DEF Shapes
<1>5. EvidenceInv'
  BY <1>1, EvidenceStands
<1>6. FoldIsUnderWay'
  BY <1>1 DEF FoldIsUnderWay, Deriving, Backed
<1>7. OpenHasAnEpisode'
  BY <1>1 DEF RecordInv, OpenHasAnEpisode
<1>8. ClosedWasResolved'
  <2>1. ASSUME NEW k \in Hosts, stored[k] # None, open[k] = None
        PROVE  ResolvedIn(k, episode[k])'
    BY <1>1, <1>3, <2>1 DEF RecordInv, ClosedWasResolved
  <2> QED
    BY <1>1, <2>1 DEF ClosedWasResolved
<1>9. LateRequests'
  <2>1. ASSUME NEW v \in Writers, request'[v] # None,
               request'[v].episode # episode'[request'[v].finding]
        PROVE  \E i \in DOMAIN log' :
                 log'[i] = [finding |-> request'[v].finding, action |-> "resolved",
                            episode |-> request'[v].episode]
    <3>1. v # w /\ request'[v] = request[v]
      BY <1>1, <2>1 DEF Shapes
    <3>2. ResolvedIn(request[v].finding, request[v].episode)
      BY <1>1, <2>1, <3>1 DEF RecordInv, LateRequests
    <3>3. \E i \in DOMAIN log' :
            log'[i] = [finding |-> request[v].finding, action |-> "resolved",
                       episode |-> request[v].episode]
      BY <1>1, <1>2, <3>2, AppendedRecord DEF ResolvedIn
    <3> QED
      BY <3>1, <3>3
  <2> QED
    BY <2>1 DEF LateRequests, ResolvedIn
<1>10. LastWordIsDated'
  <2>1. request[w].episode # episode[request[w].finding] =>
          ResolvedIn(request[w].finding, request[w].episode)
    BY <1>1 DEF RecordInv, LateRequests
  <2> QED
    BY <1>1, <1>2, <2>1, LastWordStaysDated DEF RecordInv
<1>11. RowsAreStamped'
  BY <1>1 DEF RowsAreStamped
<1> QED
  BY <1>11, <1>4, <1>5, <1>6, <1>7, <1>8, <1>9, <1>10 DEF RecordInv

LEMMA RestartKeeps ==
  ASSUME FindingsInv, Restart
  PROVE  FindingsInv'
<1> USE DEF FindingsInv
<1>1. /\ UNCHANGED <<running, under, issued, gen, stale, raises, readings, actual>>
      /\ UNCHANGED <<stored, raised, ruled, episode, log>>
      /\ open' = stored /\ held' = {} /\ axes' = [h \in Hosts |-> Nobody]
      /\ snapshot' = [h \in Hosts |-> None] /\ manifest' = [h \in Hosts |-> None]
      /\ connected' = {} /\ by' = None /\ todo' = {}
      /\ request' = [w \in Writers |-> None]
  BY DEF Restart, collatorVars
<1>2. Shapes'
  BY <1>1 DEF Shapes, Nobody
<1>3. EvidenceInv'
  BY <1>1 DEF EvidenceInv, ReadingsAreTold, ManifestIsEarlier, SnapshotIsAReading
<1>4. FoldIsUnderWay'
  BY <1>1 DEF FoldIsUnderWay
<1>5. OpenHasAnEpisode' /\ ClosedWasResolved' /\ LateRequests'
  BY <1>1 DEF RecordInv, OpenHasAnEpisode, ClosedWasResolved, LateRequests
<1>6. LastWordIsDated'
  BY <1>1 DEF RecordInv, LastWordIsDated, IsLast, Records
<1>7. RowsAreStamped'
  BY <1>1 DEF RowsAreStamped
<1> QED
  BY <1>7, <1>2, <1>3, <1>4, <1>5, <1>6 DEF RecordInv

----------------------------------------------------------------------------
(* The theorems. *)

LEMMA FindingsNext == FindingsInv /\ [Next]_vars => FindingsInv'
<1> SUFFICES ASSUME FindingsInv, [Next]_vars PROVE FindingsInv'
  OBVIOUS
<1>1. CASE \E h \in Hosts, c \in Collections :
             Upgrade(h, c) \/ Issue(h, c) \/ Acquire(h, c) \/ Decline(h, c)
  BY <1>1, UpgradeKeeps, AcquireKeeps, DeclineKeeps
<1>2. CASE \E h \in Hosts :
             LoseStore(h) \/ OpenSession(h) \/ RefuseManifest(h) \/ Promote(h) \/ Cut(h)
  BY <1>2, LoseStoreKeeps, OpenSessionKeeps, RefuseManifestKeeps, PromoteKeeps, CutKeeps
<1>3. CASE \E h \in Hosts : FoldResolved(h) \/ FoldCurrent(h) \/ FoldFrozen(h)
  BY <1>3, FoldResolvedKeeps, FoldCurrentKeeps, FoldFrozenKeeps
<1>4. CASE Persist \/ FoldFails
  BY <1>4, EndFoldKeeps
<1>5. CASE \E w \in Writers : StoreTransition(w) \/ \E h \in Hosts : CheckOpen(w, h)
  BY <1>5, StoreTransitionKeeps, CheckOpenKeeps
<1>6. CASE Restart
  BY <1>6, RestartKeeps
<1>7. CASE UNCHANGED vars
  <2>1. /\ UNCHANGED <<running, under, issued, gen, stale, raises, readings, actual>>
        /\ UNCHANGED <<held, axes, manifest, snapshot, connected>>
        /\ UNCHANGED <<open, stored, todo, by, raised, ruled, episode, log, request>>
    BY <1>7 DEF vars, collatorVars, estateVars, axisVars, registryVars, writeVars
  <2>2. Shapes' /\ FoldIsUnderWay' /\ RowsAreStamped'
    BY <2>1 DEF FindingsInv, Shapes, FoldIsUnderWay, Deriving, Backed, RowsAreStamped
  <2> QED
    BY <2>1, <2>2, EvidenceStands, RecordStands DEF FindingsInv
<1> QED
  BY <1>1, <1>2, <1>3, <1>4, <1>5, <1>6, <1>7 DEF Next, Fold

LEMMA FindingsHold == Spec => []FindingsInv
BY FindingsInit, FindingsNext, PTL DEF Spec

(* Whatever sessions, folds, crashes and requests do, in whatever order,   *)
(* the open set and its stored copy hold findings, no fold is under way    *)
(* without a promotion, and no generation outruns the readings.            *)
THEOREM FindingsTypes == Spec => []TypeOK
<1>1. FindingsInv => TypeOK
  <2> SUFFICES ASSUME FindingsInv PROVE TypeOK
    OBVIOUS
  <2>1. gen \in [Hosts -> [Collections -> 0 .. MaxReadings]]
    <3>1. \A h \in Hosts, c \in Collections : gen[h][c] \in 0 .. MaxReadings
      BY FindingsBounds DEF FindingsInv, Shapes, EvidenceInv, ReadingsAreTold
    <3> QED
      BY <3>1 DEF FindingsInv, Shapes
  <2>2. \A i \in DOMAIN log : log[i].action \in {"acknowledge", "unacknowledge", "resolved"}
    <3>1. \A i \in DOMAIN log : log[i] \in Transition
      BY DEF FindingsInv, Shapes
    <3> QED
      BY <3>1 DEF Transition
  <2>3. \A w \in Writers : request[w] # None => request[w].finding \in Hosts
    BY DEF FindingsInv, Shapes, Request, Transition
  <2> QED
    BY <2>1, <2>2, <2>3 DEF TypeOK, FindingsInv, Shapes, FoldIsUnderWay, RowsAreStamped
<1> QED
  BY <1>1, FindingsHold, PTL

(* An acknowledgement that is shown on a later occurrence of its finding   *)
(* was stored after the resolution that should have ended it: a POST that  *)
(* found the finding open (writes.py) and was overtaken.  No restart, no   *)
(* failed fold and no other order of requests carries one over.            *)
THEOREM AcknowledgementsDie == Spec => []AcknowledgementOutlivesOnlyARace
<1>1. FindingsInv => AcknowledgementOutlivesOnlyARace
  <2> SUFFICES ASSUME FindingsInv, NEW h \in Hosts,
                      Acknowledged(h), LastRecord(h).episode # episode[h]
               PROVE  \E i, j \in DOMAIN log :
                        /\ i < j
                        /\ log[j] = LastRecord(h)
                        /\ log[i] = [log[j] EXCEPT !.action = "resolved"]
    BY DEF AcknowledgementOutlivesOnlyARace
  <2> DEFINE j == CHOOSE i \in Records(h) : \A k \in Records(h) : k <= i
  <2>1. \E i \in Records(h) : \A k \in Records(h) : k <= i
    BY DEF FindingsInv, RecordInv, LastWordIsDated, Acknowledged
  <2>2. j \in Records(h) /\ \A k \in Records(h) : k <= j
    BY <2>1
  <2>3. LastRecord(h) = log[j]
    BY DEF LastRecord
  <2> HIDE DEF j
  <2>4. j \in DOMAIN log /\ log[j].finding = h /\ IsLast(j)
    BY <2>2 DEF Records, IsLast
  <2>5. \E i \in DOMAIN log : i < j /\ log[i] = [log[j] EXCEPT !.action = "resolved"]
    BY <2>3, <2>4 DEF FindingsInv, RecordInv, LastWordIsDated, Acknowledged
  <2> QED
    BY <2>3, <2>4, <2>5
<1> QED
  BY <1>1, FindingsHold, PTL

(* A finding leaves the store only behind a resolution on record, wherever *)
(* between its steps a fold is cut short by a crash or a failed write.     *)
THEOREM NothingClosesSilently == Spec => NothingClosesUnobserved
<1> DEFINE A == \A h \in Hosts :
                  stored[h] # None /\ stored'[h] = None =>
                    \E i \in DOMAIN log :
                      log[i] = [finding |-> h, action |-> "resolved",
                                episode |-> episode[h]]
<1>1. ASSUME FindingsInv, [Next]_vars PROVE [A]_vars
  <2>1. stored' = stored \/ stored' = open
    BY <1>1
    DEF Next, Fold, Upgrade, Issue, RefuseManifest, Acquire, Decline, LoseStore, OpenSession, Promote, Cut, FoldResolved,
        FoldCurrent, FoldFrozen, Persist, FoldFails, StoreTransition, CheckOpen, Restart,
        vars, registryVars
  <2>2. A
    BY <1>1, <2>1 DEF FindingsInv, RecordInv, ClosedWasResolved, ResolvedIn
  <2> QED
    BY <2>2
<1> QED
  BY <1>1, FindingsHold, PTL DEF Spec, NothingClosesUnobserved

(* When judge resolves a finding, every collection its contributors name   *)
(* has been read after the reading that raised it and raises it no more,   *)
(* through lost stores, declines, cut and refused sessions and restarts;   *)
(* or another build's rules say otherwise of the rows, or its declaration  *)
(* does not back the opinion that still stands (rollup.py).                *)
THEOREM AbsenceResolvesWhereLooked == Spec => ResolvedOnlyByNewerReading
<1> DEFINE A == \A h \in Hosts : Resolving(h) =>
                  \A p \in open[h].contributors :
                    Reread(h, p[1]) \/ Rejudged(h, p[1]) \/ Unbacked(h, p[1])
<1>1. ASSUME FindingsInv, [Next]_vars PROVE [A]_vars
  <2>1. SUFFICES ASSUME NEW h \in Hosts, Resolving(h), NEW p \in open[h].contributors
                 PROVE  Reread(h, p[1]) \/ Rejudged(h, p[1]) \/ Unbacked(h, p[1])
    OBVIOUS
  <2>2. Len(log) \in Nat /\ log \in Seq(Transition)
    BY <1>1 DEF FindingsInv, Shapes
  <2>3. log' # log
    BY <2>1, <2>2 DEF Resolving
  <2>4. \/ \E k \in Hosts : FoldResolved(k)
        \/ \E w \in Writers : StoreTransition(w)
    BY <1>1, <2>3
    DEF Next, Fold, Upgrade, Issue, RefuseManifest, Acquire, Decline, LoseStore, OpenSession, Promote, Cut,
        FoldCurrent, FoldFrozen, Persist, FoldFails, CheckOpen, Restart, vars, writeVars
  <2>5. \A w \in Writers : ~StoreTransition(w)
    <3>1. SUFFICES ASSUME NEW w \in Writers, StoreTransition(w) PROVE FALSE
      OBVIOUS
    <3>2. log' = Append(log, request[w]) /\ request[w].action # "resolved"
      BY <1>1, <3>1 DEF StoreTransition, FindingsInv, Shapes, Request
    <3>3. Last(log') = request[w]
      BY <1>1, <2>2, <3>1, <3>2 DEF Last, StoreTransition, FindingsInv, Shapes, Request
    <3> QED
      BY <2>1, <3>2, <3>3 DEF Resolving
  <2>6. PICK k \in Hosts : FoldResolved(k)
    BY <2>4, <2>5
  <2>7. k = h
    <3> DEFINE t == [finding |-> k, action |-> "resolved", episode |-> episode[k]]
    <3>1. log' = Append(log, t) /\ k \in todo /\ Verdict(k) # "current"
      BY <2>6 DEF FoldResolved
    <3>2. open[k] # None
      BY <1>1, <3>1, JudgedIsOpen DEF FindingsInv
    <3>3. t \in Transition
      BY <1>1, <3>2 DEF FindingsInv, RecordInv, OpenHasAnEpisode, Shapes, Transition
    <3>4. t.finding = k
      OBVIOUS
    <3> HIDE DEF t
    <3>5. Last(log') = t
      BY <1>1, <3>1, <3>3, AppendedRecord DEF Last, FindingsInv
    <3> QED
      BY <2>1, <3>4, <3>5 DEF Resolving
  <2>8. /\ open[h] \in Finding /\ Deriving(h) = {} /\ Blindness(h, p[1], p[2]) = "none"
    BY <1>1, <2>1, <2>6, <2>7, JudgedIsOpen DEF FindingsInv, FoldResolved, Verdict
  <2>9. /\ snapshot[h] # None /\ p[1] \in DOMAIN snapshot[h]
        /\ snapshot[h][p[1]].generation # 0
    BY <2>8 DEF Blindness
  <2>10. CASE snapshot[h][p[1]].opinion
    BY <2>8, <2>9, <2>10 DEF Deriving, Unbacked, Shown
  <2>11. CASE ~snapshot[h][p[1]].opinion
    <3>1. /\ p[1] \in Collections
          /\ snapshot[h][p[1]].generation \in 0 .. MaxReadings
          /\ snapshot[h][p[1]].actual \in raised[h][p[1]] .. actual[h][p[1]]
          /\ snapshot[h][p[1]].generation > 0
               /\ snapshot[h][p[1]].actual = raised[h][p[1]]
               /\ snapshot[h][p[1]].cites = ruled[h][p[1]] => snapshot[h][p[1]].opinion
      BY <1>1, <2>9 DEF FindingsInv, EvidenceInv, SnapshotIsAReading
    <3>2. raised[h][p[1]] \in Nat /\ actual[h][p[1]] \in Nat
      BY <1>1, <3>1 DEF FindingsInv, Shapes
    <3>3. \/ snapshot[h][p[1]].actual > raised[h][p[1]]
          \/ snapshot[h][p[1]].cites # ruled[h][p[1]]
      BY <2>9, <2>11, <3>1, <3>2, FindingsBounds
    <3> QED
      BY <2>9, <2>11, <3>3 DEF Reread, Rejudged, Shown
  <2> QED
    BY <2>10, <2>11
<1> QED
  BY <1>1, FindingsHold, PTL DEF Spec, ResolvedOnlyByNewerReading
=============================================================================
