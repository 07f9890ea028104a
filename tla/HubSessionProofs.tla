-------------------------- MODULE HubSessionProofs --------------------------
(***************************************************************************)
(* Proofs about the collator's session with its hub, for every set of      *)
(* collections, scopes, contents and builds.                               *)
(*                                                                         *)
(* Nothing about what the hub shows can be proved from the hub alone: the  *)
(* promoted snapshot claims generations, and what a generation held is the *)
(* store's ledger to say.  The inductive invariant therefore carries the   *)
(* authority's own (AuthorityInv), and follows a reading from the          *)
(* statement that read the manifest, through the records received, to the  *)
(* promoted snapshot.  That the store goes on while a session is written   *)
(* is harmless because an applied generation's view never changes again    *)
(* (ViewIsSettled).                                                        *)
(***************************************************************************)
EXTENDS HubSession, BatchAuthorityProofs

(* Where the two ends of the connection are. *)
EndsAgree ==
  /\ pc = "idle" <=> phase \in {"closed", "stream"}
  /\ pc = "sending" <=> phase = "checkpoint"

(* The manifest was read once, and everything visible had been read by     *)
(* then: it shows no generation later than the one the manifest names.     *)
ManifestIsARead ==
  /\ pc \in {"idle", "declaring"} => states = NoEntries
  /\ pc \in {"manifesting", "sending"} => DOMAIN visible \subseteq DOMAIN states
  /\ \A c \in DOMAIN states :
       /\ c \in Collections /\ issuedGen[c] > 0
       /\ states[c].generation \in 0 .. appliedGen[c]
       /\ c \in DOMAIN visible =>
            \E g \in visible[c].generation .. states[c].generation :
              visible[c].objects = ViewAt(c, g)

(* What the receiver holds of an open checkpoint. *)
FragmentIsReal ==
  /\ phase = "checkpoint" => entries = states /\ Named \subseteq held
  /\ phase # "checkpoint" => entries = NoEntries /\ received = NoEntries
  /\ \A c \in DOMAIN received :
       /\ entries[c].generation > 0
       /\ received[c].generation = entries[c].generation
       /\ received[c].declaration = entries[c].declaration
       /\ \E g \in entries[c].generation .. appliedGen[c] :
            received[c].objects = ViewAt(c, g)

VisibleIsReal ==
  /\ VisibleWasApplied
  /\ \A c \in DOMAIN visible :
       c \in Collections /\ issuedGen[c] > 0 /\ visible[c].generation \in Nat

SessionInv ==
  /\ AuthorityInv
  /\ \A c \in Collections : issuedGen[c] <= MaxGen
  /\ TypeOK
  /\ EndsAgree
  /\ ConnectedMeansServing
  /\ ManifestIsARead
  /\ FragmentIsReal
  /\ VisibleIsReal
  /\ VisibleAxesAreHeld

----------------------------------------------------------------------------
(* What a reader of the store sees. *)

(* The latest view is what the objects table serves. *)
LEMMA NewestView ==
  ASSUME AuthorityInv, NEW c \in Collections
  PROVE  objects[c] = ViewAt(c, appliedGen[c])
<1>1. objects[c] \in [Scopes -> Contents]
  BY DEF AuthorityInv, AuthorityTypeOK
<1>2. ASSUME NEW s \in Scopes PROVE objects[c][s] = ViewAt(c, appliedGen[c])[s]
  <2> DEFINE mine == {r \in ledger[c] : r.scope = s /\ r.gen <= appliedGen[c]}
  <2>1. mine = {r \in ledger[c] : r.scope = s}
    BY DEF AuthorityInv, OneReadingPerGeneration
  <2>2. CASE mine = {}
    <3>1. objects[c][s] = Empty
      BY <2>1, <2>2 DEF AuthorityInv, ObjectsAreNewestReading
    <3> QED
      BY <2>2, <3>1 DEF ViewAt, NewestContent
  <2>3. CASE mine # {}
    <3>1. PICK r \in mine : objects[c][s] = r.content /\ \A q \in mine : q.gen <= r.gen
      BY <2>1, <2>3 DEF AuthorityInv, ObjectsAreNewestReading
    <3> DEFINE t == CHOOSE t \in mine : \A q \in mine : q.gen <= t.gen
    <3>2. t \in mine /\ \A q \in mine : q.gen <= t.gen
      BY <3>1
    <3>3. r.gen \in Nat /\ t.gen \in Nat
      BY <3>1, <3>2 DEF AuthorityInv, AuthorityTypeOK, OneReadingPerGeneration
    <3>4. t.gen = r.gen
      BY <3>1, <3>2, <3>3
    <3>5. t = r
      BY <3>1, <3>2, <3>4 DEF AuthorityInv, OneReadingPerGeneration
    <3>6. ViewAt(c, appliedGen[c])[s] = t.content
      BY <2>3 DEF ViewAt, NewestContent
    <3> QED
      BY <3>1, <3>5, <3>6
  <2> QED
    BY <2>2, <2>3
<1>3. ViewAt(c, appliedGen[c]) = [s \in Scopes |-> ViewAt(c, appliedGen[c])[s]]
  BY DEF ViewAt
<1> QED
  BY <1>1, <1>2, <1>3

(* Before anything is applied a reader sees nothing. *)
LEMMA FirstView ==
  ASSUME AuthorityInv, NEW c \in Collections
  PROVE  ViewAt(c, 0) = [s \in Scopes |-> Empty]
<1>1. \A r \in ledger[c] : ~(r.gen <= 0)
  BY DEF AuthorityInv, AuthorityTypeOK, OneReadingPerGeneration
<1>2. \A s \in Scopes : {r \in ledger[c] : r.scope = s /\ r.gen <= 0} = {}
  BY <1>1
<1> QED
  BY <1>2 DEF ViewAt, NewestContent

(* What a generation up to the applied one held never changes again. *)
LEMMA ViewIsSettled ==
  ASSUME AuthorityInv, [AuthorityNext]_avars, NEW c \in Collections
  PROVE  /\ appliedGen[c] <= appliedGen'[c] /\ issuedGen[c] <= issuedGen'[c]
         /\ appliedGen[c] \in Nat /\ appliedGen'[c] \in Nat
         /\ issuedGen[c] \in Nat /\ issuedGen'[c] \in Nat
         /\ \A g \in 0 .. appliedGen[c] : ViewAt(c, g)' = ViewAt(c, g)
<1>1. AuthorityInv'
  BY NextInv
<1>2. /\ appliedGen[c] \in Nat /\ appliedGen'[c] \in Nat
      /\ issuedGen[c] \in Nat /\ issuedGen'[c] \in Nat
  BY <1>1 DEF AuthorityInv, AuthorityTypeOK
<1> DEFINE Grows ==
      /\ appliedGen[c] <= appliedGen'[c] /\ issuedGen[c] <= issuedGen'[c]
      /\ \/ ledger'[c] = ledger[c]
         \/ \E r : ledger'[c] = ledger[c] \cup {r} /\ r.gen \in Nat /\ r.gen > appliedGen[c]
<1>3. Grows
  <2>1. CASE AnyIssue
    <3>1. PICK names \in SUBSET Collections, d \in Decls : IssueGenerations(names, d)
      BY <2>1 DEF AnyIssue
    <3>2. issuedGen'[c] = issuedGen[c] + IF c \in names THEN 1 ELSE 0
      BY <3>1 DEF IssueGenerations
    <3>3. issuedGen[c] <= issuedGen'[c]
      BY <1>2, <3>2
    <3>4. appliedGen' = appliedGen /\ ledger' = ledger
      BY <3>1 DEF IssueGenerations, content
    <3> QED
      BY <1>2, <3>3, <3>4
  <2>2. ASSUME NEW d \in Collections, NEW r \in Reading,
               Outcome(d, r) = "applied", LandReading(d, r)
        PROVE  Grows
    <3>1. r.gen \in Nat /\ r.gen > appliedGen[d]
      BY <2>2, AdmittedIsNewer DEF AuthorityInv
    <3>2. CASE d # c
      BY <1>2, <2>2, <3>2 DEF LandReading, StampReading, AuthorityInv, AuthorityTypeOK
    <3>3. CASE d = c
      BY <1>2, <2>2, <3>1, <3>3
      DEF LandReading, StampReading, AuthorityInv, AuthorityTypeOK
    <3> QED
      BY <3>2, <3>3
  <2>3. CASE AnyMark
    BY <1>2, <2>3 DEF AnyMark, MarkStaleWith, RecordAbsent, RecordTimensSkew, content
  <2>4. CASE UNCHANGED avars
    BY <1>2, <2>4 DEF avars, content
  <2> QED
    BY <2>1, <2>2, <2>3, <2>4 DEF AuthorityNext, AnyApply, ApplyCommitWith
<1>4. ASSUME NEW g \in 0 .. appliedGen[c] PROVE ViewAt(c, g)' = ViewAt(c, g)
  <2>1. \A s \in Scopes : {r \in ledger'[c] : r.scope = s /\ r.gen <= g}
                           = {r \in ledger[c] : r.scope = s /\ r.gen <= g}
    BY <1>2, <1>3
  <2> QED
    BY <2>1 DEF ViewAt
<1> QED
  BY <1>2, <1>3, <1>4

----------------------------------------------------------------------------
(* The initial states, and the host going on beside the session. *)

LEMMA NothingIsEmpty == DOMAIN NoEntries = {}
BY DEF NoEntries

LEMMA SessionInit == Init => SessionInv
<1> SUFFICES ASSUME Init PROVE SessionInv
  OBVIOUS
<1>1. AuthorityInv
  BY InitInv DEF Init
<1>2. \A c \in Collections : issuedGen[c] <= MaxGen
  BY MaxGenAssumption DEF Init, AuthorityInit
<1>3. TypeOK
  BY NothingIsEmpty DEF Init, TypeOK, Refusals
<1>4. EndsAgree /\ ConnectedMeansServing
  BY DEF Init, EndsAgree, ConnectedMeansServing
<1>5. ManifestIsARead /\ FragmentIsReal
  BY NothingIsEmpty DEF Init, ManifestIsARead, FragmentIsReal
<1>6. VisibleIsReal /\ VisibleAxesAreHeld
  BY NothingIsEmpty DEF Init, VisibleIsReal, VisibleWasApplied, VisibleAxesAreHeld
<1> QED
  BY <1>1, <1>2, <1>3, <1>4, <1>5, <1>6 DEF SessionInv

(* Whatever acquisition does beside a session is something a caller of the *)
(* batch authority may do.                                                 *)
StoreGoesOn ==
  /\ [AuthorityNext]_avars
  /\ \A c \in Collections : issuedGen'[c] <= MaxGen
  /\ running' \in [Collections -> Decls]
  /\ UNCHANGED <<pc, toAsk, states, toSend, sent, hubVars>>

LEMMA StoreStep == ASSUME SessionInv, HostGoesOn PROVE StoreGoesOn
<1> USE DEF SessionInv, TypeOK
<1>0. \A c \in Collections : issuedGen[c] \in Nat /\ running[c] \in Decls
  BY DEF AuthorityInv, AuthorityTypeOK
<1>1. ASSUME NEW c \in Collections, AcquireIssue(c)
      PROVE  AnyIssue /\ \A d \in Collections : issuedGen'[d] <= MaxGen
  <2>1. IssueGenerations({c}, running[c])
    BY <1>1 DEF AcquireIssue
  <2>2. \A d \in Collections : issuedGen'[d] = issuedGen[d] + IF d \in {c} THEN 1 ELSE 0
    BY <2>1 DEF IssueGenerations
  <2>3. issuedGen[c] < MaxGen
    BY <2>1 DEF IssueGenerations
  <2>4. \A d \in Collections : issuedGen'[d] <= MaxGen
    BY <1>0, <2>2, <2>3, MaxGenAssumption
  <2> QED
    BY <1>0, <2>1, <2>4 DEF AnyIssue
<1>2. ASSUME NEW c \in Collections, AcquireApply(c)
      PROVE  AnyApply /\ issuedGen' = issuedGen
  <2>1. PICK x \in Contents, s \in Scopes :
          ApplyCommitWith(c, [gen |-> issuedGen[c], scope |-> s,
                              content |-> x, kind |-> "commit",
                              boot |-> CHOOSE b \in Boots : TRUE,
                              declaration |-> running[c],
                              skew |-> CHOOSE k \in Skews : TRUE])
    BY <1>2 DEF AcquireApply
  <2> DEFINE r == [gen |-> issuedGen[c], scope |-> s, content |-> x, kind |-> "commit",
                   boot |-> CHOOSE b \in Boots : TRUE, declaration |-> running[c],
                   skew |-> CHOOSE k \in Skews : TRUE]
  <2>2. (CHOOSE b \in Boots : TRUE) \in Boots /\ (CHOOSE k \in Skews : TRUE) \in Skews
    BY BeginAssumption
  <2>3. issuedGen[c] \in 0 .. MaxGen + 1
    BY <1>0, MaxGenAssumption
  <2>4. r \in Reading
    BY <1>0, <2>2, <2>3 DEF Reading, ReadingRecord
  <2>5. ApplyCommitWith(c, r)
    BY <2>1
  <2>6. issuedGen' = issuedGen
    BY <2>5 DEF ApplyCommitWith, LandReading, avars
  <2> QED
    BY <2>4, <2>5, <2>6 DEF AnyApply
<1>3. ASSUME NEW c \in Collections, AcquireDeclines(c)
      PROVE  AnyMark /\ issuedGen' = issuedGen
  BY <1>3 DEF AcquireDeclines, AnyMark, MarkStaleWith
<1>4. ASSUME NEW c \in Collections, Upgrade(c)
      PROVE  UNCHANGED avars /\ issuedGen' = issuedGen
             /\ running' \in [Collections -> Decls]
  BY <1>4 DEF Upgrade, avars
<1>5. UNCHANGED <<pc, toAsk, states, toSend, sent, hubVars>>
  BY DEF HostGoesOn, AcquireIssue, AcquireApply, AcquireDeclines, Upgrade, collatorVars
<1>6. running' \in [Collections -> Decls]
  BY <1>4 DEF HostGoesOn, AcquireIssue, AcquireApply, AcquireDeclines, collatorVars
<1> QED
  BY <1>1, <1>2, <1>3, <1>4, <1>5, <1>6 DEF HostGoesOn, AuthorityNext, StoreGoesOn

(* Any other caller of the batch authority: it may issue generations for   *)
(* several collections at once, under any declaration, and land a reading  *)
(* of any generation, scope, boot and skew, or one twice, or decline.      *)
AnyCaller == AuthorityNext /\ UNCHANGED <<collatorVars, hubVars>>

LEMMA AnyCallerStep == ASSUME SessionInv, AnyCaller PROVE StoreGoesOn
<1> USE DEF SessionInv
<1>1. ASSUME AnyIssue PROVE \A c \in Collections : issuedGen'[c] <= MaxGen
  <2>1. PICK names \in SUBSET Collections, d \in Decls : IssueGenerations(names, d)
    BY <1>1 DEF AnyIssue
  <2>2. \A c \in Collections :
          /\ issuedGen[c] \in Nat
          /\ issuedGen'[c] = issuedGen[c] + IF c \in names THEN 1 ELSE 0
    BY <2>1 DEF IssueGenerations, AuthorityInv, AuthorityTypeOK
  <2>3. \A c \in names : issuedGen[c] < MaxGen
    BY <2>1 DEF IssueGenerations
  <2> QED
    BY <2>2, <2>3, MaxGenAssumption
<1>2. ASSUME AnyApply \/ AnyMark PROVE issuedGen' = issuedGen
  BY <1>2 DEF AnyApply, ApplyCommitWith, LandReading, avars,
              AnyMark, MarkStaleWith, RecordAbsent, RecordTimensSkew
<1>3. running' \in [Collections -> Decls]
      /\ UNCHANGED <<pc, toAsk, states, toSend, sent, hubVars>>
  BY DEF AnyCaller, collatorVars, TypeOK
<1> QED
  BY <1>1, <1>2, <1>3 DEF AnyCaller, AuthorityNext, StoreGoesOn

(* A reading applied beside a session disturbs nothing the session holds.  *)
LEMMA StoreKeeps == ASSUME SessionInv, StoreGoesOn PROVE SessionInv'
<1> USE DEF SessionInv
<1>1. /\ [AuthorityNext]_avars
      /\ (\A c \in Collections : issuedGen[c] <= MaxGen)'
      /\ running' \in [Collections -> Decls]
      /\ UNCHANGED <<pc, toAsk, states, toSend, sent, hubVars>>
  BY DEF StoreGoesOn
<1>2. AuthorityInv'
  BY <1>1, NextInv
<1>3. \A c \in Collections :
        /\ appliedGen[c] <= appliedGen'[c] /\ issuedGen[c] <= issuedGen'[c]
        /\ appliedGen[c] \in Nat /\ appliedGen'[c] \in Nat
        /\ issuedGen[c] \in Nat /\ issuedGen'[c] \in Nat
        /\ \A g \in 0 .. appliedGen[c] : ViewAt(c, g)' = ViewAt(c, g)
  BY <1>1, ViewIsSettled
<1>4. TypeOK' /\ EndsAgree' /\ ConnectedMeansServing' /\ VisibleAxesAreHeld'
  BY <1>1 DEF TypeOK, EndsAgree, ConnectedMeansServing, VisibleAxesAreHeld, hubVars
<1>5. ManifestIsARead'
  <2>1. UNCHANGED <<pc, states, visible>>
    BY <1>1 DEF hubVars
  <2>2. ASSUME NEW c \in DOMAIN states
        PROVE  /\ c \in Collections /\ issuedGen'[c] > 0
               /\ states[c].generation \in 0 .. appliedGen'[c]
               /\ c \in DOMAIN visible =>
                    \E g \in visible[c].generation .. states[c].generation :
                      visible[c].objects = ViewAt(c, g)'
    <3>1. /\ c \in Collections /\ issuedGen[c] > 0
          /\ states[c].generation \in 0 .. appliedGen[c]
      BY DEF ManifestIsARead
    <3>2. ASSUME c \in DOMAIN visible
          PROVE  \E g \in visible[c].generation .. states[c].generation :
                   visible[c].objects = ViewAt(c, g)'
      <4>1. PICK g \in visible[c].generation .. states[c].generation :
              visible[c].objects = ViewAt(c, g)
        BY <3>2 DEF ManifestIsARead
      <4>2. visible[c].generation \in Nat
        BY <3>2 DEF VisibleIsReal
      <4>3. g \in 0 .. appliedGen[c]
        BY <1>3, <3>1, <4>2
      <4> QED
        BY <1>3, <3>1, <4>1, <4>3
    <3> QED
      BY <1>3, <3>1, <3>2
  <2> QED
    BY <2>1, <2>2 DEF ManifestIsARead
<1>6. FragmentIsReal'
  <2>1. UNCHANGED <<phase, entries, received, held, states>>
    BY <1>1 DEF hubVars
  <2>2. (/\ phase = "checkpoint" => entries = states /\ Named \subseteq held
         /\ phase # "checkpoint" => entries = NoEntries /\ received = NoEntries)'
    BY <2>1 DEF FragmentIsReal, Named
  <2>3. ASSUME NEW c \in DOMAIN received
        PROVE  \E g \in entries[c].generation .. appliedGen'[c] :
                 received[c].objects = ViewAt(c, g)'
    <3>1. c \in DOMAIN entries /\ entries = states
      BY NothingIsEmpty DEF FragmentIsReal, TypeOK
    <3>2. c \in Collections /\ entries[c].generation \in 0 .. appliedGen[c]
      BY <3>1 DEF ManifestIsARead
    <3>3. PICK g \in entries[c].generation .. appliedGen[c] :
            received[c].objects = ViewAt(c, g)
      BY DEF FragmentIsReal
    <3>4. g \in 0 .. appliedGen[c] /\ g \in entries[c].generation .. appliedGen'[c]
      BY <1>3, <3>2
    <3> QED
      BY <1>3, <3>2, <3>3, <3>4
  <2> QED
    BY <2>1, <2>2, <2>3 DEF FragmentIsReal
<1>7. VisibleIsReal'
  <2>1. visible' = visible
    BY <1>1 DEF hubVars
  <2>2. ASSUME NEW c \in DOMAIN visible
        PROVE  /\ c \in Collections /\ issuedGen'[c] > 0 /\ visible[c].generation \in Nat
               /\ \E g \in visible[c].generation .. appliedGen'[c] :
                    /\ visible[c].objects = ViewAt(c, g)'
                    /\ visible[c].generation = 0 => g = 0
    <3>1. c \in Collections /\ issuedGen[c] > 0 /\ visible[c].generation \in Nat
      BY DEF VisibleIsReal
    <3>2. PICK g \in visible[c].generation .. appliedGen[c] :
            /\ visible[c].objects = ViewAt(c, g)
            /\ visible[c].generation = 0 => g = 0
      BY DEF VisibleIsReal, VisibleWasApplied
    <3>3. g \in 0 .. appliedGen[c] /\ g \in visible[c].generation .. appliedGen'[c]
      BY <1>3, <3>1
    <3> QED
      BY <1>3, <3>1, <3>2, <3>3
  <2> QED
    BY <2>1, <2>2 DEF VisibleIsReal, VisibleWasApplied
<1> QED
  BY <1>1, <1>2, <1>4, <1>5, <1>6, <1>7

----------------------------------------------------------------------------
(* The session's own steps, which leave the store alone. *)

LEMMA StoreRests ==
  ASSUME SessionInv, UNCHANGED avars
  PROVE  /\ AuthorityInv' /\ (\A c \in Collections : issuedGen[c] <= MaxGen)'
         /\ appliedGen' = appliedGen /\ issuedGen' = issuedGen /\ objects' = objects
         /\ \A c, g : ViewAt(c, g)' = ViewAt(c, g)
<1>1. AuthorityInv'
  BY NextInv DEF SessionInv
<1>2. UNCHANGED <<appliedGen, issuedGen, objects, ledger>>
  BY DEF avars, content
<1> QED
  BY <1>1, <1>2 DEF SessionInv, ViewAt

(* What is visible survives whatever leaves it alone. *)
LEMMA VisibleKeeps ==
  ASSUME SessionInv, UNCHANGED avars, visible' = visible, held \subseteq held'
  PROVE  VisibleIsReal' /\ VisibleAxesAreHeld'
BY StoreRests DEF SessionInv, VisibleIsReal, VisibleWasApplied, VisibleAxesAreHeld

(* However a session ends, nothing of it is left. *)
LEMMA ClosingKeeps ==
  ASSUME SessionInv, UNCHANGED <<avars, running, visible>>, CloseHub,
         pc' = "idle", toAsk' \subseteq Collections, states' = NoEntries, toSend' = {},
         held \subseteq held', held' \subseteq Decls, refusal' \in Refusals
  PROVE  SessionInv'
<1>1. TypeOK'
  BY NothingIsEmpty DEF SessionInv, TypeOK, CloseHub
<1>2. EndsAgree' /\ ConnectedMeansServing'
  BY DEF SessionInv, EndsAgree, ConnectedMeansServing, CloseHub, TypeOK
<1>3. ManifestIsARead' /\ FragmentIsReal'
  BY NothingIsEmpty DEF ManifestIsARead, FragmentIsReal, CloseHub
<1> QED
  BY <1>1, <1>2, <1>3, StoreRests, VisibleKeeps DEF SessionInv

(* Dial to SkipDeclaration: before the manifest is read there is nothing   *)
(* of a checkpoint at either end.                                          *)
LEMMA DeclaringKeeps ==
  ASSUME SessionInv,
         Dial \/ \E c \in Collections : SendDeclaration(c) \/ SkipDeclaration(c)
  PROVE  SessionInv'
<1> USE DEF Dial, SendDeclaration, SkipDeclaration
<1>1. /\ UNCHANGED <<avars, running, states, toSend, held, entries, received, visible,
                     connected>>
      /\ pc' = "declaring" /\ phase' = "declarations"
      /\ ~connected /\ phase # "checkpoint"
      /\ pc \in {"idle", "declaring"}
  BY DEF SessionInv, EndsAgree, ConnectedMeansServing, hubVars, TypeOK
<1>2. TypeOK'
  <2>1. toAsk' \subseteq Collections /\ pending' \subseteq Decls /\ refusal' \in Refusals
    BY DEF SessionInv, TypeOK, Refusals, hubVars
  <2> QED
    BY <1>1, <2>1 DEF SessionInv, TypeOK
<1>3. EndsAgree' /\ ConnectedMeansServing'
  BY <1>1 DEF EndsAgree, ConnectedMeansServing
<1>4. ManifestIsARead' /\ FragmentIsReal'
  BY <1>1, NothingIsEmpty DEF SessionInv, ManifestIsARead, FragmentIsReal
<1> QED
  BY <1>1, <1>2, <1>3, <1>4, StoreRests, VisibleKeeps DEF SessionInv

(* Collections(): one statement reads every row, so the manifest is at     *)
(* least as new as anything a session ever promoted.                       *)
LEMMA ReadCollectionsKeeps == ASSUME SessionInv, ReadCollections PROVE SessionInv'
<1>1. /\ UNCHANGED <<avars, running, toAsk, toSend, phase, pending, held, entries,
                     received, visible, connected, refusal>>
      /\ pc = "declaring" /\ pc' = "manifesting"
  BY DEF ReadCollections, hubVars
<1>2. /\ DOMAIN states' = {c \in Collections : issuedGen[c] > 0}
      /\ \A c \in DOMAIN states' : states'[c].generation = appliedGen[c]
  BY DEF ReadCollections
<1>3. states = NoEntries
  BY <1>1 DEF SessionInv, ManifestIsARead
<1>4. \A c \in Collections : appliedGen[c] \in Nat /\ issuedGen[c] \in Nat
  BY DEF SessionInv, AuthorityInv, AuthorityTypeOK
<1>5. \A c \in DOMAIN visible :
        /\ c \in Collections /\ issuedGen[c] > 0
        /\ \E g \in visible[c].generation .. appliedGen[c] :
             visible[c].objects = ViewAt(c, g)
  BY <1>4 DEF SessionInv, VisibleIsReal, VisibleWasApplied
<1>6. TypeOK'
  BY <1>1, <1>3, NothingIsEmpty DEF SessionInv, TypeOK
<1>7. EndsAgree' /\ ConnectedMeansServing'
  BY <1>1 DEF SessionInv, EndsAgree, ConnectedMeansServing
<1>8. ManifestIsARead'
  BY <1>1, <1>2, <1>4, <1>5, StoreRests DEF ManifestIsARead
<1>9. FragmentIsReal'
  BY <1>1, NothingIsEmpty DEF SessionInv, EndsAgree, FragmentIsReal
<1> QED
  BY <1>1, <1>6, <1>7, <1>8, <1>9, StoreRests, VisibleKeeps DEF SessionInv

(* _open_checkpoint, when it holds every digest the manifest names. *)
LEMMA SendManifestKeeps == ASSUME SessionInv, SendManifest PROVE SessionInv'
<1>1. UNCHANGED <<avars, running, visible>> /\ held' = held \cup pending
      /\ held' \subseteq Decls
  BY DEF SendManifest, SessionInv, TypeOK
<1>2. CASE ~(Named \subseteq held \cup pending)
  <2>1. CloseCollator /\ CloseHub /\ refusal' \in Refusals
    BY <1>2 DEF SendManifest, Refusals
  <2> QED
    BY <1>1, <2>1, ClosingKeeps DEF CloseCollator
<1>3. CASE Named \subseteq held \cup pending
  <2>1. /\ pc = "manifesting" /\ pc' = "sending" /\ toSend' = Applied
        /\ phase' = "checkpoint" /\ connected' = TRUE
        /\ pending' = {} /\ entries' = states /\ received' = NoEntries
        /\ UNCHANGED <<toAsk, states, refusal>>
    BY <1>3 DEF SendManifest
  <2>2. TypeOK'
    BY <1>1, <2>1, NothingIsEmpty DEF SessionInv, TypeOK, Applied
  <2>3. EndsAgree' /\ ConnectedMeansServing'
    BY <2>1 DEF EndsAgree, ConnectedMeansServing
  <2>4. ManifestIsARead'
    BY <1>1, <2>1, StoreRests DEF SessionInv, ManifestIsARead
  <2>5. FragmentIsReal'
    BY <1>1, <1>3, <2>1, NothingIsEmpty DEF FragmentIsReal, Named
  <2> QED
    BY <1>1, <2>2, <2>3, <2>4, <2>5, StoreRests, VisibleKeeps DEF SessionInv
<1> QED
  BY <1>2, <1>3

LEMMA RefuseKeeps ==
  ASSUME SessionInv, NEW why \in Refusals, Refuse(why) PROVE SessionInv'
BY ClosingKeeps DEF Refuse, CloseCollator, SessionInv, TypeOK

(* Receiver._state takes a record: the objects are read now, and what is   *)
(* read now is the view of a generation no older than the manifest's.      *)
LEMMA SendStateKeeps ==
  ASSUME SessionInv, NEW c \in Collections, SendState(c) PROVE SessionInv'
<1> DEFINE os == objects[c]
           why == StateRefusal(c, states[c].generation, os)
<1>1. CASE why # "none" /\ Refuse(why)
  <2>1. why \in Refusals
    BY DEF StateRefusal, Refusals
  <2> QED
    BY <1>1, <2>1, RefuseKeeps
<1>2. CASE why = "none"
  <2>1. /\ pc = "sending" /\ c \in toSend
        /\ toSend' = toSend \ {c}
        /\ received' = [n \in DOMAIN received \cup {c} |->
                          IF n = c THEN Snapshot(c, os) ELSE received[n]]
        /\ UNCHANGED <<avars, running, pc, toAsk, states, phase, pending,
                       held, entries, visible, connected, refusal>>
    BY <1>2 DEF SendState
  <2>2. c \in DOMAIN entries /\ entries[c].generation # 0
    BY <1>2 DEF StateRefusal
  <2>3. entries = states
    BY <2>1 DEF SessionInv, EndsAgree, FragmentIsReal
  <2>4. TypeOK'
    BY <2>1, <2>2 DEF SessionInv, TypeOK
  <2>5. EndsAgree' /\ ConnectedMeansServing'
    BY <2>1 DEF SessionInv, EndsAgree, ConnectedMeansServing
  <2>6. ManifestIsARead'
    BY <2>1, StoreRests DEF SessionInv, ManifestIsARead
  <2>7. FragmentIsReal'
    <3>1. (/\ phase = "checkpoint" => entries = states /\ Named \subseteq held
           /\ phase # "checkpoint" => entries = NoEntries /\ received = NoEntries)'
      BY <2>1 DEF SessionInv, EndsAgree, FragmentIsReal, Named
    <3>2. \A n \in DOMAIN received :
            /\ entries[n].generation > 0
            /\ received[n].generation = entries[n].generation
            /\ received[n].declaration = entries[n].declaration
            /\ \E g \in entries[n].generation .. appliedGen[n] :
                 received[n].objects = ViewAt(n, g)
      BY DEF SessionInv, FragmentIsReal
    <3>3. /\ entries[c].generation > 0
          /\ entries[c].generation \in 0 .. appliedGen[c] /\ appliedGen[c] \in Nat
      BY <2>2, <2>3 DEF SessionInv, ManifestIsARead, AuthorityInv, AuthorityTypeOK
    <3>4. os = ViewAt(c, appliedGen[c])
      BY NewestView DEF SessionInv
    <3>5. appliedGen[c] \in entries[c].generation .. appliedGen[c]
      BY <3>3
    <3>6. /\ Snapshot(c, os).generation = entries[c].generation
          /\ Snapshot(c, os).declaration = entries[c].declaration
          /\ Snapshot(c, os).objects = os
      BY DEF Snapshot
    <3>7. ASSUME NEW n \in DOMAIN received'
          PROVE  /\ entries[n].generation > 0
                 /\ received'[n].generation = entries[n].generation
                 /\ received'[n].declaration = entries[n].declaration
                 /\ \E g \in entries[n].generation .. appliedGen[n] :
                      received'[n].objects = ViewAt(n, g)
      <4>1. CASE n = c
        BY <2>1, <3>3, <3>4, <3>5, <3>6, <4>1
      <4>2. CASE n # c
        BY <2>1, <3>2, <4>2
      <4> QED
        BY <4>1, <4>2
    <3> QED
      BY <2>1, <3>1, <3>7, StoreRests DEF FragmentIsReal
  <2> QED
    BY <2>1, <2>4, <2>5, <2>6, <2>7, StoreRests, VisibleKeeps DEF SessionInv
<1> QED
  BY <1>1, <1>2 DEF SendState

(* What Receiver._terminal lets through is the manifest, every applied     *)
(* collection of it with the objects of a generation it had reached.       *)
LEMMA Promoted ==
  ASSUME SessionInv, pc = "sending", TerminalRefusal = "none", UNCHANGED avars,
         held' = held,
         visible' = [c \in DOMAIN entries |->
                       IF c \in DOMAIN received THEN received[c] ELSE NeverApplied(c)]
  PROVE  /\ VisibleIsReal' /\ VisibleAxesAreHeld'
         /\ DOMAIN visible' = DOMAIN states
         /\ \A c \in DOMAIN states :
              /\ visible'[c].generation = states[c].generation
              /\ \E h \in visible'[c].generation .. appliedGen[c] :
                   visible'[c].objects = ViewAt(c, h)
<1>1. entries = states /\ Named \subseteq held
  BY DEF SessionInv, EndsAgree, FragmentIsReal
<1>2. ASSUME NEW c \in DOMAIN states
      PROVE  /\ c \in Collections /\ issuedGen[c] > 0
             /\ visible'[c].generation = states[c].generation
             /\ states[c].generation \in Nat
             /\ visible'[c].declaration \in held
             /\ \E g \in visible'[c].generation .. appliedGen[c] :
                  /\ visible'[c].objects = ViewAt(c, g)
                  /\ visible'[c].generation = 0 => g = 0
  <2>1. /\ c \in Collections /\ issuedGen[c] > 0 /\ appliedGen[c] \in Nat
        /\ states[c].generation \in 0 .. appliedGen[c]
        /\ states[c].declaration \in held
    BY <1>1 DEF SessionInv, ManifestIsARead, AuthorityInv, AuthorityTypeOK, Named
  <2>2. CASE c \in DOMAIN received
    <3>1. visible'[c] = received[c]
      BY <1>1, <2>2
    <3>2. /\ states[c].generation > 0
          /\ received[c].generation = states[c].generation
          /\ received[c].declaration = states[c].declaration
          /\ \E g \in states[c].generation .. appliedGen[c] :
               received[c].objects = ViewAt(c, g)
      BY <1>1, <2>2 DEF SessionInv, FragmentIsReal
    <3> QED
      BY <2>1, <3>1, <3>2
  <2>3. CASE c \notin DOMAIN received
    <3>1. ~(states[c].generation > 0)
      BY <1>1, <2>3 DEF TerminalRefusal
    <3>2. states[c].generation = 0
      BY <2>1, <3>1
    <3>3. /\ visible'[c].generation = 0
          /\ visible'[c].declaration = states[c].declaration
          /\ visible'[c].objects = [s \in Scopes |-> Empty]
      BY <1>1, <2>3 DEF NeverApplied
    <3>4. visible'[c].objects = ViewAt(c, 0)
      BY <2>1, <3>3, FirstView DEF SessionInv
    <3> QED
      BY <2>1, <3>2, <3>3, <3>4
  <2> QED
    BY <2>2, <2>3
<1>3. DOMAIN visible' = DOMAIN states
  BY <1>1
<1>4. VisibleIsReal' /\ VisibleAxesAreHeld'
  BY <1>2, <1>3, StoreRests DEF VisibleIsReal, VisibleWasApplied, VisibleAxesAreHeld
<1> QED
  BY <1>2, <1>3, <1>4

LEMMA SendTerminalKeeps == ASSUME SessionInv, SendTerminal PROVE SessionInv'
<1>1. CASE TerminalRefusal # "none" /\ Refuse(TerminalRefusal)
  BY <1>1, RefuseKeeps DEF TerminalRefusal, Refusals
<1>2. CASE TerminalRefusal = "none"
  <2>1. /\ pc = "sending" /\ UNCHANGED <<avars, running, pending, held, refusal>>
        /\ visible' = [c \in DOMAIN entries |->
                         IF c \in DOMAIN received THEN received[c] ELSE NeverApplied(c)]
        /\ phase' = "stream" /\ connected' = TRUE
        /\ entries' = NoEntries /\ received' = NoEntries
        /\ pc' = "idle" /\ toAsk' = {} /\ states' = NoEntries /\ toSend' = {}
    BY <1>2 DEF SendTerminal, CloseCollator
  <2>2. VisibleIsReal' /\ VisibleAxesAreHeld'
    BY <1>2, <2>1, Promoted
  <2>3. TypeOK'
    BY <2>1, NothingIsEmpty DEF SessionInv, TypeOK
  <2>4. EndsAgree' /\ ConnectedMeansServing' /\ ManifestIsARead' /\ FragmentIsReal'
    BY <2>1, NothingIsEmpty
    DEF EndsAgree, ConnectedMeansServing, ManifestIsARead, FragmentIsReal
  <2> QED
    BY <2>1, <2>2, <2>3, <2>4, StoreRests DEF SessionInv
<1> QED
  BY <1>1, <1>2 DEF SendTerminal

(* The sessions that end without a record that was refused. *)
LEMMA EndsKeep ==
  ASSUME SessionInv, Cut \/ NothingDeclared \/ NothingToCheckpoint \/ EndOfStream
  PROVE  SessionInv'
<1>1. CASE Cut \/ NothingDeclared \/ NothingToCheckpoint
  <2>1. CloseCollator /\ CloseHub /\ UNCHANGED <<avars, running, held, visible, refusal>>
    BY <1>1 DEF Cut, NothingDeclared, NothingToCheckpoint
  <2>2. held \subseteq Decls /\ refusal \in Refusals
    BY DEF SessionInv, TypeOK
  <2> QED
    BY <2>1, <2>2, ClosingKeeps DEF CloseCollator
<1>2. CASE EndOfStream
  <2>1. pc = "idle" /\ states = NoEntries /\ toSend = {} /\ toAsk \subseteq Collections
    BY <1>2, NothingIsEmpty DEF EndOfStream, SessionInv, EndsAgree, ManifestIsARead, TypeOK
  <2> QED
    BY <1>2, <2>1, ClosingKeeps DEF EndOfStream, collatorVars, SessionInv, TypeOK
<1> QED
  BY <1>1, <1>2

LEMMA HubRestartKeeps == ASSUME SessionInv, HubRestart PROVE SessionInv'
<1>1. TypeOK' /\ EndsAgree' /\ ConnectedMeansServing'
  BY NothingIsEmpty
  DEF HubRestart, CloseCollator, SessionInv, TypeOK, Refusals, EndsAgree, ConnectedMeansServing
<1>2. ManifestIsARead' /\ FragmentIsReal'
  BY NothingIsEmpty DEF HubRestart, CloseCollator, ManifestIsARead, FragmentIsReal
<1>3. VisibleIsReal' /\ VisibleAxesAreHeld'
  BY NothingIsEmpty DEF HubRestart, VisibleIsReal, VisibleWasApplied, VisibleAxesAreHeld
<1> QED
  BY <1>1, <1>2, <1>3, StoreRests DEF HubRestart, SessionInv

LEMMA SessionStep == SessionInv /\ [Next \/ AnyCaller]_vars => SessionInv'
<1> SUFFICES ASSUME SessionInv, [Next \/ AnyCaller]_vars PROVE SessionInv'
  OBVIOUS
<1>1. CASE HostGoesOn \/ AnyCaller
  BY <1>1, StoreStep, AnyCallerStep, StoreKeeps
<1>2. CASE WriteSession
  BY <1>2, DeclaringKeeps, ReadCollectionsKeeps, SendManifestKeeps, SendStateKeeps,
     SendTerminalKeeps, EndsKeep DEF WriteSession
<1>3. CASE Cut \/ HubRestart
  BY <1>3, EndsKeep, HubRestartKeeps
<1>4. CASE UNCHANGED vars
  <2>1. UNCHANGED <<avars, running, pc, toAsk, states, toSend, phase, pending, held,
                    entries, received, visible, connected, refusal>>
    BY <1>4 DEF vars, collatorVars, hubVars
  <2>2. TypeOK' /\ EndsAgree' /\ ConnectedMeansServing'
    BY <2>1 DEF SessionInv, TypeOK, EndsAgree, ConnectedMeansServing
  <2>3. ManifestIsARead' /\ FragmentIsReal'
    BY <2>1, StoreRests DEF SessionInv, ManifestIsARead, FragmentIsReal, Named
  <2> QED
    BY <2>1, <2>2, <2>3, StoreRests, VisibleKeeps DEF SessionInv
<1> QED
  BY <1>1, <1>2, <1>3, <1>4 DEF Next

----------------------------------------------------------------------------
(* Theorems. *)

(* WriteSession and the hub's Session keep their types and the hub's       *)
(* fragment within the manifest, whatever ends a session and whenever.     *)
THEOREM SessionTypes == Spec => []TypeOK
<1>1. SessionInv => TypeOK
  BY DEF SessionInv
<1> QED
  BY SessionInit, SessionStep, <1>1, PTL DEF Spec

(* serve's finally: no refusal, cut or restart leaves a host shown as      *)
(* connected that no session is serving.                                   *)
THEOREM OnlyTheServedAreConnected == Spec => []ConnectedMeansServing
<1>1. SessionInv => ConnectedMeansServing
  BY DEF SessionInv
<1> QED
  BY SessionInit, SessionStep, <1>1, PTL DEF Spec

(* Estate.promote shows whole checkpoints only: every collection as the    *)
(* store served it at the generation it claims or at a later one, however  *)
(* acquisition, cuts and refusals fall.                                    *)
THEOREM WholeSnapshotsOnly == Spec => []VisibleWasApplied
<1>1. SessionInv => VisibleWasApplied
  BY DEF SessionInv, VisibleIsReal
<1> QED
  BY SessionInit, SessionStep, <1>1, PTL DEF Spec

(* _open_checkpoint admits no manifest it cannot read, so the hub always   *)
(* holds the declarations of what it shows.                                *)
THEOREM AxesAreAlwaysHeld == Spec => []VisibleAxesAreHeld
<1>1. SessionInv => VisibleAxesAreHeld
  BY DEF SessionInv
<1> QED
  BY SessionInit, SessionStep, <1>1, PTL DEF Spec

(* Only a terminal that the hub takes, or a restart, changes what it shows. *)
LEMMA VisibleChanges ==
  ASSUME [Next \/ AnyCaller]_vars
  PROVE  \/ visible' = visible \/ visible' = NoEntries
         \/ SendTerminal /\ TerminalRefusal = "none"
<1>1. HostGoesOn \/ AnyCaller => visible' = visible
  BY DEF HostGoesOn, AcquireIssue, AcquireApply, AcquireDeclines, Upgrade, AnyCaller, hubVars
<1>2. WriteSession /\ ~SendTerminal => visible' = visible
  BY DEF WriteSession, Dial, SendDeclaration, SkipDeclaration, SendState,
         NothingDeclared, ReadCollections, NothingToCheckpoint, SendManifest,
         EndOfStream, Refuse, hubVars
<1>3. SendTerminal /\ TerminalRefusal # "none" => visible' = visible
  BY DEF SendTerminal, Refuse
<1>4. Cut => visible' = visible
  BY DEF Cut
<1>5. HubRestart => visible' = NoEntries
  BY DEF HubRestart
<1>6. UNCHANGED vars => visible' = visible
  BY DEF vars, hubVars
<1> QED
  BY <1>1, <1>2, <1>3, <1>4, <1>5, <1>6 DEF Next

(* A promotion replaces each reading by one at least as new.  The manifest *)
(* is what orders the two: all that was visible was read before it, and    *)
(* every record of the session after it.                                   *)
LEMMA VisibleAdvances ==
  ASSUME SessionInv, [Next \/ AnyCaller]_vars, visible' # visible, visible' # NoEntries,
         NEW c \in DOMAIN visible
  PROVE  /\ c \in DOMAIN visible'
         /\ \E g \in visible[c].generation .. visible'[c].generation,
               h \in visible'[c].generation .. appliedGen[c] :
              /\ visible[c].objects = ViewAt(c, g)
              /\ visible'[c].objects = ViewAt(c, h)
<1>1. SendTerminal /\ TerminalRefusal = "none"
  BY VisibleChanges
<1>2. /\ pc = "sending" /\ UNCHANGED avars /\ held' = held
      /\ visible' = [n \in DOMAIN entries |->
                       IF n \in DOMAIN received THEN received[n] ELSE NeverApplied(n)]
  BY <1>1 DEF SendTerminal
<1>3. /\ DOMAIN visible' = DOMAIN states
      /\ \A n \in DOMAIN states :
           /\ visible'[n].generation = states[n].generation
           /\ \E h \in visible'[n].generation .. appliedGen[n] :
                visible'[n].objects = ViewAt(n, h)
  BY <1>1, <1>2, Promoted
<1>4. /\ c \in DOMAIN states
      /\ \E g \in visible[c].generation .. states[c].generation :
           visible[c].objects = ViewAt(c, g)
  BY <1>2 DEF SessionInv, ManifestIsARead
<1> QED
  BY <1>3, <1>4

(* No later session takes the hub back or drops a collection it shows, in  *)
(* the generations claimed or in the objects themselves: the manifest is   *)
(* read after everything visible was, and only a hub restart forgets.      *)
THEOREM NoSessionGoesBack == Spec => VisibleNeverGoesBack
<1>1. SessionInv /\ [Next]_vars =>
        [visible' # visible /\ visible' # NoEntries =>
           \A c \in DOMAIN visible :
             /\ c \in DOMAIN visible'
             /\ \E g \in visible[c].generation .. visible'[c].generation,
                   h \in visible'[c].generation .. appliedGen[c] :
                  /\ visible[c].objects = ViewAt(c, g)
                  /\ visible'[c].objects = ViewAt(c, h)]_vars
  BY VisibleAdvances
<1>2. SessionInv /\ [Next]_vars => SessionInv'
  BY SessionStep
<1> QED
  BY SessionInit, <1>1, <1>2, PTL DEF Spec, VisibleNeverGoesBack

----------------------------------------------------------------------------
(* The session beside any caller of the store.  Acquisition is one caller  *)
(* of the authority, with the discipline of its own that HostGoesOn keeps; *)
(* the session relies on none of it.                                       *)

AnyCallerSpec == Init /\ [][Next \/ AnyCaller]_vars

(* Estate.promote shows whole checkpoints only, and the hub holds the      *)
(* declarations of what it shows, whatever is issued, applied, repeated or *)
(* declined in the store while the checkpoint is written.                  *)
THEOREM WholeSnapshotsUnderAnyCaller ==
  AnyCallerSpec => [](VisibleWasApplied /\ VisibleAxesAreHeld)
<1>1. SessionInv => VisibleWasApplied /\ VisibleAxesAreHeld
  BY DEF SessionInv, VisibleIsReal
<1> QED
  BY SessionInit, SessionStep, <1>1, PTL DEF AnyCallerSpec

(* Nor can any use of the store make a later session take the hub back:    *)
(* the order of the two readings is the authority's to keep.               *)
THEOREM NoSessionGoesBackUnderAnyCaller == AnyCallerSpec => VisibleNeverGoesBack
<1>1. SessionInv /\ [Next \/ AnyCaller]_vars =>
        [visible' # visible /\ visible' # NoEntries =>
           \A c \in DOMAIN visible :
             /\ c \in DOMAIN visible'
             /\ \E g \in visible[c].generation .. visible'[c].generation,
                   h \in visible'[c].generation .. appliedGen[c] :
                  /\ visible[c].objects = ViewAt(c, g)
                  /\ visible'[c].objects = ViewAt(c, h)]_vars
  BY VisibleAdvances
<1> QED
  BY SessionInit, SessionStep, <1>1, PTL DEF AnyCallerSpec, VisibleNeverGoesBack
=============================================================================
