---------------------------- MODULE AcquireProofs ----------------------------
(***************************************************************************)
(* Proofs about acquisition, for every set of acquirers, whichever         *)
(* collections they share, whatever is upgraded, fails or crashes.         *)
(*                                                                         *)
(* Every step of AcquireOnce is a call the batch authority allows, or      *)
(* leaves its tables alone; so acquisition implements the authority and    *)
(* inherits what is proved of it.  For that the readings it hands over     *)
(* must be readings, which LocalTypeOK establishes.                        *)
(***************************************************************************)
EXTENDS Acquire, BatchAuthorityProofs

AcquireInv == AuthorityInv /\ LocalTypeOK

(* What AcquireOnce hands to ApplyCommitWith is a reading. *)
LEMMA ReadingIsReading ==
  ASSUME NEW a \in Acquirers, LocalTypeOK, pc[a] = "landing",
         Answer(a) \in Contents \cup {"absent"}
  PROVE  ReadingOf(a) \in Reading /\ current[a] \in Collections
<1>1. batch[a] \in BatchOf(a) /\ current[a] \in NamesOf[a]
  BY DEF LocalTypeOK, LocalShapes, LocalOK, WithBatch
<1>2. current[a] \in Collections
  BY <1>1, NamesAssumption
<1>3. gens[a][current[a]] \in 0 .. MaxGen + 1
  BY <1>2, MaxGenAssumption DEF LocalTypeOK, LocalShapes
<1>4. /\ batch[a].scope \in Scopes /\ batch[a].boot \in Boots
      /\ batch[a].declaration \in Decls /\ batch[a].skew \in Skews
  BY <1>1 DEF BatchOf
<1>5. (IF Answer(a) = "absent" THEN Empty ELSE Answer(a)) \in Contents
  BY ContentsAssumption
<1> QED
  BY <1>2, <1>3, <1>4, <1>5 DEF ReadingOf, Reading, ReadingRecord

(* Each step of Fetch is a call of IssueGenerations or touches no table of *)
(* the authority.                                                          *)
LEMMA FetchIsAuthorityStep ==
  ASSUME NEW a \in Acquirers, LocalTypeOK, Fetch(a)
  PROVE  AuthorityNext \/ UNCHANGED avars
<1>1. CASE Issue(a)
  <2>1. decl[a] \in Decls
    BY <1>1 DEF Issue, LocalTypeOK, LocalOK
  <2>2. NamesOf[a] \in SUBSET Collections
    BY NamesAssumption
  <2> QED
    BY <1>1, <2>1, <2>2 DEF Issue, AuthorityNext, AnyIssue
<1>2. CASE Declare(a) \/ Collect(a) \/ CheckDeclaration(a) \/ Judge(a) \/ GiveUp(a)
  BY <1>2 DEF Declare, Collect, CheckDeclaration, Judge, GiveUp
<1> QED
  BY <1>1, <1>2 DEF Fetch

LEMMA ApplyIsAuthorityStep ==
  ASSUME NEW a \in Acquirers, LocalTypeOK, Apply(a)
  PROVE  AuthorityNext \/ UNCHANGED avars
<1>1. ASSUME NEW c \in Collections, NoteSkew(a, c)
      PROVE  AuthorityNext
  <2>1. batch[a].skew \in Skews
    BY <1>1 DEF NoteSkew, LocalTypeOK, LocalOK, WithBatch, BatchOf
  <2> QED
    BY <1>1, <2>1 DEF NoteSkew, AuthorityNext, AnyMark
<1>2. pc[a] \in {"landing", "noting"} => current[a] \in Collections
  BY NamesAssumption DEF LocalTypeOK, LocalShapes, LocalOK
<1>3. CASE LandCommit(a)
  BY <1>3, ReadingIsReading DEF LandCommit, AuthorityNext, AnyApply
<1>4. CASE LandDecline(a)
  BY <1>2, <1>4 DEF LandDecline, AuthorityNext, AnyMark
<1>5. CASE NoteAbsent(a)
  BY <1>2, <1>5 DEF NoteAbsent, AuthorityNext, AnyMark
<1>6. CASE \/ \E c \in Collections : NoteSkewFails(a, c)
           \/ Hold(a) \/ LandFails(a) \/ EndApply(a)
  BY <1>6 DEF NoteSkewFails, Hold, LandFails, EndApply
<1> QED
  BY <1>1, <1>3, <1>4, <1>5, <1>6 DEF Apply

LEMMA StepIsAuthorityStep ==
  LocalTypeOK /\ [Next]_vars => [AuthorityNext]_avars
<1> SUFFICES ASSUME LocalTypeOK, [Next]_vars
             PROVE  AuthorityNext \/ UNCHANGED avars
  OBVIOUS
<1>1. ASSUME NEW a \in Acquirers, Conclude(a)
      PROVE  UNCHANGED avars
  BY <1>1 DEF Conclude, Relate, EndRelate, RecordAck, GiveUpLate
<1>2. ASSUME NEW a \in Acquirers, Upgrade(a)
      PROVE  UNCHANGED avars
  BY <1>2 DEF Upgrade
<1>3. CASE Crash
  BY <1>3 DEF Crash
<1>4. CASE UNCHANGED vars
  BY <1>4 DEF vars
<1> QED
  BY <1>1, <1>2, <1>3, <1>4, FetchIsAuthorityStep, ApplyIsAuthorityStep
  DEF Next, AcquireOnce

----------------------------------------------------------------------------
(* Each step keeps the locals of its own acquirer well formed and leaves   *)
(* those of the others alone.                                              *)

Untouched(b) ==
  /\ pc'[b] = pc[b] /\ decl'[b] = decl[b] /\ batch'[b] = batch[b]
  /\ todo'[b] = todo[b] /\ current'[b] = current[b] /\ failed'[b] = failed[b]

LEMMA OneAcquirerMoves ==
  ASSUME NEW a \in Acquirers, LocalTypeOK, LocalShapes', LocalOK(a)',
         boot' = boot, running' = running,
         \A b \in Acquirers \ {a} : Untouched(b)
  PROVE  LocalTypeOK'
<1>1. ASSUME NEW b \in Acquirers \ {a} PROVE LocalOK(b)'
  BY <1>1 DEF LocalTypeOK, LocalShapes, LocalOK, Untouched, BatchOf
<1> QED
  BY <1>1 DEF LocalTypeOK, LocalShapes

LEMMA ReturnKeepsLocals ==
  ASSUME NEW a \in Acquirers, LocalTypeOK, Return(a), boot' = boot, running' = running
  PROVE  LocalTypeOK'
<1>1. LocalShapes'
  BY MaxGenAssumption DEF Return, Goto, LocalTypeOK, LocalShapes, Steps, NoGens
<1>2. LocalOK(a)'
  BY DEF Return, Goto, LocalTypeOK, LocalShapes, LocalOK, WithBatch
<1>3. \A b \in Acquirers \ {a} : Untouched(b)
  BY DEF Return, Goto, LocalTypeOK, LocalShapes, Untouched
<1> QED
  BY <1>1, <1>2, <1>3, OneAcquirerMoves

(* The steps that fetch a batch. *)
LEMMA FetchKeepsLocals ==
  ASSUME NEW a \in Acquirers, AuthorityTypeOK, LocalTypeOK, Fetch(a)
  PROVE  LocalTypeOK'
<1>0. NamesOf[a] \subseteq Collections /\ LocalOK(a)
  BY NamesAssumption DEF LocalTypeOK
<1>1. CASE Declare(a)
  <2>1. LocalShapes'
    BY <1>1 DEF Declare, Goto, LocalTypeOK, LocalShapes, Steps
  <2>2. LocalOK(a)'
    BY <1>0, <1>1 DEF Declare, Goto, LocalTypeOK, LocalShapes, LocalOK, WithBatch
  <2>3. \A b \in Acquirers \ {a} : Untouched(b)
    BY <1>1 DEF Declare, Goto, LocalTypeOK, LocalShapes, Untouched
  <2> QED
    BY <1>1, <2>1, <2>2, <2>3, OneAcquirerMoves DEF Declare
<1>2. CASE Issue(a)
  <2>1. \A c \in NamesOf[a] : issuedGen'[c] \in 0 .. MaxGen
    BY <1>0, <1>2, MaxGenAssumption DEF Issue, IssueGenerations, AuthorityTypeOK
  <2>2. gens' \in [Acquirers -> [Collections -> 0 .. MaxGen]]
    BY <1>2, <2>1, MaxGenAssumption DEF Issue, LocalTypeOK, LocalShapes
  <2>3. LocalShapes'
    BY <1>2, <2>2 DEF Issue, Goto, LocalTypeOK, LocalShapes, Steps
  <2>4. LocalOK(a)'
    BY <1>0, <1>2 DEF Issue, Goto, LocalTypeOK, LocalShapes, LocalOK, WithBatch
  <2>5. \A b \in Acquirers \ {a} : Untouched(b)
    BY <1>2 DEF Issue, Goto, LocalTypeOK, LocalShapes, Untouched
  <2> QED
    BY <1>2, <2>3, <2>4, <2>5, OneAcquirerMoves DEF Issue
<1>3. CASE Collect(a)
  <2>1. LocalShapes'
    BY <1>3 DEF Collect, Goto, LocalTypeOK, LocalShapes, Steps
  <2>2. batch'[a] \in BatchOf(a)
    <3>1. PICK i \in BatchIds, k \in Skews, w \in [NamesOf[a] -> Answers] :
            batch'[a] = [id |-> i, gens |-> gens[a], scope |-> ScopeOf[a],
                         declaration |-> running[a], boot |-> boot, skew |-> k,
                         answers |-> w]
      BY <1>3 DEF Collect, LocalTypeOK, LocalShapes
    <3>2. /\ gens[a] \in [Collections -> 0 .. MaxGen] /\ ScopeOf[a] \in Scopes
          /\ running[a] \in Decls /\ boot \in Boots
      BY ScopeAssumption DEF LocalTypeOK, LocalShapes
    <3> QED
      BY <3>1, <3>2 DEF BatchOf
  <2>3. LocalOK(a)'
    BY <1>0, <1>3, <2>2 DEF Collect, Goto, LocalTypeOK, LocalShapes, LocalOK, BatchOf
  <2>4. \A b \in Acquirers \ {a} : Untouched(b)
    BY <1>3 DEF Collect, Goto, LocalTypeOK, LocalShapes, Untouched
  <2> QED
    BY <1>3, <2>1, <2>3, <2>4, OneAcquirerMoves DEF Collect
<1>4. CASE CheckDeclaration(a)
  <2>1. LocalShapes'
    BY <1>4 DEF CheckDeclaration, Goto, LocalTypeOK, LocalShapes, Steps
  <2>2. LocalOK(a)'
    BY <1>0, <1>4 DEF CheckDeclaration, Goto, LocalTypeOK, LocalShapes, LocalOK, WithBatch, BatchOf
  <2>3. \A b \in Acquirers \ {a} : Untouched(b)
    BY <1>4 DEF CheckDeclaration, Goto, LocalTypeOK, LocalShapes, Untouched
  <2> QED
    BY <1>4, <2>1, <2>2, <2>3, OneAcquirerMoves DEF CheckDeclaration
<1>5. CASE Judge(a)
  <2>1. LocalShapes'
    BY <1>0, <1>5 DEF Judge, Goto, LocalTypeOK, LocalShapes, Steps
  <2>2. LocalOK(a)'
    BY <1>0, <1>5 DEF Judge, Goto, LocalTypeOK, LocalShapes, LocalOK, WithBatch, BatchOf
  <2>3. \A b \in Acquirers \ {a} : Untouched(b)
    BY <1>5 DEF Judge, Goto, LocalTypeOK, LocalShapes, Untouched
  <2> QED
    BY <1>5, <2>1, <2>2, <2>3, OneAcquirerMoves DEF Judge
<1>6. CASE GiveUp(a)
  BY <1>6, ReturnKeepsLocals DEF GiveUp
<1> QED
  BY <1>1, <1>2, <1>3, <1>4, <1>5, <1>6 DEF Fetch

(* The steps that apply it. *)
LEMMA ApplyKeepsLocals ==
  ASSUME NEW a \in Acquirers, LocalTypeOK, Apply(a)
  PROVE  LocalTypeOK'
<1>0. NamesOf[a] \subseteq Collections /\ LocalOK(a)
  BY NamesAssumption DEF LocalTypeOK
<1>1. ASSUME NEW c \in Collections, NoteSkew(a, c)
      PROVE  LocalTypeOK'
  <2>1. LocalShapes'
    BY <1>1 DEF NoteSkew, Goto, LocalTypeOK, LocalShapes, Steps
  <2>2. LocalOK(a)'
    BY <1>0, <1>1 DEF NoteSkew, Goto, LocalTypeOK, LocalShapes, LocalOK, WithBatch, BatchOf
  <2>3. \A b \in Acquirers \ {a} : Untouched(b)
    BY <1>1 DEF NoteSkew, Goto, LocalTypeOK, LocalShapes, Untouched
  <2> QED
    BY <1>1, <2>1, <2>2, <2>3, OneAcquirerMoves DEF NoteSkew
<1>2. ASSUME NEW c \in Collections, NoteSkewFails(a, c)
      PROVE  LocalTypeOK'
  <2>1. LocalShapes'
    BY <1>2 DEF NoteSkewFails, LocalTypeOK, LocalShapes
  <2>2. LocalOK(a)'
    BY <1>0, <1>2 DEF NoteSkewFails, LocalTypeOK, LocalShapes, LocalOK, WithBatch, BatchOf
  <2>3. \A b \in Acquirers \ {a} : Untouched(b)
    BY <1>2 DEF NoteSkewFails, LocalTypeOK, LocalShapes, Untouched
  <2> QED
    BY <1>2, <2>1, <2>2, <2>3, OneAcquirerMoves DEF NoteSkewFails
<1>3. CASE Hold(a) \/ LandDecline(a) \/ LandCommit(a) \/ NoteAbsent(a)
  <2>1. /\ pc[a] \in {"landing", "noting"}
        /\ Goto(a, "noting") \/ Goto(a, "applying")
        /\ UNCHANGED <<boot, running, decl, gens, batch, todo, current>>
        /\ KeepRecord(a)
    BY <1>3 DEF Hold, LandDecline, LandCommit, NoteAbsent, KeepRecord
  <2>2. LocalShapes'
    BY <2>1 DEF KeepRecord, Goto, LocalTypeOK, LocalShapes, Steps
  <2>3. LocalOK(a)'
    BY <1>0, <2>1 DEF KeepRecord, Goto, LocalTypeOK, LocalShapes, LocalOK, WithBatch, BatchOf
  <2>4. \A b \in Acquirers \ {a} : Untouched(b)
    BY <2>1 DEF KeepRecord, Goto, LocalTypeOK, LocalShapes, Untouched
  <2> QED
    BY <2>1, <2>2, <2>3, <2>4, OneAcquirerMoves
<1>4. CASE LandFails(a)
  <2>1. LocalShapes'
    BY <1>4 DEF LandFails, Goto, LocalTypeOK, LocalShapes, Steps
  <2>2. LocalOK(a)'
    BY <1>0, <1>4 DEF LandFails, Goto, LocalTypeOK, LocalShapes, LocalOK, WithBatch, BatchOf
  <2>3. \A b \in Acquirers \ {a} : Untouched(b)
    BY <1>4 DEF LandFails, Goto, LocalTypeOK, LocalShapes, Untouched
  <2> QED
    BY <1>4, <2>1, <2>2, <2>3, OneAcquirerMoves DEF LandFails
<1>5. CASE EndApply(a)
  <2>1. CASE Return(a)
    BY <1>5, <2>1, ReturnKeepsLocals DEF EndApply
  <2>2. CASE /\ ~failed[a] /\ Goto(a, "relating")
             /\ todo' = [todo EXCEPT ![a] = NamesOf[a]]
             /\ UNCHANGED <<decl, gens, batch, current, failed>>
    <3>1. LocalShapes'
      BY <1>0, <2>2 DEF Goto, LocalTypeOK, LocalShapes, Steps
    <3>2. LocalOK(a)'
      BY <1>0, <1>5, <2>2 DEF EndApply, Goto, LocalTypeOK, LocalShapes, LocalOK, WithBatch, BatchOf
    <3>3. \A b \in Acquirers \ {a} : Untouched(b)
      BY <2>2 DEF Goto, LocalTypeOK, LocalShapes, Untouched
    <3> QED
      BY <1>5, <3>1, <3>2, <3>3, OneAcquirerMoves DEF EndApply
  <2> QED
    BY <1>5, <2>1, <2>2 DEF EndApply
<1> QED
  BY <1>1, <1>2, <1>3, <1>4, <1>5 DEF Apply

(* The steps that conclude it. *)
LEMMA ConcludeKeepsLocals ==
  ASSUME NEW a \in Acquirers, LocalTypeOK, Conclude(a)
  PROVE  LocalTypeOK'
<1>0. LocalOK(a)
  BY DEF LocalTypeOK
<1>1. ASSUME NEW c \in Collections, Relate(a, c)
      PROVE  LocalTypeOK'
  <2>1. LocalShapes'
    BY <1>1 DEF Relate, LocalTypeOK, LocalShapes
  <2>2. LocalOK(a)'
    BY <1>0, <1>1 DEF Relate, LocalTypeOK, LocalShapes, LocalOK, WithBatch, BatchOf
  <2>3. \A b \in Acquirers \ {a} : Untouched(b)
    BY <1>1 DEF Relate, LocalTypeOK, LocalShapes, Untouched
  <2> QED
    BY <1>1, <2>1, <2>2, <2>3, OneAcquirerMoves DEF Relate
<1>2. CASE EndRelate(a)
  <2>1. CASE Return(a)
    BY <1>2, <2>1, ReturnKeepsLocals DEF EndRelate
  <2>2. CASE /\ ~failed[a] /\ Goto(a, "acking")
             /\ UNCHANGED <<decl, gens, batch, todo, current, failed>>
    <3>1. LocalShapes'
      BY <2>2 DEF Goto, LocalTypeOK, LocalShapes, Steps
    <3>2. LocalOK(a)'
      BY <1>0, <1>2, <2>2 DEF EndRelate, Goto, LocalTypeOK, LocalShapes, LocalOK, WithBatch, BatchOf
    <3>3. \A b \in Acquirers \ {a} : Untouched(b)
      BY <2>2 DEF Goto, LocalTypeOK, LocalShapes, Untouched
    <3> QED
      BY <1>2, <3>1, <3>2, <3>3, OneAcquirerMoves DEF EndRelate
  <2> QED
    BY <1>2, <2>1, <2>2 DEF EndRelate
<1>3. CASE RecordAck(a) \/ GiveUpLate(a)
  BY <1>3, ReturnKeepsLocals DEF RecordAck, GiveUpLate
<1> QED
  BY <1>1, <1>2, <1>3 DEF Conclude

LEMMA NextKeepsLocals ==
  AuthorityTypeOK /\ LocalTypeOK /\ [Next]_vars => LocalTypeOK'
<1> SUFFICES ASSUME AuthorityTypeOK, LocalTypeOK, [Next]_vars PROVE LocalTypeOK'
  OBVIOUS
<1>1. ASSUME NEW a \in Acquirers, Upgrade(a)
      PROVE  LocalTypeOK'
  <2>1. running' \in [Acquirers -> Decls] /\ UNCHANGED <<boot, localvars>>
    BY <1>1 DEF Upgrade, LocalTypeOK
  <2> QED
    BY <2>1 DEF localvars, LocalTypeOK, LocalShapes, LocalOK, BatchOf
<1>2. CASE Crash
  BY <1>2, MaxGenAssumption
  DEF Crash, LocalTypeOK, LocalShapes, LocalOK, Steps, WithBatch, NoGens
<1>3. CASE UNCHANGED vars
  BY <1>3 DEF vars, localvars, LocalTypeOK, LocalShapes, LocalOK, BatchOf
<1> QED
  BY <1>1, <1>2, <1>3, FetchKeepsLocals, ApplyKeepsLocals, ConcludeKeepsLocals
  DEF Next, AcquireOnce

LEMMA InitLocals == Init => AuthorityInit /\ LocalTypeOK
BY MaxGenAssumption
DEF Init, LocalTypeOK, LocalShapes, LocalOK, Steps, WithBatch, NoGens

LEMMA AcquireInvInit == Init => AcquireInv
BY InitLocals, InitInv DEF AcquireInv

LEMMA AcquireInvNext == AcquireInv /\ [Next]_vars => AcquireInv'
<1> SUFFICES ASSUME AcquireInv, [Next]_vars PROVE AcquireInv'
  OBVIOUS
<1>1. AuthorityInv'
  BY StepIsAuthorityStep, NextInv DEF AcquireInv
<1>2. LocalTypeOK'
  BY NextKeepsLocals DEF AcquireInv, AuthorityInv
<1> QED
  BY <1>1, <1>2 DEF AcquireInv

(* AcquireOnce, run by any number of acquirers over any collections, uses  *)
(* store.go only as the batch authority allows: whatever is upgraded,      *)
(* fails, is retried or crashes, its tables behave as AuthoritySpec says.  *)
THEOREM AcquireImplementsAuthority == Spec => AuthoritySpec
<1>1. Init => AuthorityInit
  BY InitLocals
<1>2. AcquireInv /\ [Next]_vars => [AuthorityNext]_avars
  BY StepIsAuthorityStep DEF AcquireInv
<1> QED
  BY AcquireInvInit, AcquireInvNext, <1>1, <1>2, PTL DEF Spec, AuthoritySpec

(* So what AcquireOnce leaves in the objects table is always the newest    *)
(* reading each scope ever had.                                            *)
THEOREM AcquireServesNewest == Spec => []ObjectsAreNewestReading
BY AcquireImplementsAuthority, ObjectsServeNewest, PTL

----------------------------------------------------------------------------
(* No generation is held twice. *)

Unlanded == {"issued", "collected", "fetched"}

(* A step that issues nothing and lands nothing: generations are kept or   *)
(* dropped, and no acquirer goes back to before its batch was judged.      *)
LEMMA QuietStepReusesNothing ==
  ASSUME GenerationNeverReused, LocalTypeOK,
         issuedGen' = issuedGen, ledger' = ledger,
         \A b \in Acquirers : gens'[b] = gens[b] \/ gens'[b] = NoGens,
         \A b \in Acquirers : gens'[b] = gens[b] /\ pc'[b] \in Unlanded => pc[b] \in Unlanded
  PROVE  GenerationNeverReused'
<1> SUFFICES ASSUME NEW a \in Acquirers, NEW c \in Collections, gens'[a][c] # 0
             PROVE  /\ gens'[a][c] <= issuedGen'[c]
                    /\ \A b \in Acquirers \ {a} : gens'[b][c] # gens'[a][c]
                    /\ pc'[a] \in Unlanded => \A r \in ledger'[c] : r.gen # gens'[a][c]
  BY DEF GenerationNeverReused, Unlanded
<1>1. gens'[a] = gens[a]
  BY DEF NoGens
<1>2. \A b \in Acquirers : gens'[b][c] = gens[b][c] \/ gens'[b][c] = 0
  BY DEF NoGens
<1> QED
  BY <1>1, <1>2 DEF GenerationNeverReused, Unlanded

LEMMA FetchReusesNothing ==
  ASSUME NEW a \in Acquirers, AcquireInv, GenerationNeverReused, Fetch(a)
  PROVE  GenerationNeverReused'
<1>0. LocalTypeOK /\ AuthorityTypeOK /\ OneReadingPerGeneration
  BY DEF AcquireInv, AuthorityInv
<1>1. CASE Issue(a)
  <2>1. \A c \in Collections : /\ issuedGen[c] \in Nat /\ appliedGen[c] \in Nat
                               /\ issuedGen'[c] \in {issuedGen[c], issuedGen[c] + 1}
                               /\ c \in NamesOf[a] => issuedGen'[c] = issuedGen[c] + 1
    BY <1>0, <1>1 DEF Issue, IssueGenerations, AuthorityTypeOK
  <2>2. \A b \in Acquirers, c \in Collections : gens[b][c] \in Nat /\ gens[b][c] <= issuedGen[c]
    BY <1>0, <2>1, MaxGenAssumption DEF LocalTypeOK, LocalShapes, GenerationNeverReused
  <2>3. \A c \in Collections : /\ gens'[a][c] \in {0, issuedGen[c] + 1}
                               /\ gens'[a][c] # 0 => c \in NamesOf[a]
    BY <1>0, <1>1, <2>1 DEF Issue, LocalTypeOK, LocalShapes
  <2>4. /\ \A b \in Acquirers \ {a} : gens'[b] = gens[b] /\ pc'[b] = pc[b]
        /\ ledger' = ledger
    BY <1>0, <1>1 DEF Issue, IssueGenerations, content, Goto, LocalTypeOK, LocalShapes
  <2>5. \A c \in Collections : \A r \in ledger[c] : r.gen \in Nat /\ r.gen <= issuedGen[c]
    BY <1>0, <2>1 DEF OneReadingPerGeneration
  <2> SUFFICES ASSUME NEW b \in Acquirers, NEW c \in Collections, gens'[b][c] # 0
               PROVE  /\ gens'[b][c] <= issuedGen'[c]
                      /\ \A d \in Acquirers \ {b} : gens'[d][c] # gens'[b][c]
                      /\ pc'[b] \in Unlanded => \A r \in ledger'[c] : r.gen # gens'[b][c]
    BY DEF GenerationNeverReused, Unlanded
  <2>6. CASE b = a
    BY <2>1, <2>2, <2>3, <2>4, <2>5, <2>6
  <2>7. CASE b # a
    BY <2>1, <2>2, <2>3, <2>4, <2>7 DEF GenerationNeverReused, Unlanded
  <2> QED
    BY <2>6, <2>7
<1>2. CASE Declare(a) \/ Collect(a) \/ CheckDeclaration(a) \/ Judge(a) \/ GiveUp(a)
  <2>1. issuedGen' = issuedGen /\ ledger' = ledger
    BY <1>2 DEF Declare, Collect, CheckDeclaration, Judge, GiveUp, avars, content
  <2>2. \A b \in Acquirers : gens'[b] = gens[b] \/ gens'[b] = NoGens
    BY <1>0, <1>2 DEF Declare, Collect, CheckDeclaration, Judge, GiveUp, Return,
                      LocalTypeOK, LocalShapes
  <2>3. \A b \in Acquirers : pc'[b] \in Unlanded => pc[b] \in Unlanded
    BY <1>0, <1>2 DEF Declare, Collect, CheckDeclaration, Judge, GiveUp, Return, Goto,
                      LocalTypeOK, LocalShapes, Unlanded
  <2> QED
    BY <1>0, <2>1, <2>2, <2>3, QuietStepReusesNothing
<1> QED
  BY <1>1, <1>2 DEF Fetch

LEMMA ApplyReusesNothing ==
  ASSUME NEW a \in Acquirers, AcquireInv, GenerationNeverReused, Apply(a)
  PROVE  GenerationNeverReused'
<1>0. LocalTypeOK /\ AuthorityTypeOK
  BY DEF AcquireInv, AuthorityInv
<1>1. CASE LandCommit(a)
  <2>1. current[a] \in Collections
    BY <1>0, <1>1, ReadingIsReading DEF LandCommit
  <2>2. /\ issuedGen' = issuedGen
        /\ \A c \in Collections : \A r \in ledger'[c] :
             r \in ledger[c] \/ (c = current[a] /\ r.gen = gens[a][c])
    <3>1. ReadingOf(a).gen = gens[a][current[a]]
      BY DEF ReadingOf
    <3>2. CASE LandReading(current[a], ReadingOf(a))
      BY <1>0, <2>1, <3>1, <3>2 DEF LandReading, StampReading, AuthorityTypeOK
    <3>3. CASE UNCHANGED avars
      BY <3>3 DEF avars, content
    <3> QED
      BY <1>1, <3>2, <3>3 DEF LandCommit, ApplyCommitWith
  <2>3. gens' = gens /\ pc'[a] \notin Unlanded
        /\ \A b \in Acquirers \ {a} : pc'[b] = pc[b]
    BY <1>0, <1>1 DEF LandCommit, Goto, LocalTypeOK, LocalShapes, Unlanded
  <2> QED
    BY <2>2, <2>3 DEF GenerationNeverReused, Unlanded
<1>2. CASE \/ \E c \in Collections : NoteSkew(a, c) \/ NoteSkewFails(a, c)
           \/ Hold(a) \/ LandDecline(a) \/ NoteAbsent(a) \/ LandFails(a) \/ EndApply(a)
  <2>1. issuedGen' = issuedGen /\ ledger' = ledger
    BY <1>2 DEF NoteSkew, NoteSkewFails, Hold, LandDecline, NoteAbsent, LandFails,
                EndApply, RecordTimensSkew, MarkStaleWith, RecordAbsent, avars, content
  <2>2. \A b \in Acquirers : gens'[b] = gens[b] \/ gens'[b] = NoGens
    BY <1>0, <1>2 DEF NoteSkew, NoteSkewFails, Hold, LandDecline, NoteAbsent, LandFails,
                      EndApply, Return, LocalTypeOK, LocalShapes
  <2>3. \A b \in Acquirers : pc'[b] \in Unlanded => pc[b] \in Unlanded
    BY <1>0, <1>2 DEF NoteSkew, NoteSkewFails, Hold, LandDecline, NoteAbsent, LandFails,
                      EndApply, Return, Goto, LocalTypeOK, LocalShapes, Unlanded
  <2> QED
    BY <1>0, <2>1, <2>2, <2>3, QuietStepReusesNothing
<1> QED
  BY <1>1, <1>2 DEF Apply

LEMMA NextReusesNothing ==
  AcquireInv /\ GenerationNeverReused /\ [Next]_vars => GenerationNeverReused'
<1> SUFFICES ASSUME AcquireInv, GenerationNeverReused, [Next]_vars
             PROVE  GenerationNeverReused'
  OBVIOUS
<1>0. LocalTypeOK
  BY DEF AcquireInv
<1>1. ASSUME NEW a \in Acquirers, Conclude(a)
      PROVE  GenerationNeverReused'
  <2>1. issuedGen' = issuedGen /\ ledger' = ledger
    BY <1>1 DEF Conclude, Relate, EndRelate, RecordAck, GiveUpLate, avars, content
  <2>2. \A b \in Acquirers : gens'[b] = gens[b] \/ gens'[b] = NoGens
    BY <1>0, <1>1 DEF Conclude, Relate, EndRelate, RecordAck, GiveUpLate, Return,
                      LocalTypeOK, LocalShapes
  <2>3. \A b \in Acquirers : pc'[b] \in Unlanded => pc[b] \in Unlanded
    BY <1>0, <1>1 DEF Conclude, Relate, EndRelate, RecordAck, GiveUpLate, Return, Goto,
                      LocalTypeOK, LocalShapes, Unlanded
  <2> QED
    BY <1>0, <2>1, <2>2, <2>3, QuietStepReusesNothing
<1>2. CASE Crash
  BY <1>2 DEF Crash, GenerationNeverReused, NoGens
<1>3. CASE (\E a \in Acquirers : Upgrade(a)) \/ UNCHANGED vars
  BY <1>3 DEF Upgrade, vars, localvars, avars, content, GenerationNeverReused
<1> QED
  BY <1>1, <1>2, <1>3, FetchReusesNothing, ApplyReusesNothing DEF Next, AcquireOnce

(* Whatever crashes fall between IssueGenerations and the apply, and       *)
(* however many acquirers share a collection, AcquireOnce never holds a    *)
(* generation another holds or one a reading was already applied under.    *)
THEOREM GenerationsAreNeverReused == Spec => []GenerationNeverReused
<1>1. Init => GenerationNeverReused
  BY DEF Init, GenerationNeverReused, NoGens
<1> QED
  BY AcquireInvInit, AcquireInvNext, NextReusesNothing, <1>1, PTL DEF Spec

----------------------------------------------------------------------------
(* The type invariant. *)

TablesOK ==
  /\ documents \subseteq Decls
  /\ edges \in [Collections -> [Scopes -> 0 .. MaxGen]]

LEMMA NextKeepsTables ==
  LocalTypeOK /\ TablesOK /\ [Next]_vars => TablesOK'
<1> SUFFICES ASSUME LocalTypeOK, TablesOK, [Next]_vars PROVE TablesOK'
  OBVIOUS
<1>1. ASSUME NEW a \in Acquirers, Fetch(a)
      PROVE  TablesOK'
  <2>1. running[a] \in Decls
    BY DEF LocalTypeOK
  <2> QED
    BY <1>1, <2>1 DEF Fetch, Declare, Issue, Collect, CheckDeclaration, Judge, GiveUp,
                      tables, TablesOK
<1>2. ASSUME NEW a \in Acquirers, Apply(a)
      PROVE  TablesOK'
  BY <1>2 DEF Apply, NoteSkew, NoteSkewFails, Hold, LandDecline, LandCommit, NoteAbsent,
              LandFails, EndApply, tables, TablesOK
<1>3. ASSUME NEW a \in Acquirers, NEW c \in Collections, Relate(a, c)
      PROVE  TablesOK'
  <2>1. batch[a].scope \in Scopes
    BY <1>3 DEF Relate, LocalTypeOK, LocalOK, WithBatch, BatchOf
  <2>2. gens[a][c] \in 0 .. MaxGen
    BY DEF LocalTypeOK, LocalShapes
  <2>3. edges' \in [Collections -> [Scopes -> 0 .. MaxGen]]
    BY <1>3, <2>1, <2>2 DEF Relate, TablesOK
  <2> QED
    BY <1>3, <2>3 DEF Relate, TablesOK
<1>4. ASSUME NEW a \in Acquirers, EndRelate(a) \/ RecordAck(a) \/ GiveUpLate(a) \/ Upgrade(a)
      PROVE  TablesOK'
  BY <1>4 DEF EndRelate, RecordAck, GiveUpLate, Upgrade, tables, TablesOK
<1>5. CASE Crash \/ UNCHANGED vars
  BY <1>5 DEF Crash, vars, tables, TablesOK
<1> QED
  BY <1>1, <1>2, <1>3, <1>4, <1>5 DEF Next, AcquireOnce, Conclude

(* At every step of AcquireOnce the tables and the locals it works from    *)
(* have their types: no step runs on the remains of an earlier round.      *)
THEOREM AcquireTypes == Spec => []TypeOK
<1>1. Init => TablesOK
  BY MaxGenAssumption DEF Init, TablesOK
<1>2. AcquireInv /\ TablesOK => TypeOK
  BY DEF AcquireInv, AuthorityInv, TablesOK, TypeOK
<1>3. AcquireInv /\ TablesOK /\ [Next]_vars => TablesOK'
  BY NextKeepsTables DEF AcquireInv
<1> QED
  BY AcquireInvInit, AcquireInvNext, <1>1, <1>2, <1>3, PTL DEF Spec

----------------------------------------------------------------------------
(* What is acknowledged was applied. *)

Commits == Contents \cup {"absent"}

(* A's commit of c is durable, or something newer is. *)
Landed(a, c) == batch[a].answers[c] \in Commits => appliedGen[c] >= gens[a][c]

(* While no error stands, every name the apply loop has finished with has  *)
(* landed, and after the loop all of them have.                            *)
Progress(a) ==
  /\ pc[a] \in WithBatch => batch[a].gens = gens[a]
  /\ pc[a] \in {"applying", "landing", "noting"} /\ ~failed[a] =>
       \A c \in NamesOf[a] \ todo[a] :
         (pc[a] = "landing" /\ c = current[a]) \/ Landed(a, c)
  /\ pc[a] \in {"relating", "acking"} /\ ~failed[a] => \A c \in NamesOf[a] : Landed(a, c)

AckInv ==
  /\ \A i \in BatchIds : acks[i] = NoBatch \/ \E a \in Acquirers : acks[i] \in BatchOf(a)
  /\ DOMAIN acks = BatchIds
  /\ AckedMeansApplied
  /\ \A a \in Acquirers : Progress(a)

(* The applied generation of a collection only ever grows. *)
LEMMA AppliedGrows ==
  ASSUME AuthorityInv, [AuthorityNext]_avars
  PROVE  \A c \in Collections : appliedGen'[c] >= appliedGen[c]
<1>0. AuthorityTypeOK
  BY DEF AuthorityInv
<1>1. ASSUME NEW c \in Collections, NEW r \in Reading, ApplyCommitWith(c, r)
      PROVE  \A d \in Collections : appliedGen'[d] >= appliedGen[d]
  <2>1. CASE Outcome(c, r) = "applied" /\ LandReading(c, r)
    <3>1. r.gen \in Nat /\ r.gen > appliedGen[c]
      BY <1>0, <2>1, AdmittedIsNewer
    <3> QED
      BY <1>0, <2>1, <3>1 DEF LandReading, StampReading, AuthorityTypeOK
  <2>2. CASE UNCHANGED avars
    BY <1>0, <2>2 DEF avars, content, AuthorityTypeOK
  <2> QED
    BY <1>1, <2>1, <2>2 DEF ApplyCommitWith
<1>2. CASE AnyIssue \/ AnyMark
  <2>1. UNCHANGED content
    BY <1>2 DEF AnyIssue, AnyMark, IssueGenerations, MarkStaleWith, RecordAbsent,
                RecordTimensSkew
  <2> QED
    BY <1>0, <2>1 DEF content, AuthorityTypeOK
<1>3. CASE UNCHANGED avars
  BY <1>0, <1>3 DEF avars, content, AuthorityTypeOK
<1> QED
  BY <1>1, <1>2, <1>3 DEF AuthorityNext, AnyApply

(* So what has landed stays landed. *)
LEMMA LandedStays ==
  ASSUME NEW a \in Acquirers, NEW c \in Collections, AcquireInv, [Next]_vars,
         batch'[a] = batch[a], gens'[a] = gens[a], Landed(a, c)
  PROVE  Landed(a, c)'
<1>1. appliedGen'[c] >= appliedGen[c]
  BY AppliedGrows, StepIsAuthorityStep DEF AcquireInv
<1>2. appliedGen[c] \in Nat /\ appliedGen'[c] \in Nat /\ gens[a][c] \in Nat
  BY AcquireInvNext, MaxGenAssumption
  DEF AcquireInv, AuthorityInv, AuthorityTypeOK, LocalTypeOK, LocalShapes
<1> QED
  BY <1>1, <1>2 DEF Landed

LEMMA OthersKeepProgress ==
  ASSUME NEW b \in Acquirers, AcquireInv, [Next]_vars, Progress(b),
         Untouched(b), gens'[b] = gens[b]
  PROVE  Progress(b)'
<1>1. NamesOf[b] \subseteq Collections
  BY NamesAssumption
<1>2. \A c \in Collections : Landed(b, c) => Landed(b, c)'
  BY LandedStays DEF Untouched
<1> QED
  BY <1>1, <1>2 DEF Progress, Untouched

LEMMA AcksStay ==
  ASSUME AcquireInv, [Next]_vars, AckInv
  PROVE  \A i \in BatchIds : acks[i] # NoBatch =>
           \A c \in DOMAIN acks[i].answers :
             acks[i].answers[c] \in Commits => appliedGen'[c] >= acks[i].gens[c]
<1> SUFFICES ASSUME NEW i \in BatchIds, acks[i] # NoBatch,
                    NEW c \in DOMAIN acks[i].answers, acks[i].answers[c] \in Commits
             PROVE  appliedGen'[c] >= acks[i].gens[c]
  OBVIOUS
<1>1. PICK a \in Acquirers : acks[i] \in BatchOf(a)
  BY DEF AckInv
<1>2. c \in Collections /\ acks[i].gens[c] \in Nat
  BY <1>1, NamesAssumption, MaxGenAssumption DEF BatchOf
<1>3. appliedGen[c] >= acks[i].gens[c]
  BY DEF AckInv, AckedMeansApplied, Commits
<1>4. appliedGen'[c] >= appliedGen[c]
  BY <1>2, AppliedGrows, StepIsAuthorityStep DEF AcquireInv
<1>5. appliedGen[c] \in Nat /\ appliedGen'[c] \in Nat
  BY <1>2, AcquireInvNext DEF AcquireInv, AuthorityInv, AuthorityTypeOK
<1> QED
  BY <1>2, <1>3, <1>4, <1>5

(* A step of one acquirer that writes no acknowledgement. *)
LEMMA UnackedStep ==
  ASSUME NEW a \in Acquirers, AcquireInv, [Next]_vars, AckInv, acks' = acks,
         Progress(a)',
         \A b \in Acquirers \ {a} : Untouched(b) /\ gens'[b] = gens[b]
  PROVE  AckInv'
<1>1. \A b \in Acquirers : Progress(b)'
  BY OthersKeepProgress DEF AckInv
<1>2. AckedMeansApplied'
  BY AcksStay DEF AckedMeansApplied, Commits
<1> QED
  BY <1>1, <1>2 DEF AckInv, BatchOf

(* A landed commit: applied, or refused because something newer was. *)
LEMMA LandCommitLands ==
  ASSUME NEW a \in Acquirers, AcquireInv, GenerationNeverReused, LandCommit(a)
  PROVE  appliedGen'[current[a]] >= gens[a][current[a]]
<1> DEFINE c == current[a]
           r == ReadingOf(a)
<1>0. LocalTypeOK /\ AuthorityTypeOK
  BY DEF AcquireInv, AuthorityInv
<1>1. c \in Collections /\ r \in Reading /\ r.gen = gens[a][c]
  BY <1>0, ReadingIsReading DEF LandCommit, ReadingOf
<1>2. appliedGen[c] \in Nat /\ issuedGen[c] \in Nat /\ gens[a][c] \in Nat
  BY <1>0, <1>1, MaxGenAssumption DEF AuthorityTypeOK, LocalTypeOK, LocalShapes
<1>3. gens[a][c] <= issuedGen[c]
  BY <1>1, <1>2 DEF GenerationNeverReused
<1>4. CASE Outcome(c, r) = "applied" /\ LandReading(c, r)
  BY <1>0, <1>1, <1>2, <1>4 DEF LandReading, StampReading, AuthorityTypeOK
<1>5. CASE Outcome(c, r) # "applied" /\ UNCHANGED avars
  <2>1. appliedGen' = appliedGen
    BY <1>5 DEF avars, content
  <2>2. gens[a][c] = 0 \/ ~Unissued(c, r)
    BY <1>1, <1>2, <1>3 DEF Unissued
  <2>3. gens[a][c] <= appliedGen[c]
    BY <1>1, <1>2, <1>5, <2>2 DEF Outcome
  <2> QED
    BY <1>2, <2>1, <2>3
<1> QED
  BY <1>4, <1>5 DEF LandCommit, ApplyCommitWith

LEMMA ReturnKeepsProgress ==
  ASSUME NEW a \in Acquirers, AcquireInv, Return(a)
  PROVE  Progress(a)' /\ \A b \in Acquirers \ {a} : Untouched(b) /\ gens'[b] = gens[b]
<1>1. pc'[a] = "idle"
  BY DEF Return, Goto, AcquireInv, LocalTypeOK, LocalShapes
<1>2. Progress(a)'
  BY <1>1 DEF Progress, WithBatch
<1>3. \A b \in Acquirers \ {a} : Untouched(b) /\ gens'[b] = gens[b]
  BY DEF Return, Goto, AcquireInv, LocalTypeOK, LocalShapes, Untouched
<1> QED
  BY <1>2, <1>3

LEMMA FetchKeepsAcks ==
  ASSUME NEW a \in Acquirers, AcquireInv, AckInv, [Next]_vars, Fetch(a)
  PROVE  AckInv'
<1>0. LocalTypeOK /\ Progress(a)
  BY DEF AcquireInv, AckInv
<1>1. acks' = acks
  BY DEF Fetch, Declare, Issue, Collect, CheckDeclaration, Judge, GiveUp, tables
<1>2. CASE GiveUp(a)
  BY <1>1, <1>2, ReturnKeepsProgress, UnackedStep DEF GiveUp
<1>3. CASE Declare(a) \/ Issue(a) \/ Collect(a) \/ CheckDeclaration(a) \/ Judge(a)
  <2>1. \A b \in Acquirers \ {a} : Untouched(b) /\ gens'[b] = gens[b]
    BY <1>0, <1>3 DEF Declare, Issue, Collect, CheckDeclaration, Judge, Goto, Untouched,
                      LocalTypeOK, LocalShapes
  <2>2. CASE Declare(a) \/ Issue(a)
    <3>1. pc'[a] \in {"declared", "issued"}
      BY <1>0, <2>2 DEF Declare, Issue, Goto, LocalTypeOK, LocalShapes
    <3> QED
      BY <1>1, <2>1, <3>1, UnackedStep DEF Progress, WithBatch
  <2>3. CASE Collect(a)
    <3>1. pc'[a] = "collected" /\ batch'[a].gens = gens'[a]
      BY <1>0, <2>3 DEF Collect, Goto, LocalTypeOK, LocalShapes
    <3> QED
      BY <1>1, <2>1, <3>1, UnackedStep DEF Progress
  <2>4. CASE CheckDeclaration(a)
    <3>1. pc[a] = "collected" /\ pc'[a] = "fetched" /\ batch' = batch /\ gens' = gens
      BY <1>0, <2>4 DEF CheckDeclaration, Goto, LocalTypeOK, LocalShapes
    <3>2. Progress(a)'
      BY <1>0, <3>1 DEF Progress, WithBatch
    <3> QED
      BY <1>1, <2>1, <3>2, UnackedStep
  <2>5. CASE Judge(a)
    <3>1. /\ pc[a] = "fetched" /\ pc'[a] = "applying" /\ todo'[a] = NamesOf[a]
          /\ batch' = batch /\ gens' = gens
      BY <1>0, <2>5 DEF Judge, Goto, LocalTypeOK, LocalShapes
    <3>2. Progress(a)'
      BY <1>0, <3>1 DEF Progress, WithBatch
    <3> QED
      BY <1>1, <2>1, <3>2, UnackedStep
  <2> QED
    BY <1>3, <2>2, <2>3, <2>4, <2>5
<1> QED
  BY <1>2, <1>3 DEF Fetch

LEMMA ApplyKeepsAcks ==
  ASSUME NEW a \in Acquirers, AcquireInv, GenerationNeverReused, AckInv, [Next]_vars,
         Apply(a)
  PROVE  AckInv'
<1>0. LocalTypeOK /\ Progress(a) /\ NamesOf[a] \subseteq Collections
  BY NamesAssumption DEF AcquireInv, AckInv
<1>1. acks' = acks
  BY DEF Apply, NoteSkew, NoteSkewFails, Hold, LandDecline, LandCommit, NoteAbsent,
         LandFails, EndApply, tables
<1>2. batch'[a] = batch[a] /\ gens'[a] = gens[a] =>
        \A c \in NamesOf[a] : Landed(a, c) => Landed(a, c)'
  BY <1>0, LandedStays
<1>3. ASSUME NEW c \in Collections, NoteSkew(a, c)
      PROVE  AckInv'
  <2>1. /\ pc[a] = "applying" /\ pc'[a] = "landing" /\ todo'[a] = todo[a] \ {c}
        /\ current'[a] = c /\ batch' = batch /\ gens' = gens /\ failed' = failed
    BY <1>0, <1>3 DEF NoteSkew, Goto, LocalTypeOK, LocalShapes
  <2>2. Progress(a)'
    BY <1>0, <1>2, <2>1 DEF Progress, WithBatch
  <2>3. \A b \in Acquirers \ {a} : Untouched(b) /\ gens'[b] = gens[b]
    BY <1>0, <1>3 DEF NoteSkew, Goto, Untouched, LocalTypeOK, LocalShapes
  <2> QED
    BY <1>1, <2>2, <2>3, UnackedStep
<1>4. ASSUME LandFails(a) \/ \E c \in Collections : NoteSkewFails(a, c)
      PROVE  AckInv'
  <2>1. /\ failed'[a] = TRUE /\ pc'[a] = "applying" /\ pc[a] \in WithBatch
        /\ batch' = batch /\ gens' = gens
    BY <1>0, <1>4 DEF LandFails, NoteSkewFails, Goto, LocalTypeOK, LocalShapes, WithBatch
  <2>2. Progress(a)'
    BY <1>0, <2>1 DEF Progress
  <2>3. \A b \in Acquirers \ {a} : Untouched(b) /\ gens'[b] = gens[b]
    BY <1>0, <1>4 DEF LandFails, NoteSkewFails, Goto, Untouched, LocalTypeOK, LocalShapes
  <2> QED
    BY <1>1, <2>2, <2>3, UnackedStep
<1>5. CASE Hold(a) \/ LandDecline(a) \/ LandCommit(a) \/ NoteAbsent(a)
  <2>1. /\ pc[a] \in {"landing", "noting"} /\ pc'[a] \in {"applying", "noting"}
        /\ UNCHANGED <<batch, gens, todo, current>> /\ (~failed'[a] => ~failed[a])
    BY <1>0, <1>5 DEF Hold, LandDecline, LandCommit, NoteAbsent, KeepRecord, Goto,
                      LocalTypeOK, LocalShapes
  <2>2. pc[a] = "landing" => Landed(a, current[a])'
    <3>1. CASE Hold(a) \/ LandDecline(a)
      <4>1. batch[a].answers[current[a]] \notin Commits
        BY <3>1, AnswersAssumption DEF Hold, LandDecline, Answer, Commits
      <4> QED
        BY <2>1, <4>1 DEF Landed
    <3>2. CASE LandCommit(a)
      BY <2>1, <3>2, LandCommitLands DEF Landed
    <3>3. CASE NoteAbsent(a)
      BY <3>3 DEF NoteAbsent
    <3> QED
      BY <1>5, <3>1, <3>2, <3>3
  <2>3. Progress(a)'
    BY <1>0, <1>2, <2>1, <2>2 DEF Progress, WithBatch
  <2>4. \A b \in Acquirers \ {a} : Untouched(b) /\ gens'[b] = gens[b]
    BY <1>0, <1>5 DEF Hold, LandDecline, LandCommit, NoteAbsent, KeepRecord, Goto,
                      Untouched, LocalTypeOK, LocalShapes
  <2> QED
    BY <1>1, <2>3, <2>4, UnackedStep
<1>6. CASE EndApply(a) /\ Return(a)
  BY <1>1, <1>6, ReturnKeepsProgress, UnackedStep
<1>7. CASE EndApply(a) /\ Goto(a, "relating") /\ ~failed[a] /\ UNCHANGED <<batch, gens>>
           /\ UNCHANGED <<decl, current, failed>> /\ todo' = [todo EXCEPT ![a] = NamesOf[a]]
  <2>1. pc[a] = "applying" /\ pc'[a] = "relating" /\ todo[a] = {}
    BY <1>0, <1>7 DEF EndApply, Goto, LocalTypeOK, LocalShapes
  <2>2. Progress(a)'
    BY <1>0, <1>2, <1>7, <2>1 DEF Progress, WithBatch
  <2>3. \A b \in Acquirers \ {a} : Untouched(b) /\ gens'[b] = gens[b]
    BY <1>0, <1>7 DEF Goto, Untouched, LocalTypeOK, LocalShapes
  <2> QED
    BY <1>1, <2>2, <2>3, UnackedStep
<1> QED
  BY <1>3, <1>4, <1>5, <1>6, <1>7 DEF Apply, EndApply

LEMMA ConcludeKeepsAcks ==
  ASSUME NEW a \in Acquirers, AcquireInv, AckInv, [Next]_vars, Conclude(a)
  PROVE  AckInv'
<1>0. LocalTypeOK /\ Progress(a) /\ NamesOf[a] \subseteq Collections
  BY NamesAssumption DEF AcquireInv, AckInv
<1>1. batch'[a] = batch[a] /\ gens'[a] = gens[a] =>
        \A c \in NamesOf[a] : Landed(a, c) => Landed(a, c)'
  BY <1>0, LandedStays
<1>2. ASSUME NEW c \in Collections, Relate(a, c)
      PROVE  AckInv'
  <2>1. /\ pc[a] = "relating" /\ pc' = pc /\ acks' = acks
        /\ batch' = batch /\ gens' = gens /\ (failed' = failed \/ failed'[a] = TRUE)
    BY <1>0, <1>2 DEF Relate, LocalTypeOK, LocalShapes
  <2>2. Progress(a)'
    BY <1>0, <1>1, <2>1 DEF Progress, WithBatch
  <2>3. \A b \in Acquirers \ {a} : Untouched(b) /\ gens'[b] = gens[b]
    BY <1>0, <1>2 DEF Relate, Untouched, LocalTypeOK, LocalShapes
  <2> QED
    BY <2>1, <2>2, <2>3, UnackedStep
<1>3. CASE EndRelate(a) /\ Return(a)
  BY <1>3, ReturnKeepsProgress, UnackedStep DEF EndRelate, tables
<1>4. CASE EndRelate(a) /\ Goto(a, "acking") /\ ~failed[a]
           /\ UNCHANGED <<decl, gens, batch, todo, current, failed>>
  <2>1. pc[a] = "relating" /\ pc'[a] = "acking" /\ acks' = acks
    BY <1>0, <1>4 DEF EndRelate, Goto, LocalTypeOK, LocalShapes, tables
  <2>2. Progress(a)'
    BY <1>0, <1>1, <1>4, <2>1 DEF Progress, WithBatch
  <2>3. \A b \in Acquirers \ {a} : Untouched(b) /\ gens'[b] = gens[b]
    BY <1>0, <1>4 DEF Goto, Untouched, LocalTypeOK, LocalShapes
  <2> QED
    BY <2>1, <2>2, <2>3, UnackedStep
<1>5. CASE GiveUpLate(a)
  BY <1>5, ReturnKeepsProgress, UnackedStep DEF GiveUpLate, tables
<1>6. CASE RecordAck(a)
  <2>1. /\ batch[a] \in BatchOf(a) /\ ~failed[a] /\ batch[a].gens = gens[a]
        /\ \A c \in NamesOf[a] : Landed(a, c)
    BY <1>0, <1>6 DEF RecordAck, LocalTypeOK, LocalOK, Progress, WithBatch
  <2>2. \A i \in BatchIds : acks'[i] = acks[i] \/ acks'[i] = batch[a]
    BY <1>6 DEF RecordAck, AckInv
  <2>3. appliedGen' = appliedGen
    BY <1>6 DEF RecordAck, avars, content
  <2>4. AckedMeansApplied'
    <3> SUFFICES ASSUME NEW i \in BatchIds, acks'[i] # NoBatch,
                        NEW c \in DOMAIN acks'[i].answers,
                        acks'[i].answers[c] \in Contents \cup {"absent"}
                 PROVE  appliedGen'[c] >= acks'[i].gens[c]
      BY DEF AckedMeansApplied
    <3>1. CASE acks'[i] = acks[i]
      BY <2>3, <3>1 DEF AckInv, AckedMeansApplied
    <3>2. CASE acks'[i] = batch[a]
      <4>1. c \in NamesOf[a]
        BY <2>1, <3>2 DEF BatchOf
      <4> QED
        BY <2>1, <2>3, <3>2, <4>1 DEF Landed, Commits
    <3> QED
      BY <2>2, <3>1, <3>2
  <2>5. \A b \in Acquirers : Progress(b)'
    <3>1. Progress(a)' /\ \A b \in Acquirers \ {a} : Untouched(b) /\ gens'[b] = gens[b]
      BY <1>6, ReturnKeepsProgress DEF RecordAck
    <3> QED
      BY <3>1, OthersKeepProgress DEF AckInv
  <2>6. /\ DOMAIN acks' = BatchIds
        /\ \A i \in BatchIds :
             acks'[i] = NoBatch \/ \E b \in Acquirers : acks'[i] \in BatchOf(b)
    BY <1>6, <2>1, <2>2 DEF RecordAck, AckInv
  <2> QED
    BY <2>4, <2>5, <2>6 DEF AckInv, BatchOf
<1> QED
  BY <1>2, <1>3, <1>4, <1>5, <1>6 DEF Conclude, EndRelate

LEMMA NextKeepsAcks ==
  AcquireInv /\ GenerationNeverReused /\ AckInv /\ [Next]_vars => AckInv'
<1> SUFFICES ASSUME AcquireInv, GenerationNeverReused, AckInv, [Next]_vars PROVE AckInv'
  OBVIOUS
<1>1. CASE Crash
  <2>1. \A a \in Acquirers : Progress(a)'
    BY <1>1 DEF Crash, Progress, WithBatch
  <2>2. acks' = acks
    BY <1>1 DEF Crash, tables
  <2>3. AckedMeansApplied'
    BY <2>2, AcksStay DEF AckedMeansApplied, Commits
  <2> QED
    BY <2>1, <2>2, <2>3 DEF AckInv, BatchOf
<1>2. CASE (\E a \in Acquirers : Upgrade(a)) \/ UNCHANGED vars
  <2>1. UNCHANGED <<localvars, acks, appliedGen>>
    BY <1>2 DEF Upgrade, vars, tables, avars, content
  <2>2. \A a \in Acquirers : Progress(a)'
    BY <2>1 DEF AckInv, Progress, Landed, localvars
  <2> QED
    BY <2>1, <2>2 DEF AckInv, AckedMeansApplied, BatchOf
<1> QED
  BY <1>1, <1>2, FetchKeepsAcks, ApplyKeepsAcks, ConcludeKeepsAcks DEF Next, AcquireOnce

(* Wherever a crash, a failed store call or another acquirer falls between *)
(* the applies and RecordAck, a batch AcquireOnce acknowledged has landed. *)
THEOREM AcknowledgedIsDurable == Spec => []AckedMeansApplied
<1>1. Init => GenerationNeverReused /\ AckInv
  BY DEF Init, GenerationNeverReused, NoGens, AckInv, AckedMeansApplied, Progress, WithBatch
<1>2. AckInv => AckedMeansApplied
  BY DEF AckInv
<1> QED
  BY AcquireInvInit, AcquireInvNext, NextReusesNothing, NextKeepsAcks, <1>1, <1>2, PTL DEF Spec

----------------------------------------------------------------------------
(* Every declaration a row names is held. *)

DeclarationsHeld ==
  /\ StampedDeclarationIsHeld
  /\ \A a \in Acquirers : pc[a] # "idle" => decl[a] \in documents

LEMMA NextKeepsDeclarations ==
  LocalTypeOK /\ DeclarationsHeld /\ [Next]_vars => DeclarationsHeld'
<1> SUFFICES ASSUME LocalTypeOK, DeclarationsHeld, [Next]_vars PROVE DeclarationsHeld'
  OBVIOUS
<1> DEFINE Kept ==
      /\ UNCHANGED <<declaration, documents>>
      /\ \A a \in Acquirers : pc'[a] # "idle" => pc[a] # "idle" /\ decl'[a] = decl[a]
<1>0. Kept => DeclarationsHeld'
  BY DEF DeclarationsHeld, StampedDeclarationIsHeld
<1>1. ASSUME NEW a \in Acquirers, Declare(a)
      PROVE  DeclarationsHeld'
  BY <1>1 DEF Declare, Goto, avars, LocalTypeOK, LocalShapes, DeclarationsHeld,
              StampedDeclarationIsHeld
<1>2. ASSUME NEW a \in Acquirers, Issue(a)
      PROVE  DeclarationsHeld'
  <2>1. decl[a] \in documents /\ documents' = documents /\ decl' = decl
    BY <1>2 DEF Issue, tables, DeclarationsHeld
  <2>2. \A c \in Collections : declaration'[c] \in {declaration[c], decl[a]}
    BY <1>2 DEF Issue, IssueGenerations
  <2>3. \A b \in Acquirers : pc'[b] # "idle" => pc[b] # "idle"
    BY <1>2 DEF Issue, Goto, LocalTypeOK, LocalShapes
  <2> QED
    BY <2>1, <2>2, <2>3 DEF DeclarationsHeld, StampedDeclarationIsHeld
<1>3. ASSUME NEW a \in Acquirers, Return(a), UNCHANGED <<declaration, documents>>
      PROVE  Kept
  BY <1>3 DEF Return, Goto, LocalTypeOK, LocalShapes
<1>4. ASSUME NEW a \in Acquirers, Collect(a) \/ CheckDeclaration(a) \/ Judge(a) \/ GiveUp(a)
      PROVE  Kept
  BY <1>3, <1>4 DEF Collect, CheckDeclaration, Judge, GiveUp, Goto, avars, tables,
                    LocalTypeOK, LocalShapes
<1>5. ASSUME NEW a \in Acquirers, Apply(a)
      PROVE  Kept
  <2>1. CASE EndApply(a)
    BY <1>3, <2>1 DEF EndApply, Goto, avars, tables, LocalTypeOK, LocalShapes
  <2>2. CASE LandCommit(a)
    <3>1. declaration' = declaration
      BY <2>2 DEF LandCommit, ApplyCommitWith, LandReading, avars
    <3> QED
      BY <2>2, <3>1 DEF LandCommit, Goto, tables, LocalTypeOK, LocalShapes
  <2>3. CASE Hold(a) \/ LandDecline(a) \/ NoteAbsent(a) \/ LandFails(a)
    BY <2>3 DEF Hold, LandDecline, NoteAbsent, LandFails, MarkStaleWith, RecordAbsent,
                Goto, avars, tables, LocalTypeOK, LocalShapes
  <2>4. ASSUME NEW c \in Collections, NoteSkew(a, c) \/ NoteSkewFails(a, c)
        PROVE  Kept
    BY <2>4 DEF NoteSkew, NoteSkewFails, RecordTimensSkew, Goto, avars, tables,
                LocalTypeOK, LocalShapes
  <2> QED
    BY <1>5, <2>1, <2>2, <2>3, <2>4 DEF Apply
<1>6. ASSUME NEW a \in Acquirers, Conclude(a)
      PROVE  Kept
  <2>1. ASSUME NEW c \in Collections, Relate(a, c)
        PROVE  Kept
    BY <2>1 DEF Relate, avars
  <2>2. CASE EndRelate(a)
    <3>1. CASE Return(a)
      BY <1>3, <2>2, <3>1 DEF EndRelate, avars, tables
    <3>2. CASE Goto(a, "acking") /\ UNCHANGED <<decl, gens, batch, todo, current, failed>>
      BY <2>2, <3>2 DEF EndRelate, Goto, avars, tables, LocalTypeOK, LocalShapes
    <3> QED
      BY <2>2, <3>1, <3>2 DEF EndRelate
  <2>3. CASE RecordAck(a) \/ GiveUpLate(a)
    BY <1>3, <2>3 DEF RecordAck, GiveUpLate, avars, tables
  <2> QED
    BY <1>6, <2>1, <2>2, <2>3 DEF Conclude
<1>7. ASSUME Crash \/ (\E a \in Acquirers : Upgrade(a)) \/ UNCHANGED vars
      PROVE  Kept
  BY <1>7 DEF Crash, Upgrade, vars, localvars, avars, tables
<1> QED
  BY <1>0, <1>1, <1>2, <1>4, <1>5, <1>6, <1>7 DEF Next, AcquireOnce, Fetch

(* RecordDeclaration comes before IssueGenerations, so wherever a crash or *)
(* an upgrade falls between them, the document a row names is held.        *)
THEOREM DeclarationsAreHeld == Spec => []StampedDeclarationIsHeld
<1>1. Init => DeclarationsHeld
  BY DEF Init, AuthorityInit, DeclarationsHeld, StampedDeclarationIsHeld
<1>2. AcquireInv => LocalTypeOK
  BY DEF AcquireInv
<1>3. DeclarationsHeld => StampedDeclarationIsHeld
  BY DEF DeclarationsHeld
<1> QED
  BY AcquireInvInit, AcquireInvNext, NextKeepsDeclarations, <1>1, <1>2, <1>3, PTL DEF Spec

----------------------------------------------------------------------------
(* Collections of one acquirer each.                                       *)
(*                                                                         *)
(* Between a commit and what follows it, its relations, RecordAbsent, the  *)
(* answer of the next round, nothing holds the collection: where two       *)
(* acquirers share it the three invariants below are false.  Where every   *)
(* collection has one acquirer, a generation still to be answered is above *)
(* all that was applied or answered, so what is answered is what decides.  *)

Disjoint == \A a, b \in Acquirers : a # b => NamesOf[a] \cap NamesOf[b] = {}

(* c's answer in a's batch is still to come. *)
Unanswered(a, c) ==
  \/ pc[a] \in Unlanded
  \/ pc[a] \in {"applying", "landing", "noting"} /\ c \in todo[a]
  \/ pc[a] = "landing" /\ c = current[a]

(* What a's batch committed of c was applied, to its scope. *)
WasApplied(a, c) ==
  batch[a].answers[c] \in Commits =>
    \E r \in ledger[c] : r.scope = batch[a].scope /\ r.gen = gens[a][c]

Own(a) ==
  /\ \A c \in NamesOf[a] : Unanswered(a, c) =>
       appliedGen[c] < gens[a][c] /\ \A n \in answered[c] : n.gen < gens[a][c]
  /\ pc[a] \in {"applying", "landing", "noting"} /\ ~failed[a] =>
       \A c \in NamesOf[a] : Unanswered(a, c) \/ WasApplied(a, c)
  /\ pc[a] = "relating" => \A c \in NamesOf[a] : WasApplied(a, c)
  /\ pc[a] = "noting" => \E r \in Newest(ledger[current[a]]) : r.kind = "absent"
  /\ pc[a] \in {"landing", "noting"} => current[a] \notin todo[a]

RowOK(c) ==
  /\ answered[c] \subseteq [gen : Nat, kind : {"commit", "absent", "declined"}]
  /\ \A n \in answered[c] : n.gen <= issuedGen[c]
  /\ (freshness[c] = "stale") <=> \E n \in Newest(answered[c]) : n.kind = "declined"
  /\ decline[c] = "absent" => \E r \in Newest(ledger[c]) : r.kind = "absent"
  /\ \A s \in Scopes : edges[c][s] # 0 =>
       \E r \in ledger[c] : r.scope = s /\ r.gen = edges[c][s]

OwnInv == DOMAIN answered = Collections
          /\ (\A a \in Acquirers : Own(a)) /\ (\A c \in Collections : RowOK(c))

(* A row nothing writes. *)
Still(c) ==
  /\ appliedGen'[c] = appliedGen[c] /\ ledger'[c] = ledger[c]
  /\ freshness'[c] = freshness[c] /\ decline'[c] = decline[c]
  /\ answered'[c] = answered[c] /\ edges'[c] = edges[c]

(* The newest of a set to which something newer is added. *)
LEMMA NewerIsNewest ==
  ASSUME NEW S, NEW n, n.gen \in Nat, \A m \in S : m.gen \in Nat /\ m.gen < n.gen
  PROVE  Newest(S \cup {n}) = {n}
BY DEF Newest

(* A step of one acquirer keeps the invariant if it keeps it of that       *)
(* acquirer and of the rows of its own that it writes.                     *)
LEMMA OwnStep ==
  ASSUME NEW a \in Acquirers, Disjoint, LocalTypeOK, OwnInv,
         \A b \in Acquirers \ {a} : Untouched(b) /\ gens'[b] = gens[b],
         \A c \in Collections : /\ issuedGen[c] \in Nat /\ issuedGen'[c] \in Nat
                                /\ issuedGen'[c] >= issuedGen[c],
         \A c \in Collections : Still(c) \/ (c \in NamesOf[a] /\ RowOK(c)'),
         DOMAIN answered' = Collections, Own(a)'
  PROVE  OwnInv'
<1>1. ASSUME NEW b \in Acquirers \ {a}
      PROVE  Own(b)'
  <2>1. Own(b) /\ Untouched(b) /\ gens'[b] = gens[b]
    BY DEF OwnInv
  <2>2. \A c \in NamesOf[b] : Still(c)
    BY NamesAssumption DEF Disjoint
  <2>3. pc[b] \in {"landing", "noting"} => current[b] \in NamesOf[b]
    BY DEF LocalTypeOK, LocalOK
  <2>4. \A c \in NamesOf[b] : /\ Unanswered(b, c)' <=> Unanswered(b, c)
                              /\ WasApplied(b, c)' <=> WasApplied(b, c)
    BY <2>1, <2>2 DEF Unanswered, WasApplied, Untouched, Still
  <2>5. pc'[b] = "noting" => Still(current[b])
    BY <2>1, <2>2, <2>3 DEF Untouched
  <2> QED
    BY <2>1, <2>2, <2>4, <2>5 DEF Own, Untouched, Still
<1>2. ASSUME NEW c \in Collections
      PROVE  RowOK(c)'
  <2>1. CASE Still(c)
    <3>1. RowOK(c)
      BY DEF OwnInv
    <3>2. answered'[c] \subseteq [gen : Nat, kind : {"commit", "absent", "declined"}]
      BY <2>1, <3>1 DEF Still, RowOK
    <3>3. \A n \in answered'[c] : n.gen <= issuedGen'[c]
      BY <2>1, <3>1, <3>2 DEF Still, RowOK
    <3> QED
      BY <2>1, <3>1, <3>2, <3>3 DEF Still, RowOK
  <2> QED
    BY <2>1
<1> QED
  BY <1>1, <1>2 DEF OwnInv

(* The step that writes no row at all. *)
LEMMA QuietOwnStep ==
  ASSUME NEW a \in Acquirers, Disjoint, LocalTypeOK, AuthorityTypeOK, OwnInv,
         UNCHANGED <<avars, edges, answered>>,
         \A b \in Acquirers \ {a} : Untouched(b) /\ gens'[b] = gens[b],
         Own(a)'
  PROVE  OwnInv'
<1>1. \A c \in Collections : Still(c)
  BY DEF Still, avars, content
<1>2. \A c \in Collections : /\ issuedGen[c] \in Nat /\ issuedGen'[c] \in Nat
                             /\ issuedGen'[c] >= issuedGen[c]
  BY DEF AuthorityTypeOK, avars
<1>3. DOMAIN answered' = Collections
  BY DEF OwnInv
<1> QED
  BY <1>1, <1>2, <1>3, OwnStep

LEMMA ReturnKeepsOwn ==
  ASSUME NEW a \in Acquirers, LocalTypeOK, Return(a)
  PROVE  Own(a)' /\ \A b \in Acquirers \ {a} : Untouched(b) /\ gens'[b] = gens[b]
<1>1. pc'[a] = "idle"
  BY DEF Return, Goto, LocalTypeOK, LocalShapes
<1>2. Own(a)'
  BY <1>1 DEF Own, Unanswered, Unlanded
<1>3. \A b \in Acquirers \ {a} : Untouched(b) /\ gens'[b] = gens[b]
  BY DEF Return, Goto, LocalTypeOK, LocalShapes, Untouched
<1> QED
  BY <1>2, <1>3

LEMMA FetchKeepsOwn ==
  ASSUME NEW a \in Acquirers, Disjoint, AcquireInv, OwnInv, Fetch(a)
  PROVE  OwnInv'
<1>0. /\ LocalTypeOK /\ AuthorityTypeOK /\ OneReadingPerGeneration /\ Own(a)
      /\ NamesOf[a] \subseteq Collections
  BY NamesAssumption DEF AcquireInv, AuthorityInv, OwnInv
<1>1. CASE Issue(a)
  <2>1. \A b \in Acquirers \ {a} : Untouched(b) /\ gens'[b] = gens[b]
    BY <1>0, <1>1 DEF Issue, Goto, Untouched, LocalTypeOK, LocalShapes
  <2>2. \A c \in Collections : Still(c)
    BY <1>1 DEF Issue, IssueGenerations, content, tables, Still
  <2>3. \A c \in Collections : /\ issuedGen[c] \in Nat /\ issuedGen'[c] \in Nat
                               /\ issuedGen'[c] >= issuedGen[c]
                               /\ c \in NamesOf[a] => issuedGen'[c] = issuedGen[c] + 1
    BY <1>0, <1>1 DEF Issue, IssueGenerations, AuthorityTypeOK
  <2>4. \A c \in NamesOf[a] : gens'[a][c] = issuedGen[c] + 1
    BY <1>0, <1>1, <2>3 DEF Issue, LocalTypeOK, LocalShapes
  <2>5. pc'[a] = "issued"
    BY <1>0, <1>1 DEF Issue, Goto, LocalTypeOK, LocalShapes
  <2>6. ASSUME NEW c \in NamesOf[a]
        PROVE  appliedGen'[c] < gens'[a][c] /\ \A n \in answered'[c] : n.gen < gens'[a][c]
    <3>1. c \in Collections /\ appliedGen[c] \in Nat /\ appliedGen[c] <= issuedGen[c]
      BY <1>0 DEF AuthorityTypeOK, OneReadingPerGeneration
    <3>2. \A n \in answered[c] : n.gen \in Nat /\ n.gen <= issuedGen[c]
      BY <3>1 DEF OwnInv, RowOK
    <3> QED
      BY <2>2, <2>3, <2>4, <3>1, <3>2 DEF Still
  <2>7. Own(a)'
    BY <2>5, <2>6 DEF Own
  <2>8. DOMAIN answered' = Collections
    BY <1>1 DEF Issue, OwnInv
  <2> QED
    BY <1>0, <2>1, <2>2, <2>3, <2>7, <2>8, OwnStep
<1>2. CASE Declare(a) \/ Collect(a) \/ CheckDeclaration(a) \/ Judge(a)
  <2>1. \A b \in Acquirers \ {a} : Untouched(b) /\ gens'[b] = gens[b]
    BY <1>0, <1>2 DEF Declare, Collect, CheckDeclaration, Judge, Goto, Untouched,
                      LocalTypeOK, LocalShapes
  <2>2. UNCHANGED <<avars, edges, answered, gens>>
    BY <1>2 DEF Declare, Collect, CheckDeclaration, Judge, tables
  <2>3. CASE Declare(a)
    <3>1. pc'[a] = "declared"
      BY <1>0, <2>3 DEF Declare, Goto, LocalTypeOK, LocalShapes
    <3>2. Own(a)'
      BY <3>1 DEF Own, Unanswered, Unlanded
    <3> QED
      BY <1>0, <2>1, <2>2, <3>2, QuietOwnStep
  <2>4. CASE Collect(a) \/ CheckDeclaration(a)
    <3>1. pc[a] \in Unlanded /\ pc'[a] \in {"collected", "fetched"}
      BY <1>0, <2>4 DEF Collect, CheckDeclaration, Goto, LocalTypeOK, LocalShapes, Unlanded
    <3>2. Own(a)'
      BY <1>0, <2>2, <3>1 DEF Own, Unanswered, avars, content
    <3> QED
      BY <1>0, <2>1, <2>2, <3>2, QuietOwnStep
  <2>5. CASE Judge(a)
    <3>1. pc[a] \in Unlanded /\ pc'[a] = "applying" /\ todo'[a] = NamesOf[a]
      BY <1>0, <2>5 DEF Judge, Goto, LocalTypeOK, LocalShapes, Unlanded
    <3>2. Own(a)'
      BY <1>0, <2>2, <3>1 DEF Own, Unanswered, avars, content
    <3> QED
      BY <1>0, <2>1, <2>2, <3>2, QuietOwnStep
  <2> QED
    BY <1>2, <2>3, <2>4, <2>5
<1>3. CASE GiveUp(a)
  <2>1. UNCHANGED <<avars, edges, answered>>
    BY <1>3 DEF GiveUp, tables
  <2> QED
    BY <1>0, <1>3, <2>1, ReturnKeepsOwn, QuietOwnStep DEF GiveUp
<1> QED
  BY <1>1, <1>2, <1>3 DEF Fetch

(* The steps of the apply loop that write no row these facts speak of. *)
LEMMA QuietApplyKeepsOwn ==
  ASSUME NEW a \in Acquirers, Disjoint, AcquireInv, OwnInv,
         \/ \E c \in Collections : NoteSkew(a, c) \/ NoteSkewFails(a, c)
         \/ Hold(a) \/ LandFails(a) \/ EndApply(a)
  PROVE  OwnInv'
<1>0. /\ LocalTypeOK /\ AuthorityTypeOK /\ Own(a)
      /\ NamesOf[a] \subseteq Collections /\ todo[a] \subseteq NamesOf[a]
  BY NamesAssumption DEF AcquireInv, AuthorityInv, OwnInv, LocalTypeOK, LocalOK
<1>1. \A c \in Collections : Still(c) /\ issuedGen' = issuedGen
  BY DEF NoteSkew, NoteSkewFails, Hold, LandFails, EndApply, RecordTimensSkew, avars,
         content, tables, Still
<1>2. \A b \in Acquirers \ {a} : Untouched(b) /\ gens'[b] = gens[b]
  BY <1>0, ReturnKeepsOwn
  DEF NoteSkew, NoteSkewFails, Hold, LandFails, EndApply, Goto, Untouched,
      LocalTypeOK, LocalShapes
<1>3. \A c \in NamesOf[a] : Still(c)
  BY <1>0, <1>1
<1>4. ASSUME NEW c \in Collections, NoteSkew(a, c)
      PROVE  Own(a)'
  <2>1. /\ pc[a] = "applying" /\ pc'[a] = "landing" /\ c \in todo[a]
        /\ todo'[a] = todo[a] \ {c} /\ current'[a] = c
        /\ batch' = batch /\ gens' = gens /\ failed' = failed
    BY <1>0, <1>4 DEF NoteSkew, Goto, LocalTypeOK, LocalShapes
  <2> QED
    BY <1>0, <1>3, <2>1 DEF Own, Unanswered, WasApplied, Unlanded, Still
<1>5. ASSUME NEW c \in Collections, NoteSkewFails(a, c)
      PROVE  Own(a)'
  <2>1. /\ pc[a] = "applying" /\ pc'[a] = pc[a] /\ todo'[a] = todo[a] \ {c}
        /\ gens' = gens /\ failed'[a]
    BY <1>0, <1>5 DEF NoteSkewFails, LocalTypeOK, LocalShapes
  <2> QED
    BY <1>0, <1>3, <2>1 DEF Own, Unanswered, Unlanded, Still
<1>6. ASSUME Hold(a)
      PROVE  Own(a)'
  <2>1. /\ pc[a] = "landing" /\ pc'[a] = "applying" /\ todo' = todo
        /\ batch' = batch /\ gens' = gens /\ failed' = failed
        /\ batch[a].answers[current[a]] \notin Commits
    BY <1>0, <1>6, AnswersAssumption DEF Hold, Goto, LocalTypeOK, LocalShapes, Answer, Commits
  <2> QED
    BY <1>0, <1>3, <2>1 DEF Own, Unanswered, WasApplied, Unlanded, Still
<1>7. ASSUME LandFails(a)
      PROVE  Own(a)'
  <2>1. /\ pc[a] \in {"landing", "noting"} /\ pc'[a] = "applying" /\ todo' = todo
        /\ gens' = gens /\ failed'[a]
    BY <1>0, <1>7 DEF LandFails, Goto, LocalTypeOK, LocalShapes
  <2> QED
    BY <1>0, <1>3, <2>1 DEF Own, Unanswered, Unlanded, Still
<1>8. ASSUME EndApply(a)
      PROVE  Own(a)'
  <2>1. CASE ~Return(a)
    <3>1. /\ pc[a] = "applying" /\ todo[a] = {} /\ ~failed[a] /\ pc'[a] = "relating"
          /\ batch' = batch /\ gens' = gens
      BY <1>0, <1>8, <2>1 DEF EndApply, Goto, LocalTypeOK, LocalShapes
    <3> QED
      BY <1>0, <1>3, <3>1 DEF Own, Unanswered, WasApplied, Unlanded, Still
  <2> QED
    BY <1>0, <2>1, ReturnKeepsOwn
<1>9. Own(a)'
  BY <1>4, <1>5, <1>6, <1>7, <1>8
<1>10. \A c \in Collections : /\ issuedGen[c] \in Nat /\ issuedGen'[c] \in Nat
                              /\ issuedGen'[c] >= issuedGen[c]
  BY <1>0, <1>1 DEF AuthorityTypeOK
<1>11. answered' = answered
  BY DEF NoteSkew, NoteSkewFails, Hold, LandFails, EndApply
<1> QED
  BY <1>0, <1>1, <1>2, <1>9, <1>10, <1>11, OwnStep DEF OwnInv

(* The collection being landed: its answer is still to come, so it is above *)
(* everything applied or answered.                                          *)
LEMMA LandingIsNewest ==
  ASSUME NEW a \in Acquirers, AcquireInv, GenerationNeverReused, OwnInv, pc[a] = "landing"
  PROVE  /\ current[a] \in NamesOf[a] /\ current[a] \in Collections
         /\ gens[a][current[a]] \in Nat /\ issuedGen[current[a]] \in Nat
         /\ appliedGen[current[a]] < gens[a][current[a]]
         /\ gens[a][current[a]] <= issuedGen[current[a]]
         /\ \A n \in answered[current[a]] : n.gen \in Nat /\ n.gen < gens[a][current[a]]
         /\ \A r \in ledger[current[a]] : r.gen \in Nat /\ r.gen < gens[a][current[a]]
<1> DEFINE c == current[a]
<1>1. c \in NamesOf[a] /\ c \in Collections
  BY NamesAssumption DEF AcquireInv, LocalTypeOK, LocalOK
<1>2. gens[a][c] \in Nat /\ issuedGen[c] \in Nat /\ appliedGen[c] \in Nat
  BY <1>1, MaxGenAssumption DEF AcquireInv, AuthorityInv, AuthorityTypeOK, LocalTypeOK,
                                LocalShapes
<1>3. appliedGen[c] < gens[a][c] /\ \A n \in answered[c] : n.gen < gens[a][c]
  BY <1>1 DEF OwnInv, Own, Unanswered
<1>4. \A n \in answered[c] : n.gen \in Nat
  BY <1>1 DEF OwnInv, RowOK
<1>5. gens[a][c] <= issuedGen[c]
  BY <1>1, <1>2, <1>3 DEF GenerationNeverReused
<1>6. \A r \in ledger[c] : r.gen \in Nat /\ r.gen < gens[a][c]
  BY <1>1, <1>2, <1>3 DEF AcquireInv, AuthorityInv, OneReadingPerGeneration
<1> QED
  BY <1>1, <1>2, <1>3, <1>4, <1>5, <1>6

(* Once it has landed the others of the batch stand as they stood. *)
LEMMA LandedKeepsOwn ==
  ASSUME NEW a \in Acquirers, NEW c, LocalTypeOK, Own(a), c = current[a],
         pc[a] \in {"landing", "noting"}, pc'[a] = "applying",
         UNCHANGED <<todo, batch, gens>>, failed'[a] = failed[a] \/ failed'[a],
         failed[a] \/ WasApplied(a, c)', \A d \in NamesOf[a] \ {c} : Still(d)
  PROVE  Own(a)'
<1>1. \A d \in NamesOf[a] : Unanswered(a, d)' => Unanswered(a, d) /\ d # c
  BY DEF Own, Unanswered, Unlanded
<1>2. \A d \in NamesOf[a] : Unanswered(a, d) => d = c \/ Unanswered(a, d)'
  BY DEF Unanswered, Unlanded
<1>3. \A d \in NamesOf[a] \ {c} : WasApplied(a, d) => WasApplied(a, d)'
  BY DEF WasApplied, Still
<1> QED
  BY <1>1, <1>2, <1>3 DEF Own, Still

(* An answer that takes its place above the others decides the row. *)
LEMMA AnsweredKeepsRow ==
  ASSUME NEW c \in Collections, NEW g \in Nat, NEW k \in {"commit", "absent", "declined"},
         RowOK(c), issuedGen' = issuedGen, g <= issuedGen[c],
         \A m \in answered[c] : m.gen < g,
         answered'[c] = answered[c] \cup {[gen |-> g, kind |-> k]},
         (freshness'[c] = "stale") <=> k = "declined",
         decline'[c] # "absent", ledger[c] \subseteq ledger'[c], edges'[c] = edges[c]
  PROVE  RowOK(c)'
<1> DEFINE n == [gen |-> g, kind |-> k]
<1>1. answered[c] \subseteq [gen : Nat, kind : {"commit", "absent", "declined"}]
  BY DEF RowOK
<1>2. answered'[c] \subseteq [gen : Nat, kind : {"commit", "absent", "declined"}]
  BY <1>1
<1>3. Newest(answered'[c]) = {n}
  <2>1. n.gen \in Nat /\ \A m \in answered[c] : m.gen \in Nat /\ m.gen < n.gen
    BY <1>1
  <2>2. answered'[c] = answered[c] \cup {n}
    OBVIOUS
  <2> HIDE DEF n
  <2> QED
    BY <2>1, <2>2, NewerIsNewest
<1>4. (\E m \in Newest(answered'[c]) : m.kind = "declined") <=> k = "declined"
  <2>1. n.kind = k
    OBVIOUS
  <2> HIDE DEF n
  <2> QED
    BY <1>3, <2>1
<1>5. \A m \in answered'[c] : m.gen <= issuedGen'[c]
  BY DEF RowOK
<1>6. \A s \in Scopes : edges'[c][s] # 0 =>
        \E r \in ledger'[c] : r.scope = s /\ r.gen = edges'[c][s]
  BY DEF RowOK
<1> QED
  BY <1>2, <1>4, <1>5, <1>6 DEF RowOK

LEMMA LandDeclineKeepsOwn ==
  ASSUME NEW a \in Acquirers, Disjoint, AcquireInv, GenerationNeverReused, OwnInv,
         LandDecline(a)
  PROVE  OwnInv'
<1>0. LocalTypeOK /\ AuthorityTypeOK /\ Own(a) /\ NamesOf[a] \subseteq Collections
  BY NamesAssumption DEF AcquireInv, AuthorityInv, OwnInv
<1> SUFFICES ASSUME NEW c, c = current[a] PROVE OwnInv'
  OBVIOUS
<1>1. /\ pc[a] = "landing" /\ pc'[a] = "applying" /\ UNCHANGED <<todo, batch, gens, failed>>
      /\ batch[a].answers[c] \notin Commits
  BY <1>0, AnswersAssumption DEF LandDecline, Goto, LocalTypeOK, LocalShapes, Answer, Commits
<1>2. /\ c \in NamesOf[a] /\ c \in Collections
      /\ gens[a][c] \in Nat /\ gens[a][c] <= issuedGen[c]
      /\ \A m \in answered[c] : m.gen \in Nat /\ m.gen < gens[a][c]
  BY <1>1, LandingIsNewest
<1>3. /\ UNCHANGED <<appliedGen, ledger, issuedGen, edges>>
      /\ freshness' = [freshness EXCEPT ![c] = "stale"]
      /\ decline' = [decline EXCEPT ![c] = "declined"]
      /\ answered' = [answered EXCEPT ![c] =
                        @ \cup {[gen |-> gens[a][c], kind |-> "declined"]}]
  BY DEF LandDecline, MarkStaleWith, LogAnswer, content, tables
<1>4. DOMAIN answered = Collections /\ DOMAIN answered' = Collections
  BY <1>3 DEF OwnInv
<1>5. \A d \in Collections \ {c} : Still(d)
  BY <1>0, <1>3, <1>4 DEF AuthorityTypeOK, Still
<1>6. RowOK(c)'
  <2>1. /\ answered'[c] = answered[c] \cup {[gen |-> gens[a][c], kind |-> "declined"]}
        /\ freshness'[c] = "stale" /\ decline'[c] = "declined"
    BY <1>0, <1>2, <1>3, <1>4 DEF AuthorityTypeOK
  <2>2. RowOK(c)
    BY <1>2 DEF OwnInv
  <2> QED
    BY <1>2, <1>3, <2>1, <2>2, AnsweredKeepsRow
<1>7. Own(a)'
  <2>1. WasApplied(a, c)'
    BY <1>1 DEF WasApplied
  <2> QED
    BY <1>0, <1>1, <1>5, <2>1, LandedKeepsOwn
<1>8. \A b \in Acquirers \ {a} : Untouched(b) /\ gens'[b] = gens[b]
  BY <1>0 DEF LandDecline, Goto, Untouched, LocalTypeOK, LocalShapes
<1>9. \A d \in Collections : issuedGen[d] \in Nat /\ issuedGen'[d] \in Nat
                              /\ issuedGen'[d] >= issuedGen[d]
  BY <1>0, <1>3 DEF AuthorityTypeOK
<1> QED
  BY <1>0, <1>2, <1>4, <1>5, <1>6, <1>7, <1>8, <1>9, OwnStep

(* Of its own collections, an acquirer's commit always applies. *)
LEMMA LandCommitKeepsOwn ==
  ASSUME NEW a \in Acquirers, Disjoint, AcquireInv, GenerationNeverReused, OwnInv,
         LandCommit(a)
  PROVE  OwnInv'
<1>0. LocalTypeOK /\ AuthorityTypeOK /\ Own(a) /\ NamesOf[a] \subseteq Collections
  BY NamesAssumption DEF AcquireInv, AuthorityInv, OwnInv
<1> SUFFICES ASSUME NEW c, c = current[a], NEW r, r = ReadingOf(a) PROVE OwnInv'
  OBVIOUS
<1> DEFINE k == IF Answer(a) = "absent" THEN "absent" ELSE "commit"
<1>1. pc[a] = "landing" /\ UNCHANGED <<todo, batch, gens, current>>
  BY DEF LandCommit
<1>2. /\ c \in NamesOf[a] /\ c \in Collections
      /\ gens[a][c] \in Nat /\ issuedGen[c] \in Nat
      /\ appliedGen[c] < gens[a][c] /\ gens[a][c] <= issuedGen[c]
      /\ \A m \in answered[c] : m.gen \in Nat /\ m.gen < gens[a][c]
      /\ \A q \in ledger[c] : q.gen \in Nat /\ q.gen < gens[a][c]
  BY <1>1, LandingIsNewest
<1>3. r.gen = gens[a][c] /\ r.scope = batch[a].scope /\ r.kind = k
  BY DEF ReadingOf
<1>4. Outcome(c, r) = "applied"
  <2>1. appliedGen[c] \in Nat
    BY <1>0, <1>2 DEF AuthorityTypeOK
  <2> QED
    BY <1>2, <1>3, <2>1 DEF Outcome, Unissued
<1>5. LandReading(c, r)
  BY <1>4 DEF LandCommit, ApplyCommitWith
<1>6. /\ UNCHANGED <<issuedGen, edges>>
      /\ appliedGen' = [appliedGen EXCEPT ![c] = r.gen]
      /\ ledger' = [ledger EXCEPT ![c] = ledger[c] \cup {r}]
      /\ freshness' = [freshness EXCEPT ![c] = "current"]
      /\ decline' = [decline EXCEPT ![c] = "none"]
      /\ answered' = [answered EXCEPT ![c] = @ \cup {[gen |-> gens[a][c], kind |-> k]}]
  BY <1>5 DEF LandReading, StampReading, ClearDecline, LandCommit, LogAnswer, tables
<1>7. DOMAIN answered = Collections /\ DOMAIN answered' = Collections
  BY <1>6 DEF OwnInv
<1>8. \A d \in Collections \ {c} : Still(d)
  BY <1>0, <1>6, <1>7 DEF AuthorityTypeOK, Still
<1>9. /\ answered'[c] = answered[c] \cup {[gen |-> gens[a][c], kind |-> k]}
      /\ ledger'[c] = ledger[c] \cup {r}
      /\ freshness'[c] = "current" /\ decline'[c] = "none"
  BY <1>0, <1>2, <1>6, <1>7 DEF AuthorityTypeOK
<1>10. k \in {"commit", "absent"} /\ (Answer(a) = "absent" <=> k = "absent")
  OBVIOUS
<1> HIDE DEF k
<1>11. RowOK(c)'
  <2>1. RowOK(c)
    BY <1>2 DEF OwnInv
  <2> QED
    BY <1>2, <1>6, <1>9, <1>10, <2>1, AnsweredKeepsRow
<1>12. WasApplied(a, c)'
  BY <1>1, <1>3, <1>9 DEF WasApplied
<1>13. Own(a)'
  <2>1. CASE pc'[a] = "applying"
    <3>1. failed'[a] = failed[a] \/ failed'[a]
      BY <1>0 DEF LandCommit, KeepRecord, LocalTypeOK, LocalShapes
    <3> QED
      BY <1>0, <1>1, <1>8, <1>12, <2>1, <3>1, LandedKeepsOwn
  <2>2. CASE pc'[a] = "noting"
    <3>1. k = "absent" /\ failed' = failed
      BY <1>0, <1>4, <1>10, <2>2 DEF LandCommit, Goto, LocalTypeOK, LocalShapes
    <3>2. Newest(ledger'[c]) = {r}
      <4>1. r.gen \in Nat /\ \A q \in ledger[c] : q.gen \in Nat /\ q.gen < r.gen
        BY <1>2, <1>3
      <4>2. Newest(ledger[c] \cup {r}) = {r}
        BY <4>1, NewerIsNewest
      <4> QED
        BY <1>9, <4>2
    <3>3. \A d \in NamesOf[a] : Unanswered(a, d)' => Unanswered(a, d) /\ d # c
      BY <1>0, <1>1, <2>2 DEF Own, Unanswered, Unlanded
    <3>4. \A d \in NamesOf[a] : Unanswered(a, d) => d = c \/ Unanswered(a, d)'
      BY <1>1, <2>2 DEF Unanswered, Unlanded
    <3>5. \A d \in NamesOf[a] \ {c} : WasApplied(a, d) => WasApplied(a, d)'
      BY <1>0, <1>1, <1>8 DEF WasApplied, Still
    <3>6. \A d \in NamesOf[a] \ {c} : Still(d)
      BY <1>0, <1>8
    <3> QED
      BY <1>0, <1>1, <1>3, <1>12, <2>2, <3>1, <3>2, <3>3, <3>4, <3>5, <3>6 DEF Own, Still
  <2>3. pc'[a] \in {"applying", "noting"}
    BY <1>0 DEF LandCommit, Goto, LocalTypeOK, LocalShapes
  <2> QED
    BY <2>1, <2>2, <2>3
<1>14. \A b \in Acquirers \ {a} : Untouched(b) /\ gens'[b] = gens[b]
  BY <1>0 DEF LandCommit, KeepRecord, Goto, Untouched, LocalTypeOK, LocalShapes
<1>15. \A d \in Collections : issuedGen[d] \in Nat /\ issuedGen'[d] \in Nat
                               /\ issuedGen'[d] >= issuedGen[d]
  BY <1>0, <1>6 DEF AuthorityTypeOK
<1> QED
  BY <1>0, <1>2, <1>7, <1>8, <1>11, <1>13, <1>14, <1>15, OwnStep

LEMMA NoteAbsentKeepsOwn ==
  ASSUME NEW a \in Acquirers, Disjoint, AcquireInv, OwnInv, NoteAbsent(a)
  PROVE  OwnInv'
<1>0. LocalTypeOK /\ AuthorityTypeOK /\ Own(a) /\ NamesOf[a] \subseteq Collections
  BY NamesAssumption DEF AcquireInv, AuthorityInv, OwnInv
<1> SUFFICES ASSUME NEW c, c = current[a] PROVE OwnInv'
  OBVIOUS
<1>1. /\ pc[a] = "noting" /\ pc'[a] = "applying" /\ UNCHANGED <<todo, batch, gens>>
      /\ c \in NamesOf[a] /\ c \in Collections
  BY <1>0 DEF NoteAbsent, Goto, LocalTypeOK, LocalShapes, LocalOK
<1>2. /\ UNCHANGED <<appliedGen, ledger, issuedGen, freshness, edges, answered>>
      /\ decline' = [decline EXCEPT ![c] = "absent"]
  BY DEF NoteAbsent, RecordAbsent, content, tables
<1>3. \A d \in Collections \ {c} : Still(d)
  BY <1>0, <1>2 DEF AuthorityTypeOK, Still
<1>4. RowOK(c)'
  <2>1. \E r \in Newest(ledger'[c]) : r.kind = "absent"
    BY <1>0, <1>1, <1>2 DEF Own
  <2>2. RowOK(c)
    BY <1>1 DEF OwnInv
  <2> QED
    BY <1>2, <2>1, <2>2 DEF RowOK
<1>5. Own(a)'
  <2>1. failed'[a] = failed[a] \/ failed'[a]
    BY <1>0 DEF NoteAbsent, KeepRecord, LocalTypeOK, LocalShapes
  <2>2. failed[a] \/ WasApplied(a, c)'
    BY <1>0, <1>1, <1>2 DEF Own, Unanswered, WasApplied, Unlanded
  <2> QED
    BY <1>0, <1>1, <1>3, <2>1, <2>2, LandedKeepsOwn
<1>6. \A b \in Acquirers \ {a} : Untouched(b) /\ gens'[b] = gens[b]
  BY <1>0 DEF NoteAbsent, KeepRecord, Goto, Untouched, LocalTypeOK, LocalShapes
<1>7. \A d \in Collections : issuedGen[d] \in Nat /\ issuedGen'[d] \in Nat
                              /\ issuedGen'[d] >= issuedGen[d]
  BY <1>0, <1>2 DEF AuthorityTypeOK
<1>8. DOMAIN answered' = Collections
  BY <1>2 DEF OwnInv
<1> QED
  BY <1>0, <1>1, <1>3, <1>4, <1>5, <1>6, <1>7, <1>8, OwnStep

(* The edges Relate stores are those of the commit the loop applied. *)
LEMMA RelateKeepsOwn ==
  ASSUME NEW a \in Acquirers, NEW c \in Collections, Disjoint, AcquireInv, OwnInv,
         Relate(a, c)
  PROVE  OwnInv'
<1>0. /\ LocalTypeOK /\ AuthorityTypeOK /\ Own(a) /\ RowOK(c)
      /\ NamesOf[a] \subseteq Collections /\ todo[a] \subseteq NamesOf[a]
  BY NamesAssumption DEF AcquireInv, AuthorityInv, OwnInv, LocalTypeOK, LocalOK
<1>1. /\ pc[a] = "relating" /\ UNCHANGED <<avars, pc, batch, gens, answered>>
      /\ c \in NamesOf[a]
  BY <1>0 DEF Relate
<1>2. UNCHANGED <<appliedGen, ledger, issuedGen, freshness, decline, answered>>
  BY <1>1 DEF avars, content
<1>3. Own(a)'
  BY <1>0, <1>1, <1>2 DEF Own, Unanswered, WasApplied, Unlanded
<1>4. \A b \in Acquirers \ {a} : Untouched(b) /\ gens'[b] = gens[b]
  BY <1>0 DEF Relate, Untouched, LocalTypeOK, LocalShapes
<1>5. CASE edges' = edges
  <2>1. UNCHANGED <<avars, edges, answered>>
    BY <1>1, <1>5
  <2> QED
    BY <1>0, <1>3, <1>4, <2>1, QuietOwnStep
<1>6. CASE /\ batch[a].answers[c] \in Commits
           /\ edges' = [edges EXCEPT ![c] = [edges[c] EXCEPT ![batch[a].scope] = gens[a][c]]]
  <2>1. \A d \in Collections \ {c} : Still(d)
    BY <1>2, <1>6 DEF Still
  <2>2. \E r \in ledger[c] : r.scope = batch[a].scope /\ r.gen = gens[a][c]
    BY <1>0, <1>1, <1>6 DEF Own, WasApplied
  <2>3. ASSUME NEW s \in Scopes
        PROVE  edges'[c][s] = edges[c][s] \/ (s = batch[a].scope /\ edges'[c][s] = gens[a][c])
    BY <1>6
  <2>4. RowOK(c)'
    BY <1>0, <1>2, <2>2, <2>3 DEF RowOK
  <2>5. \A d \in Collections : issuedGen[d] \in Nat /\ issuedGen'[d] \in Nat
                                /\ issuedGen'[d] >= issuedGen[d]
    BY <1>0, <1>2 DEF AuthorityTypeOK
  <2>6. DOMAIN answered' = Collections
    BY <1>2 DEF OwnInv
  <2> QED
    BY <1>0, <1>1, <1>3, <1>4, <2>1, <2>4, <2>5, <2>6, OwnStep
<1> QED
  BY <1>5, <1>6 DEF Relate, Commits

LEMMA NextKeepsOwn ==
  Disjoint /\ AcquireInv /\ GenerationNeverReused /\ OwnInv /\ [Next]_vars => OwnInv'
<1> SUFFICES ASSUME Disjoint, AcquireInv, GenerationNeverReused, OwnInv, [Next]_vars
             PROVE  OwnInv'
  OBVIOUS
<1>0. LocalTypeOK /\ AuthorityTypeOK
  BY DEF AcquireInv, AuthorityInv
<1>1. ASSUME NEW a \in Acquirers, Apply(a)
      PROVE  OwnInv'
  BY <1>1, QuietApplyKeepsOwn, LandDeclineKeepsOwn, LandCommitKeepsOwn, NoteAbsentKeepsOwn
  DEF Apply
<1>2. ASSUME NEW a \in Acquirers, EndRelate(a) \/ RecordAck(a) \/ GiveUpLate(a)
      PROVE  OwnInv'
  <2>1. UNCHANGED <<avars, edges, answered>>
    BY <1>2 DEF EndRelate, RecordAck, GiveUpLate, tables
  <2>2. CASE Return(a)
    BY <1>0, <2>1, <2>2, ReturnKeepsOwn, QuietOwnStep
  <2>3. CASE ~Return(a)
    <3>1. pc'[a] = "acking"
      BY <1>0, <1>2, <2>3 DEF EndRelate, RecordAck, GiveUpLate, Goto, LocalTypeOK, LocalShapes
    <3>2. Own(a)'
      BY <3>1 DEF Own, Unanswered, Unlanded
    <3>3. \A b \in Acquirers \ {a} : Untouched(b) /\ gens'[b] = gens[b]
      BY <1>0, <1>2, <2>3 DEF EndRelate, RecordAck, GiveUpLate, Goto, Untouched,
                              LocalTypeOK, LocalShapes
    <3> QED
      BY <1>0, <2>1, <3>2, <3>3, QuietOwnStep
  <2> QED
    BY <2>2, <2>3
<1>3. CASE Crash
  <2>1. \A a \in Acquirers : Own(a)'
    BY <1>3 DEF Crash, Own, Unanswered, Unlanded
  <2>2. UNCHANGED <<avars, edges, answered>>
    BY <1>3 DEF Crash, tables
  <2>3. \A c \in Collections : RowOK(c)'
    BY <2>2 DEF OwnInv, RowOK, avars, content
  <2> QED
    BY <2>1, <2>2, <2>3 DEF OwnInv
<1>4. CASE (\E a \in Acquirers : Upgrade(a)) \/ UNCHANGED vars
  <2>1. UNCHANGED <<avars, edges, answered, localvars>>
    BY <1>4 DEF Upgrade, vars, tables
  <2>2. \A a \in Acquirers : Own(a)'
    BY <2>1 DEF OwnInv, Own, Unanswered, WasApplied, localvars, avars, content
  <2>3. \A c \in Collections : RowOK(c)'
    BY <2>1 DEF OwnInv, RowOK, avars, content
  <2> QED
    BY <2>1, <2>2, <2>3 DEF OwnInv
<1> QED
  BY <1>1, <1>2, <1>3, <1>4, FetchKeepsOwn, RelateKeepsOwn DEF Next, AcquireOnce, Conclude

LEMMA InitOwn == Init => GenerationNeverReused /\ OwnInv
<1> SUFFICES ASSUME Init PROVE GenerationNeverReused /\ OwnInv
  OBVIOUS
<1>1. GenerationNeverReused
  BY DEF Init, GenerationNeverReused, NoGens
<1>2. \A a \in Acquirers : Own(a)
  BY DEF Init, Own, Unanswered, Unlanded
<1>3. \A c \in Collections : RowOK(c)
  BY DEF Init, AuthorityInit, RowOK, Newest
<1> QED
  BY <1>1, <1>2, <1>3 DEF Init, OwnInv

LEMMA OwnAlways == ASSUME Disjoint PROVE Spec => []OwnInv
BY AcquireInvInit, AcquireInvNext, NextReusesNothing, InitOwn, NextKeepsOwn, PTL DEF Spec

(* Stored edges are the assertions of a reading applied to their scope:    *)
(* applyRelations asks only whether the batch committed, and with one      *)
(* acquirer to a collection what committed was applied.                    *)
THEOREM EdgesAreOfWhatWasApplied ==
  ASSUME Disjoint PROVE Spec => []EdgesComeFromAppliedReading
<1>1. OwnInv => EdgesComeFromAppliedReading
  BY DEF OwnInv, RowOK, EdgesComeFromAppliedReading
<1> QED
  BY OwnAlways, <1>1, PTL

(* MarkStaleWith and the clearing of the marks compare no generations; it  *)
(* is the single acquirer that makes the last answer the newest.           *)
THEOREM NewestAnswerDecides ==
  ASSUME Disjoint PROVE Spec => []NewestAnswerDecidesStale
<1>1. OwnInv => NewestAnswerDecidesStale
  BY DEF OwnInv, RowOK, NewestAnswerDecidesStale
<1> QED
  BY OwnAlways, <1>1, PTL

(* RecordAbsent is a write of its own, after the apply; nothing of another *)
(* acquirer comes between, and a crash there leaves no mark.               *)
THEOREM AbsentIsTheNewestReading ==
  ASSUME Disjoint PROVE Spec => []AbsentIsNeverClaimedWrongly
<1>1. OwnInv => AbsentIsNeverClaimedWrongly
  BY DEF OwnInv, RowOK, AbsentIsNeverClaimedWrongly
<1> QED
  BY OwnAlways, <1>1, PTL
=============================================================================
