------------------------------ MODULE Acquire ------------------------------
(***************************************************************************)
(* Acquisition: AcquireOnce (collate/collate.go), one process per          *)
(* acquirer, over the batch authority.                                     *)
(*                                                                         *)
(* An acquirer is one caller of AcquireOnce: a collectorLoop goroutine     *)
(* (collate/run.go) runs it again and again.  Acquirers run concurrently,  *)
(* and DESIGN section 19 names two that start collections of one           *)
(* collector, the schedule and a watch; NamesOf says which collections an  *)
(* acquirer's declaration lists, so acquirers may or may not share them.   *)
(* Every store call is a step of its own, the collector may be upgraded    *)
(* between any two of its answers, any store call may fail, and the        *)
(* collator may die between any two steps.                                 *)
(*                                                                         *)
(* The collector process is the environment: a batch that passed           *)
(* wire.ParseBatch answers each issued collection with a commit, an        *)
(* "absent" commit, another decline, or not at all.  The rejections and    *)
(* cost columns are written here and read by no decision, and are left     *)
(* out; so is edge resolution, which has no bearing on which batch an edge *)
(* comes from.                                                             *)
(***************************************************************************)
EXTENDS BatchAuthority

CONSTANTS
  Acquirers,    \* concurrent callers of AcquireOnce
  NamesOf,      \* NamesOf[a]: the collections a's collector declares
  ScopeOf,      \* ScopeOf[a]: begin.instance, or the host-native scope
  BatchIds,     \* ids collectors mint; a faulty one may mint an id twice
  NoBatch       \* no batch: an empty slot

ASSUME NamesAssumption == NamesOf \in [Acquirers -> SUBSET Collections]
ASSUME BootsAssumption == Boots \subseteq Nat /\ Boots # {}
ASSUME ScopeAssumption == ScopeOf \in [Acquirers -> Scopes]
ASSUME AnswersAssumption == {"absent", "declined", "missing"} \cap Contents = {}

VARIABLES
  documents,    \* digests whose documents the `declarations` table holds
  acks,         \* acks[i]: the batch acknowledged under id i, or NoBatch
  edges,        \* edges[c][s]: generation whose assertions are stored, 0 none
  boot,         \* the host's boot id, numbered in the order of the boots
  running,      \* running[a]: the declaration a's collector would serve now
  pc,           \* pc[a]: where AcquireOnce is
  decl,         \* decl[a]: declHash, the declaration fetched first
  gens,         \* gens[a]: what IssueGenerations returned
  batch,        \* batch[a]: the parsed batch
  todo,         \* todo[a]: names the current loop has yet to visit
  current,      \* current[a]: the name applyCollection is working on
  failed,       \* failed[a]: firstErr # nil
  answered      \* history: answered[c], each finished answer [gen, kind]

localvars == <<pc, decl, gens, batch, todo, current, failed>>
tables == <<documents, acks, edges>>
vars == <<avars, tables, boot, running, localvars, answered>>

Answers == Contents \cup {"absent", "declined", "missing"}

Steps == {"idle", "declared", "issued", "collected", "fetched", "applying",
          "landing", "noting", "relating", "acking"}

WithBatch == {"collected", "fetched", "applying", "landing", "noting", "relating", "acking"}

BatchOf(a) ==
  [ id : BatchIds, gens : [Collections -> 0 .. MaxGen], scope : Scopes,
    declaration : Decls, boot : Boots, skew : Skews,
    answers : [NamesOf[a] -> Answers] ]

(* An acquirer's locals fit the place it has reached: from Collect on it   *)
(* holds a batch that answers its own names, and an error only ever stands *)
(* inside the two loops.                                                   *)
LocalOK(a) ==
  /\ pc[a] # "idle" => decl[a] \in Decls
  /\ pc[a] \in WithBatch => batch[a] \in BatchOf(a)
  /\ todo[a] \subseteq NamesOf[a]
  /\ pc[a] \in {"landing", "noting"} => current[a] \in NamesOf[a]
  /\ failed[a] => pc[a] \in {"applying", "landing", "noting", "relating"}

LocalShapes ==
  /\ pc \in [Acquirers -> Steps]
  /\ decl \in [Acquirers -> Decls \cup {None}]
  /\ gens \in [Acquirers -> [Collections -> 0 .. MaxGen]]
  /\ DOMAIN batch = Acquirers
  /\ todo \in [Acquirers -> SUBSET Collections]
  /\ current \in [Acquirers -> Collections \cup {None}]
  /\ failed \in [Acquirers -> BOOLEAN]

LocalTypeOK ==
  /\ boot \in Boots
  /\ running \in [Acquirers -> Decls]
  /\ LocalShapes
  /\ \A a \in Acquirers : LocalOK(a)

TypeOK ==
  /\ AuthorityTypeOK
  /\ LocalTypeOK
  /\ documents \subseteq Decls
  /\ edges \in [Collections -> [Scopes -> 0 .. MaxGen]]

NoGens == [c \in Collections |-> 0]

Init ==
  /\ AuthorityInit
  /\ documents = {}
  /\ acks = [i \in BatchIds |-> NoBatch]
  /\ edges = [c \in Collections |-> [s \in Scopes |-> 0]]
  /\ boot \in Boots
  /\ running \in [Acquirers -> Decls]
  /\ pc = [a \in Acquirers |-> "idle"]
  /\ decl = [a \in Acquirers |-> None]
  /\ gens = [a \in Acquirers |-> NoGens]
  /\ batch = [a \in Acquirers |-> NoBatch]
  /\ todo = [a \in Acquirers |-> {}]
  /\ current = [a \in Acquirers |-> None]
  /\ failed = [a \in Acquirers |-> FALSE]
  /\ answered = [c \in Collections |-> {}]

Goto(a, step) == pc' = [pc EXCEPT ![a] = step]

(* AcquireOnce returns: its locals are gone. *)
Return(a) ==
  /\ Goto(a, "idle")
  /\ decl' = [decl EXCEPT ![a] = None]
  /\ gens' = [gens EXCEPT ![a] = NoGens]
  /\ batch' = [batch EXCEPT ![a] = NoBatch]
  /\ todo' = [todo EXCEPT ![a] = {}]
  /\ current' = [current EXCEPT ![a] = None]
  /\ failed' = [failed EXCEPT ![a] = FALSE]

----------------------------------------------------------------------------
(* Fetching a batch. *)

(* Mutant: the document itself is not kept. *)
DeclareUnrecorded(a) ==
  /\ pc[a] = "idle"
  /\ Goto(a, "declared")
  /\ decl' = [decl EXCEPT ![a] = running[a]]
  /\ UNCHANGED <<avars, tables, boot, running, gens, batch, todo, current, failed, answered>>

(* Declare, then RecordDeclaration.  A declaration that cannot be fetched  *)
(* or parsed ends the round with nothing written.                          *)
Declare(a) ==
  /\ pc[a] = "idle"
  /\ Goto(a, "declared")
  /\ decl' = [decl EXCEPT ![a] = running[a]]
  /\ documents' = documents \cup {running[a]}
  /\ UNCHANGED <<avars, acks, edges, boot, running, gens, batch, todo, current, failed, answered>>

(* Mutant: the next generation is taken from what was applied, so a number *)
(* is not spent until its batch lands.                                     *)
IssueFromApplied(a) ==
  /\ pc[a] = "declared"
  /\ \A c \in NamesOf[a] : appliedGen[c] < MaxGen
  /\ issuedGen' = [c \in Collections |->
                     IF c \in NamesOf[a] THEN appliedGen[c] + 1 ELSE issuedGen[c]]
  /\ declaration' = [c \in Collections |->
                       IF c \in NamesOf[a] THEN decl[a] ELSE declaration[c]]
  /\ UNCHANGED <<content, freshness, decline, timensSkew>>
  /\ gens' = [gens EXCEPT ![a] =
                [c \in Collections |-> IF c \in NamesOf[a] THEN issuedGen'[c] ELSE 0]]
  /\ Goto(a, "issued")
  /\ UNCHANGED <<tables, boot, running, decl, batch, todo, current, failed, answered>>

(* The generations are durable before the collector is asked. *)
Issue(a) ==
  /\ pc[a] = "declared"
  /\ IssueGenerations(NamesOf[a], decl[a])
  /\ gens' = [gens EXCEPT ![a] =
                [c \in Collections |-> IF c \in NamesOf[a] THEN issuedGen'[c] ELSE 0]]
  /\ Goto(a, "issued")
  /\ UNCHANGED <<tables, boot, running, decl, batch, todo, current, failed, answered>>

(* Collect returns a structurally valid batch.  begin carries the          *)
(* declaration the collector runs now, the boot and the clock offset.      *)
Collect(a) ==
  /\ pc[a] = "issued"
  /\ \E i \in BatchIds, k \in Skews, w \in [NamesOf[a] -> Answers] :
       batch' = [batch EXCEPT ![a] =
                   [id |-> i, gens |-> gens[a], scope |-> ScopeOf[a],
                    declaration |-> running[a], boot |-> boot, skew |-> k,
                    answers |-> w]]
  /\ Goto(a, "collected")
  /\ UNCHANGED <<avars, tables, boot, running, decl, gens, todo, current, failed, answered>>

(* begin.declaration against declHash; on a mismatch one refetch, which    *)
(* must produce exactly the declaration begin named.                       *)
CheckDeclaration(a) ==
  /\ pc[a] = "collected"
  /\ batch[a].declaration \in {decl[a], running[a]}
  /\ Goto(a, "fetched")
  /\ UNCHANGED <<avars, tables, boot, running, decl, gens, batch, todo, current, failed, answered>>

(* JudgeAcked: an id already acknowledged stops the round, silently for a  *)
(* retry and with a recorded protocol error for a reuse.  Otherwise the    *)
(* declared-facts check passes and the apply loop begins.                  *)
Judge(a) ==
  /\ pc[a] = "fetched"
  /\ acks[batch[a].id] = NoBatch
  /\ todo' = [todo EXCEPT ![a] = NamesOf[a]]
  /\ Goto(a, "applying")
  /\ UNCHANGED <<avars, tables, boot, running, decl, gens, batch, current, failed, answered>>

(* The round ends early with nothing more written: a store call failed, or *)
(* Collect failed or violated the wire contract, or no declaration matches *)
(* begin's, or the id was acknowledged before, or a fact was undeclared.   *)
GiveUp(a) ==
  /\ pc[a] \in {"declared", "issued", "collected", "fetched"}
  /\ Return(a)
  /\ UNCHANGED <<avars, tables, boot, running, answered>>

----------------------------------------------------------------------------
(* Applying it: applyCollection for each name. *)

(* The first statement: the clock-domain comparison. *)
NoteSkew(a, c) ==
  /\ pc[a] = "applying"
  /\ c \in todo[a]
  /\ RecordTimensSkew(c, batch[a].skew)
  /\ todo' = [todo EXCEPT ![a] = @ \ {c}]
  /\ current' = [current EXCEPT ![a] = c]
  /\ Goto(a, "landing")
  /\ UNCHANGED <<tables, boot, running, decl, gens, batch, failed, answered>>

(* A store error in that statement: the loop goes on to the next name. *)
NoteSkewFails(a, c) ==
  /\ pc[a] = "applying"
  /\ c \in todo[a]
  /\ todo' = [todo EXCEPT ![a] = @ \ {c}]
  /\ failed' = [failed EXCEPT ![a] = TRUE]
  /\ UNCHANGED <<avars, tables, boot, running, pc, decl, gens, batch, current, answered>>

Answer(a) == batch[a].answers[current[a]]

ReadingOf(a) ==
  [ gen         |-> gens[a][current[a]],
    scope       |-> batch[a].scope,
    content     |-> IF Answer(a) = "absent" THEN Empty ELSE Answer(a),
    kind        |-> IF Answer(a) = "absent" THEN "absent" ELSE "commit",
    boot        |-> batch[a].boot,
    declaration |-> batch[a].declaration,
    skew        |-> batch[a].skew ]

LogAnswer(a, kind) ==
  answered' = [answered EXCEPT ![current[a]] =
                 @ \cup {[gen |-> gens[a][current[a]], kind |-> kind]}]

(* Neither commit nor decline: held, never applied. *)
Hold(a) ==
  /\ pc[a] = "landing"
  /\ Answer(a) = "missing"
  /\ Goto(a, "applying")
  /\ UNCHANGED <<avars, tables, boot, running, decl, gens, batch, todo, current, failed, answered>>

(* Mutant: a decline is applied like an empty commit. *)
LandDeclineRetires(a) ==
  /\ pc[a] = "landing"
  /\ Answer(a) = "declined"
  /\ objects' = [objects EXCEPT ![current[a]] =
                   [objects[current[a]] EXCEPT ![batch[a].scope] = Empty]]
  /\ UNCHANGED <<issuedGen, appliedGen, contentHash, bootId, ledger, freshness,
                 decline, declaration, timensSkew>>
  /\ LogAnswer(a, "declined")
  /\ Goto(a, "applying")
  /\ UNCHANGED <<tables, boot, running, decl, gens, batch, todo, current, failed>>

(* unauthorised, unavailable, unsupported: prior objects stand, stale. *)
LandDecline(a) ==
  /\ pc[a] = "landing"
  /\ Answer(a) = "declined"
  /\ MarkStaleWith(current[a])
  /\ LogAnswer(a, "declined")
  /\ Goto(a, "applying")
  /\ UNCHANGED <<tables, boot, running, decl, gens, batch, todo, current, failed>>

(* recordSnapshot, which the Record module models, ends an applied commit. *)
(* It fails the collection only if the rejection it writes fails too.      *)
KeepRecord(a) == failed' \in {failed, [failed EXCEPT ![a] = TRUE]}

(* A commit: ApplyCommitWith, and on to RecordAbsent and recordSnapshot if *)
(* it applied.  Its "error" outcome never arises here: what AcquireOnce    *)
(* hands over was issued (GenerationNeverReused).                          *)
LandCommit(a) ==
  /\ pc[a] = "landing"
  /\ Answer(a) \in Contents \cup {"absent"}
  /\ ApplyCommitWith(current[a], ReadingOf(a))
  /\ LogAnswer(a, IF Answer(a) = "absent" THEN "absent" ELSE "commit")
  /\ LET landed == Outcome(current[a], ReadingOf(a)) = "applied"
     IN  \/ ~landed /\ Goto(a, "applying") /\ UNCHANGED failed
         \/ landed /\ Answer(a) = "absent" /\ Goto(a, "noting") /\ UNCHANGED failed
         \/ landed /\ Answer(a) # "absent" /\ Goto(a, "applying") /\ KeepRecord(a)
  /\ UNCHANGED <<tables, boot, running, decl, gens, batch, todo, current>>

NoteAbsent(a) ==
  /\ pc[a] = "noting"
  /\ RecordAbsent(current[a])
  /\ Goto(a, "applying")
  /\ KeepRecord(a)
  /\ UNCHANGED <<tables, boot, running, decl, gens, batch, todo, current, answered>>

(* A store call inside applyCollection returns an error: firstErr is kept  *)
(* and the loop goes on to the next collection.                            *)
LandFails(a) ==
  /\ pc[a] \in {"landing", "noting"}
  /\ failed' = [failed EXCEPT ![a] = TRUE]
  /\ Goto(a, "applying")
  /\ UNCHANGED <<avars, tables, boot, running, decl, gens, batch, todo, current, answered>>

(* Mutant: the error of an earlier collection is forgotten. *)
EndApplyForgets(a) ==
  /\ pc[a] = "applying"
  /\ todo[a] = {}
  /\ todo' = [todo EXCEPT ![a] = NamesOf[a]]
  /\ Goto(a, "relating")
  /\ failed' = [failed EXCEPT ![a] = FALSE]
  /\ UNCHANGED <<avars, tables, boot, running, decl, gens, batch, current, answered>>

(* After the loop: any error ends the round without relations or ack. *)
EndApply(a) ==
  /\ pc[a] = "applying"
  /\ todo[a] = {}
  /\ \/ failed[a] /\ Return(a)
     \/ /\ ~failed[a]
        /\ todo' = [todo EXCEPT ![a] = NamesOf[a]]
        /\ Goto(a, "relating")
        /\ UNCHANGED <<decl, gens, batch, current, failed>>
  /\ UNCHANGED <<avars, tables, boot, running, answered>>

----------------------------------------------------------------------------
(* Relations and the acknowledgement. *)

(* applyRelations: ApplyAssertions replaces the scope's edges in one       *)
(* transaction, or refuses the whole set and records why.  It asks whether *)
(* the collection committed in this batch, not whether the commit was      *)
(* applied.                                                                *)
Relate(a, c) ==
  /\ pc[a] = "relating"
  /\ c \in todo[a]
  /\ todo' = [todo EXCEPT ![a] = @ \ {c}]
  /\ \/ /\ batch[a].answers[c] \in Contents \cup {"absent"}
        /\ edges' = [edges EXCEPT ![c] = [edges[c] EXCEPT ![batch[a].scope] = gens[a][c]]]
        /\ UNCHANGED failed
     \/ UNCHANGED <<edges, failed>>                    \* not committed, or refused
     \/ failed' = [failed EXCEPT ![a] = TRUE] /\ UNCHANGED edges   \* a store error
  /\ UNCHANGED <<avars, documents, acks, boot, running, pc, decl, gens, batch, current, answered>>

(* Mutant: a failed relation does not stop the acknowledgement. *)
EndRelateForgives(a) ==
  /\ pc[a] = "relating"
  /\ todo[a] = {}
  /\ Goto(a, "acking")
  /\ UNCHANGED <<avars, tables, boot, running, decl, gens, batch, todo, current, failed, answered>>

(* After the relations: any error ends the round without an ack. *)
EndRelate(a) ==
  /\ pc[a] = "relating"
  /\ todo[a] = {}
  /\ \/ failed[a] /\ Return(a)
     \/ /\ ~failed[a]
        /\ Goto(a, "acking")
        /\ UNCHANGED <<decl, gens, batch, todo, current, failed>>
  /\ UNCHANGED <<avars, tables, boot, running, answered>>

(* RecordAck: ON CONFLICT DO NOTHING. *)
RecordAck(a) ==
  /\ pc[a] = "acking"
  /\ acks' = [acks EXCEPT ![batch[a].id] = IF @ = NoBatch THEN batch[a] ELSE @]
  /\ Return(a)
  /\ UNCHANGED <<avars, documents, edges, boot, running, answered>>

(* A store error in UpgradeUnresolved or RecordAck. *)
GiveUpLate(a) ==
  /\ pc[a] = "acking"
  /\ Return(a)
  /\ UNCHANGED <<avars, tables, boot, running, answered>>

----------------------------------------------------------------------------
(* The environment. *)

(* The collector is replaced by another build with another declaration. *)
Upgrade(a) ==
  /\ \E d \in Decls : d # running[a] /\ running' = [running EXCEPT ![a] = d]
  /\ UNCHANGED <<avars, tables, boot, localvars, answered>>

(* The collator, or the host under it, dies and starts again: every        *)
(* AcquireOnce is gone, every table is as the last statement left it.      *)
Crash ==
  /\ pc' = [a \in Acquirers |-> "idle"]
  /\ decl' = [a \in Acquirers |-> None]
  /\ gens' = [a \in Acquirers |-> NoGens]
  /\ batch' = [a \in Acquirers |-> NoBatch]
  /\ todo' = [a \in Acquirers |-> {}]
  /\ current' = [a \in Acquirers |-> None]
  /\ failed' = [a \in Acquirers |-> FALSE]
  /\ boot' \in {b \in Boots : b >= boot}
  /\ UNCHANGED <<avars, tables, running, answered>>

Fetch(a) ==
  Declare(a) \/ Issue(a) \/ Collect(a) \/ CheckDeclaration(a) \/ Judge(a) \/ GiveUp(a)

Apply(a) ==
  \/ \E c \in Collections : NoteSkew(a, c) \/ NoteSkewFails(a, c)
  \/ Hold(a) \/ LandDecline(a) \/ LandCommit(a) \/ NoteAbsent(a)
  \/ LandFails(a) \/ EndApply(a)

Conclude(a) ==
  \/ \E c \in Collections : Relate(a, c)
  \/ EndRelate(a) \/ RecordAck(a) \/ GiveUpLate(a)

AcquireOnce(a) == Fetch(a) \/ Apply(a) \/ Conclude(a)

Next == (\E a \in Acquirers : AcquireOnce(a) \/ Upgrade(a)) \/ Crash

Spec == Init /\ [][Next]_vars

----------------------------------------------------------------------------
(* Properties. *)

InFlight(c) == {a \in Acquirers : pc[a] # "idle" /\ c \in NamesOf[a]}

Newest(S) == {r \in S : \A q \in S : q.gen <= r.gen}

(* "A crash from here on can only ever waste a number, never reuse one":   *)
(* no two acquisitions ever hold one generation of one collection, and a   *)
(* batch that has yet to be applied never meets a reading already applied  *)
(* under its own generation.                                               *)
GenerationNeverReused ==
  \A a \in Acquirers, c \in Collections :
    gens[a][c] # 0 =>
      /\ gens[a][c] <= issuedGen[c]
      /\ \A b \in Acquirers \ {a} : gens[b][c] # gens[a][c]
      /\ pc[a] \in {"issued", "collected", "fetched"} =>
           \A r \in ledger[c] : r.gen # gens[a][c]

(* An acknowledged batch is durable: each collection it committed was      *)
(* applied, or a newer reading had been.  A crash or a failed store call   *)
(* before RecordAck leaves no acknowledgement behind.                      *)
AckedMeansApplied ==
  \A i \in BatchIds :
    acks[i] # NoBatch =>
      \A c \in DOMAIN acks[i].answers :
        acks[i].answers[c] \in Contents \cup {"absent"} =>
          appliedGen[c] >= acks[i].gens[c]

(* The document a row's declaration names is held, whatever crashes fall   *)
(* between RecordDeclaration and IssueGenerations.                         *)
StampedDeclarationIsHeld ==
  \A c \in Collections : declaration[c] \in documents \cup {None}

(* Stored edges are the assertions of a reading that was applied to the    *)
(* same scope: "an uncommitted collection is authoritative for nothing",   *)
(* and a commit below the applied generation is refused (DESIGN 19).       *)
EdgesComeFromAppliedReading ==
  \A c \in Collections, s \in Scopes :
    edges[c][s] # 0 => \E r \in ledger[c] : r.scope = s /\ r.gen = edges[c][s]

(* "The collator decides what is newest, not the arrival order" (DESIGN    *)
(* 19): a collection is stale exactly when the answer with the highest     *)
(* generation was a decline.                                               *)
NewestAnswerDecidesStale ==
  \A c \in Collections :
    (freshness[c] = "stale") <=>
      \E n \in Newest(answered[c]) : n.kind = "declined"

(* A row that says "absent" tells the truth: its newest applied reading    *)
(* found the interface not there, and nothing has been applied since.      *)
AbsentIsNeverClaimedWrongly ==
  \A c \in Collections :
    decline[c] = "absent" => \E r \in Newest(ledger[c]) : r.kind = "absent"

(* store.go, on CollectionState.Decline: an absent decline appears despite *)
(* having committed, because "the interface is not on this host" and "the  *)
(* interface holds nothing" "must not render alike".                       *)
AbsentNeverRendersAsEmpty ==
  \A c \in Collections :
    InFlight(c) = {} /\ (\E n \in Newest(answered[c]) : n.kind = "absent")
      => decline[c] = "absent"

(* collate.go, on hostPrefixes: "the collection being applied right now is *)
(* being applied under the declaration it arrived with".                   *)
AppliedUnderArrivingDeclaration ==
  \A a \in Acquirers :
    pc[a] \in {"applying", "landing", "noting", "relating"} =>
      decl[a] = batch[a].declaration

(* store.go, on TimensSkew: non-zero means every age derived from this     *)
(* collection's `at` is wrong by that much.  So a settled row's skew is    *)
(* the skew of the reading whose stamps it serves.                         *)
SkewQualifiesServedStamps ==
  \A c \in Collections :
    InFlight(c) = {} =>
      \A r \in Newest(ledger[c]) : timensSkew[c] = r.skew
=============================================================================
