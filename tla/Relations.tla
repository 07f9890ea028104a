------------------------------ MODULE Relations ------------------------------
(***************************************************************************)
(* The collator's relations: the edges between objects that the collectors *)
(* of one host assert, and how their far ends are found.                   *)
(*                                                                         *)
(* One goroutine per collector runs its batches one after the other, and   *)
(* the goroutines share one store with one connection, so they interleave  *)
(* between statements and transactions.  A batch                           *)
(*                                                                         *)
(*   1. stores the collector's declaration,                                *)
(*   2. reads the host,                                                    *)
(*   3. reads every stored declaration and indexes kind -> collection, a   *)
(*      kind two collections claim naming neither (prefixIndexTolerant),   *)
(*   4. replaces the collection's objects,                                 *)
(*   5. resolves each assertion by a query of its own, then replaces the   *)
(*      collection's edges in one transaction - unless two assertions have *)
(*      one key, which refuses the assembly and leaves the old edges,      *)
(*   6. reads the keys of every unresolved edge of the host and, key by    *)
(*      key, queries the far end and writes the answer (UpgradeUnresolved).*)
(*                                                                         *)
(* Objects and edges are replaced by two transactions, so a store error,   *)
(* or the death of the process, that comes between them leaves the objects *)
(* of one reading with the edges of an earlier one.                        *)
(*                                                                         *)
(* The names are data: what is kept of an edge is its key (collection,     *)
(* source, target name), the kind it names and whether it is resolved.     *)
(* Facts, vantage, observability and the discriminator values are left     *)
(* out: no shipped collector's batch can confirm an edge from both ends.   *)
(* Generations and refused commits are the module Acquire's.  The order of *)
(* the queries of steps 5 and 6 is left open: nothing rests on the order a *)
(* batch streams its objects in, and the SELECT of step 6 names none.      *)
(***************************************************************************)
EXTENDS Naturals, Sequences, FiniteSets

CONSTANTS
  Collectors,   \* one collection each: the collector stands for it
  Names,        \* the names objects carry
  Prefix,       \* [Collectors -> kind]: the prefix a declaration claims
  Answering,    \* those that go on answering, declines included
  Answers,      \* [Collectors -> what collect may answer]: objects, or Declined
  Links,        \* [Collectors -> [Names -> Seq(kind \X Names)]]: assertions
  MaxFailures   \* bounds the store errors and crashes of a behaviour

Declined == {"declined"}   \* no set of names: the batch carries no commit

ASSUME LinksAssumption ==
  /\ MaxFailures \in Nat
  /\ Answering \subseteq Collectors
  /\ \A c \in Collectors : Answers[c] \subseteq (SUBSET Names) \union {Declined}
  /\ \A c \in Collectors, n \in Names : \A i \in DOMAIN Links[c][n] :
       Links[c][n][i][2] \in Names

VARIABLES
  stored,   \* the collectors whose declaration the store holds
  objects,  \* what the store publishes, per collector
  edges,    \* the relations table: key -> [kind, resolved]
  landed,   \* history: the objects its edges were last assembled from
  behind,   \* history: those cut off or refused since, with older edges
  failures, \* the store errors and crashes so far
  pc,       \* where the collector's goroutine stands in AcquireOnce
  byKind,   \* its index, kind -> collector, as of step 3
  batch,    \* the objects its batch carries, or Declined
  work,     \* step 5: assertions still to resolve; step 6: keys to re-test
  hit,      \* step 6: the one of them found, when it is about to be written
  built     \* step 5: the relations resolved so far

goroutines == <<pc, byKind, batch, work, hit, built>>
tables == <<stored, objects, edges>>
history == <<landed, behind, failures>>
vars == <<tables, history, goroutines>>

Kinds == {Prefix[c] : c \in Collectors}

\* RelationKey: the source's minted id and the target's name, never the kind
Key(c, source, target) == <<c, source, target>>
Keys == UNION {{Key(c, s, Links[c][s][i][2]) : i \in DOMAIN Links[c][s]} :
                 c \in Collectors, s \in Names}
NoEdge == [k \in {} |-> 0]
NoHit == <<>>

(***************************************************************************)
(* hostPrefixes and prefixIndexTolerant: the batch's own entry and every   *)
(* stored declaration's; a contested kind is in nobody's domain.           *)
(***************************************************************************)
Claimants(known, kind) == {d \in known : Prefix[d] = kind}

PrefixIndex(known) ==
  [kind \in {k \in Kinds : Cardinality(Claimants(known, k)) = 1} |->
     CHOOSE d \in known : Prefix[d] = kind]

\* ResolverFor: the index of the batch, the objects of this moment
Resolves(c, kind, name) ==
  /\ kind \in DOMAIN byKind[c]
  /\ name \in objects[byKind[c][kind]]

\* The assertions of a batch
Assertions(c, names) ==
  UNION {{[key |-> Key(c, s, Links[c][s][i][2]), kind |-> Links[c][s][i][1]] :
            i \in DOMAIN Links[c][s]} : s \in names}

\* ApplyAssertions refuses a second assertion with the key of the first
Collides(c, names) ==
  \E s \in names : \E i, j \in DOMAIN Links[c][s] :
    i < j /\ Links[c][s][i][2] = Links[c][s][j][2]

Unresolved == {k \in DOMAIN edges : ~edges[k].resolved}

-----------------------------------------------------------------------------
Init ==
  /\ stored = {}
  /\ objects = [c \in Collectors |-> {}]
  /\ edges = NoEdge
  /\ landed = [c \in Collectors |-> {}]
  /\ behind = {}
  /\ failures = 0
  /\ pc = [c \in Collectors |-> "idle"]
  /\ byKind = [c \in Collectors |-> NoEdge]
  /\ batch = [c \in Collectors |-> Declined]
  /\ work = [c \in Collectors |-> {}]
  /\ hit = [c \in Collectors |-> NoHit]
  /\ built = [c \in Collectors |-> NoEdge]

\* AcquireOnce: declare answered, and the declaration is recorded
Declare(c) ==
  /\ pc[c] = "idle"
  /\ stored' = stored \union {c}
  /\ pc' = [pc EXCEPT ![c] = "collect"]
  /\ UNCHANGED <<objects, edges, history, byKind, batch, work, hit, built>>

\* collect answered: whatever is on the host at this moment, or a decline.
\* The declarations are indexed then, of which steps 2 and 3 make one step:
\* the answer is the goroutine's own.
Collect(c) ==
  /\ pc[c] = "collect"
  /\ \E answer \in Answers[c] : batch' = [batch EXCEPT ![c] = answer]
  /\ byKind' = [byKind EXCEPT ![c] = PrefixIndex(stored \union {c})]
  /\ pc' = [pc EXCEPT ![c] = "apply"]
  /\ UNCHANGED <<tables, history, work, hit, built>>

\* The exchange failed, the batch was void, unknown, already acknowledged or
\* carried an undeclared fact, or the declarations could not be read:
\* AcquireOnce returns, and nothing is swept
CollectFails(c) ==
  /\ pc[c] = "collect"
  /\ pc' = [pc EXCEPT ![c] = "idle"]
  /\ UNCHANGED <<tables, history, byKind, batch, work, hit, built>>

\* applyCollection, in a transaction of its own: a collection that did not
\* commit keeps its objects, and asserts nothing
Apply(c) ==
  /\ pc[c] = "apply"
  /\ UNCHANGED <<stored, edges, history, byKind, hit, built>>
  /\ \/ /\ batch[c] = Declined
        /\ pc' = [pc EXCEPT ![c] = "sweep"]
        /\ UNCHANGED <<objects, batch, work>>
     \/ /\ batch[c] # Declined
        /\ objects' = [objects EXCEPT ![c] = batch[c]]
        /\ batch' = [batch EXCEPT ![c] = Declined]
        /\ work' = [work EXCEPT ![c] = Assertions(c, batch[c])]
        /\ pc' = [pc EXCEPT ![c] = "resolve"]

\* The relations resolved so far and one more
WithBuilt(c, a, found) ==
  [k \in DOMAIN built[c] \union {a.key} |->
     IF k = a.key THEN [kind |-> a.kind, resolved |-> found] ELSE built[c][k]]

\* One assertion's far end is looked for, outside the transaction
Resolve(c) ==
  /\ pc[c] = "resolve"
  /\ \E a \in work[c] :
       /\ built' = [built EXCEPT ![c] = WithBuilt(c, a, Resolves(c, a.kind, a.key[3]))]
       /\ work' = [work EXCEPT ![c] = @ \ {a}]
  /\ UNCHANGED <<tables, history, pc, byKind, batch, hit>>

\* ApplyAssertions returns without its transaction, and what applyRelations
\* records of it ("relation-assembly") does not end the round
Unassembled(c) ==
  /\ behind' = behind \union {c}
  /\ work' = [work EXCEPT ![c] = {}]
  /\ built' = [built EXCEPT ![c] = NoEdge]
  /\ pc' = [pc EXCEPT ![c] = "sweep"]
  /\ UNCHANGED <<tables, landed, byKind, batch, hit>>

\* Two assertions collide
Refuse(c) ==
  /\ pc[c] = "resolve"
  /\ Collides(c, objects[c])
  /\ Unassembled(c)
  /\ UNCHANGED failures

\* Mutant: the edges of the last reading are left in place.
LandEdgesOver(c) ==
  [k \in DOMAIN edges \union DOMAIN built[c] |->
     IF k \in DOMAIN built[c] THEN built[c][k] ELSE edges[k]]

\* The transaction: every edge of the collection out, the resolved ones in
LandEdges(c) ==
  LET others == {k \in DOMAIN edges : k[1] # c}
  IN  [k \in others \union DOMAIN built[c] |->
         IF k \in others THEN edges[k] ELSE built[c][k]]

Land(c) ==
  /\ pc[c] = "resolve"
  /\ work[c] = {}
  /\ ~Collides(c, objects[c])
  /\ edges' = LandEdges(c)
  /\ landed' = [landed EXCEPT ![c] = objects[c]]
  /\ behind' = behind \ {c}
  /\ built' = [built EXCEPT ![c] = NoEdge]
  /\ pc' = [pc EXCEPT ![c] = "sweep"]
  /\ UNCHANGED <<stored, objects, failures, byKind, batch, work, hit>>

\* Mutant: an edge is only resolved when its own collection is read again.
NoneWaiting == {}

\* UpgradeUnresolved reads the keys of the whole host that wait
Waiting == {[key |-> k, kind |-> edges[k].kind] : k \in Unresolved}

Sweep(c) ==
  /\ pc[c] = "sweep"
  /\ work' = [work EXCEPT ![c] = Waiting]
  /\ pc' = [pc EXCEPT ![c] = "retest"]
  /\ UNCHANGED <<tables, history, byKind, batch, hit, built>>

\* Mutant: the key is taken off the list before it is written.
RetestPops(c) ==
  /\ pc[c] = "retest"
  /\ \E p \in work[c] :
       /\ work' = [work EXCEPT ![c] = @ \ {p}]
       /\ IF Resolves(c, p.kind, p.key[3])
          THEN pc' = [pc EXCEPT ![c] = "write"] /\ hit' = [hit EXCEPT ![c] = p]
          ELSE UNCHANGED <<pc, hit>>
  /\ UNCHANGED <<tables, history, byKind, batch, built>>

Retest(c) ==
  /\ pc[c] = "retest"
  /\ \E p \in work[c] :
       \/ /\ Resolves(c, p.kind, p.key[3])
          /\ pc' = [pc EXCEPT ![c] = "write"]
          /\ hit' = [hit EXCEPT ![c] = p]
          /\ UNCHANGED work
       \/ /\ ~Resolves(c, p.kind, p.key[3])
          /\ work' = [work EXCEPT ![c] = @ \ {p}]
          /\ UNCHANGED <<pc, hit>>
  /\ UNCHANGED <<tables, history, byKind, batch, built>>

\* UPDATE ... WHERE key: an edge retired since is no row and stays gone
Write(c) ==
  /\ pc[c] = "write"
  /\ LET k == hit[c].key
     IN  edges' = IF k \in DOMAIN edges THEN [edges EXCEPT ![k].resolved = TRUE] ELSE edges
  /\ work' = [work EXCEPT ![c] = @ \ {hit[c]}]
  /\ hit' = [hit EXCEPT ![c] = NoHit]
  /\ pc' = [pc EXCEPT ![c] = "retest"]
  /\ UNCHANGED <<stored, objects, history, byKind, batch, built>>

\* The batch is acknowledged and the goroutine waits for its next round
Ack(c) ==
  /\ pc[c] = "retest"
  /\ work[c] = {}
  /\ pc' = [pc EXCEPT ![c] = "idle"]
  /\ byKind' = [byKind EXCEPT ![c] = NoEdge]
  /\ UNCHANGED <<tables, history, batch, work, hit, built>>

Round(c) ==
  \/ Collect(c) \/ CollectFails(c) \/ Apply(c) \/ Resolve(c)
  \/ Refuse(c) \/ Land(c) \/ Sweep(c) \/ Retest(c) \/ Write(c) \/ Ack(c)

-----------------------------------------------------------------------------
Failing == failures < MaxFailures /\ failures' = failures + 1

\* The transaction of step 5 fails, and that too is only recorded
LandFails(c) ==
  /\ pc[c] = "resolve"
  /\ work[c] = {}
  /\ Failing
  /\ Unassembled(c)

\* The query of a resolver fails, and ResolverFor answers "not found"
QueryFails(c) ==
  /\ \E a \in work[c] :
       /\ Resolves(c, a.kind, a.key[3])
       /\ work' = [work EXCEPT ![c] = @ \ {a}]
       /\ \/ pc[c] = "resolve" /\ built' = [built EXCEPT ![c] = WithBuilt(c, a, FALSE)]
          \/ pc[c] = "retest" /\ UNCHANGED built
  /\ Failing
  /\ UNCHANGED <<tables, landed, behind, pc, byKind, batch, hit>>

\* These goroutines leave AcquireOnce where they stand; what their
\* transactions committed stays
GiveUp(cs) ==
  /\ pc' = [c \in Collectors |-> IF c \in cs THEN "idle" ELSE pc[c]]
  /\ byKind' = [c \in Collectors |-> IF c \in cs THEN NoEdge ELSE byKind[c]]
  /\ batch' = [c \in Collectors |-> IF c \in cs THEN Declined ELSE batch[c]]
  /\ work' = [c \in Collectors |-> IF c \in cs THEN {} ELSE work[c]]
  /\ hit' = [c \in Collectors |-> IF c \in cs THEN NoHit ELSE hit[c]]
  /\ built' = [c \in Collectors |-> IF c \in cs THEN NoEdge ELSE built[c]]
  /\ behind' = behind \union {c \in cs : pc[c] = "resolve"}
  /\ UNCHANGED <<tables, landed>>

\* A statement fails and AcquireOnce returns the error: a commit,
\* firstErr (where this collection's objects may have landed before another
\* statement of the loop failed), the record of a rejection, the keys to
\* re-test, the update.  RecordAck failing ends it as Ack does.
RoundFails(c) ==
  /\ pc[c] \in {"apply", "resolve", "sweep", "retest", "write"}
  /\ Failing
  /\ GiveUp({c})

\* The process is killed, and its collectors' loops begin anew
Crash == Failing /\ GiveUp(Collectors)

Next ==
  \/ \E c \in Collectors :
       Declare(c) \/ Round(c) \/ LandFails(c) \/ QueryFails(c) \/ RoundFails(c)
  \/ Crash

(***************************************************************************)
(* A round that began goes on to its end (the exchange with a collector    *)
(* has a timeout), and the collectors in Answering are asked again by      *)
(* collectorLoop's ticker and do not fail for ever, though they may        *)
(* decline every time.  Nothing is assumed of the others: one may never    *)
(* answer declare at all.  The store fails, and the process dies, finitely *)
(* often (MaxFailures).                                                    *)
(***************************************************************************)
Fairness ==
  /\ \A c \in Collectors : WF_vars(Round(c))
  /\ \A c \in Answering : WF_vars(Declare(c)) /\ SF_vars(Collect(c))

Spec == Init /\ [][Next]_vars /\ Fairness

-----------------------------------------------------------------------------
\* The tables hold rows of their columns, each goroutine's locals fit the
\* statement it has reached, and it writes only for a key it has left to do.
TypeOK ==
  /\ stored \subseteq Collectors
  /\ objects \in [Collectors -> SUBSET Names]
  /\ DOMAIN edges \subseteq Keys
  /\ \A k \in DOMAIN edges : edges[k].resolved \in BOOLEAN
  /\ landed \in [Collectors -> SUBSET Names]
  /\ behind \subseteq Collectors
  /\ failures \in 0..MaxFailures
  /\ pc \in [Collectors -> {"idle", "collect", "apply", "resolve",
                            "sweep", "retest", "write"}]
  /\ \A c \in Collectors :
       /\ DOMAIN byKind[c] \subseteq Kinds
       /\ batch[c] \in Answers[c] \union {Declined}
       /\ \A a \in work[c] : a.key \in Keys
       /\ DOMAIN built[c] \subseteq Keys
       /\ pc[c] = "write" => hit[c] \in work[c]

EdgesOf(c) == {k \in DOMAIN edges : k[1] = c}
AssertedKeys(c, names) == {a.key : a \in Assertions(c, names)}

(***************************************************************************)
(* A collection's edges are exactly those one reading of it asserted, and  *)
(* that reading is the one whose objects are published, unless they are    *)
(* still being assembled, or a failure came between the two transactions   *)
(* or the assembly was refused, and none has landed since.  Neither the    *)
(* key by key writes of other collectors' sweeps nor a failure mixes the   *)
(* edges of two readings, and nothing but a failure or a refusal leaves    *)
(* the edges of an old one (AcquireOnce's two loops, ApplyAssertions).     *)
(***************************************************************************)
EdgesAreOfOneReading ==
  \A c \in Collectors :
    /\ EdgesOf(c) = AssertedKeys(c, landed[c])
    /\ (pc[c] # "resolve" /\ c \notin behind) => landed[c] = objects[c]

(***************************************************************************)
(* What would hold if a round's objects and edges landed together: with    *)
(* every goroutine at rest, edges leave from published objects             *)
(* (harness/crash/boundaries.json: "must leave state all-or-nothing").     *)
(***************************************************************************)
EdgesLeaveFromPublishedObjects ==
  (\A c \in Collectors : pc[c] = "idle") =>
    \A k \in DOMAIN edges : k[2] \in objects[k[1]]

\* The far end is published under a kind exactly one stored declaration claims
FarEndPublished(k) ==
  LET kind == edges[k].kind
  IN  /\ kind \in DOMAIN PrefixIndex(stored)
      /\ k[3] \in objects[PrefixIndex(stored)[kind]]

(***************************************************************************)
(* No edge waits for ever for a far end that is there: an edge whose       *)
(* target stays published, under a kind one collection claims, is          *)
(* eventually resolved - even where the edge's own collector fails or      *)
(* declines every round from now on, or its assembly is refused every      *)
(* time, as long as one collector of the host answers, and although every  *)
(* sweep works from an index and a list of keys that may be out of date    *)
(* when it writes (UpgradeUnresolved).                                     *)
(***************************************************************************)
EdgesFindTheirTarget ==
  \A k \in Keys :
    ~ <>[](k \in DOMAIN edges /\ ~edges[k].resolved /\ FarEndPublished(k))

(***************************************************************************)
(* "An edge whose target went away is retired by the authority of the      *)
(* commit that no longer publishes it" (UpgradeUnresolved's comment): with *)
(* every goroutine at rest, a resolved edge's far end is published by some *)
(* collection claiming its kind.                                           *)
(***************************************************************************)
ResolvedEdgesHaveATarget ==
  (\A c \in Collectors : pc[c] = "idle") =>
    \A k \in DOMAIN edges :
      edges[k].resolved =>
        \E d \in Collectors : Prefix[d] = edges[k].kind /\ k[3] \in objects[d]
=============================================================================
