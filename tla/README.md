# System Explorer: the collectors, the collator and the hub, in TLA+

These modules model the three-tier rewrite of System Explorer: the twenty
collectors that read a host (`src/go/cmd/se-collect-*`), the collator that keeps
one host's state (`src/go/internal/{collate,store,wire}`) and the hub that keeps
an estate's (`src/src/system_explorer/hub`). TLC checks them on small instances;
TLAPS proves, for every value of the constants, every safety property of the
collator's store, acquisition, record, relations and link, of the parser of the
collect stream, and of the hub's sessions, listener and findings.

## 1. Inventory

| Part | State it keeps | Operations | Talks to |
|---|---|---|---|
| batch authority (`store/store.go`) | `collections`, `objects`, `declarations`, `acks` tables | IssueGenerations, ApplyCommitWith, MarkStaleWith, RecordAbsent, RecordTimensSkew, RecordAck | called by acquisition; read by sessions and pages |
| acquisition (`collate/collate.go`, `run.go`) | locals of one round; one goroutine per collector | declare, issue, collect, check, judge, apply each collection, relate, acknowledge | collector processes (pipe or socket), the store |
| change record (`store/record.go`, `collate/changes.go`) | `snapshots` table | RecordSnapshot, PruneSnapshots, ChangesSince | called after an apply; read by pages |
| relations (`store/relations.go`, `collate/relations.go`) | `relations` table | ApplyAssertions, UpgradeUnresolved, the prefix index | called at the end of a round, by one goroutine per collector over one table |
| collectors (`go/cmd/se-collect-*`) | one process a request, nothing kept | declare, probe, collect, object, evidence, lookup | files, sockets, buses and programs of the host; the collator's client over a pipe |
| hub link (`collate/dial.go`, `run.go`) | `HubLink`: connected, lastConnected | Gap, Opened, Closed, Session | the hub, over TCP |
| session (`collate/checkpoint.go`, hub `session.py`, `checkpoint.py`) | a checkpoint in flight; the estate's promoted snapshots and declarations | declarations, manifest, state records, terminal; refusals | both ends of one connection |
| hub listener (hub `daemon.py`, `listener.py`) | one session thread, the kernel's backlog, reach per host | accept, serve, disconnect | every collator |
| findings (hub `rollup.py`, `lifecycle.py`, `resolution.py`, `transitions.py`, `writes.py`) | open findings (memory and table), the transition log | opinions, fold, judge, observe_resolution, append, `_persist` | the estate; operators over HTTP |
| wire parser (`wire/*.go`) | the batch being read | ParseBatch, Client.Collect, the reverse verbs | collectors |
| read surfaces, MQTT, the shipping product | none that the above read | queries, rendering | - |

What is hard here, and what makes each part correct:

* **Ordering.** Commits may arrive late, twice, or under a reused number. Correct:
  a scope serves the newest reading ever applied to it, and no generation names
  two readings.
* **Crashes between durable steps.** A round is a dozen statements, each durable
  on its own, and a fold is several. Correct: a crash wastes work and never
  reuses a number, acknowledges the unapplied, closes a finding silently, or
  leaves the record with a wrong baseline.
* **Partial failure.** One collection of a batch fails and the loop goes on.
  Correct: the batch is not acknowledged.
* **Reads that are not one moment.** A checkpoint is written while acquisition
  goes on. Correct: what becomes visible was applied, whole, and never older
  than what was visible before.
* **Absence of evidence.** Dark, unswept, stale and unread contributors.
  Correct: a finding resolves only on newer readings, or on another declaration of
  what is read, and a cleared one does close.
* **Operators racing the fold**, and **one thread serving every host**.
* **A stream that stops anywhere.** A collector may be killed, fail a read or lose
  its pipe between any two records, and a commit is a claim about what is gone.
  Correct: only a whole run of a process that succeeded is accepted, every whole
  run is, and nothing the sources still held is retired by a collector that looked.
* **Two paths to one object.** The listing, the object verb, the probe and the
  evidence document read the same sources on their own. Correct: they agree on what
  there is.
* **Edges resolved by others.** Any collector's round may resolve any edge of the
  host, from an index and a list of keys read earlier, and a round may be cut off
  between its objects and its edges. Correct: a collection's edges are those of one
  reading, and none waits for ever for a far end that is there.

`PROJECT.json` lists each hazard at the line where it bites, with the
properties that would catch it.

## 2. Modules

```
VersionedView        the promise to a reader of the store         (abstract)
  ^ refined by
BatchAuthority + Proofs   the tables, any caller
  ^ refined by              ^ used by
Acquire + Proofs           HubSession + Proofs

Record + Proofs   Relations + Proofs   HubListener + Proofs   HubFindings + Proofs
HubLink           the dialling loop (its proofs are in HubListenerProofs)
CollectorKit <- CollectBazarr ... CollectVms   the twenty collectors, as operators
      \              /
Wire <- Collectors   one request to one of them, process, pipe and parser
  ^ used by
WireStream + Proofs  the parser against any stream
```

`MC*` modules only give constants their values; `MCHubSession` also holds a state
constraint and `MCWire` the records a sender may write.

**VersionedView** is the promise alone: each collection has a generation
and one content per scope; a step raises one collection's generation and
replaces one scope's content, and touches nothing else.

**BatchAuthority** has the columns of `collections` as functions from names, and
`objects[c][s]`, the object set of a collection and scope. Each Go method is
one action because each is one SQLite statement or transaction on one
connection; SQLite is external. `Outcome` is the decision of `ApplyCommitWith`
and `LandReading` its writes. An object set is one abstract value, with
`HashOf` standing for `HashObjects`; it need not be injective, since the real
hash leaves out types and could-not-reads. `ledger` is history: the readings
actually applied, against which the tables are judged. `AuthorityNext` lets any
caller make any call, since the code says "the authority must not depend on
its caller's diligence".

**Acquire** is `AcquireOnce`, one process per acquirer. `pc[a]` is the statement
it has reached; `todo`, `current` and `failed` are its loop, its name and
`firstErr`. Each store call is a step, may fail (`LandFails`, `NoteSkewFails`,
`GiveUp`, `GiveUpLate`, `KeepRecord`), and `Crash` may come between any two.
`Upgrade` replaces a collector's build. The names are visited in any order; the
code sorts them. The environment answers each collection with content,
"absent", another decline, or nothing. Steps of the code that write only the
rejections log are stutters. `edges[c][s]` keeps which generation's assertions
are stored, and not what they say. `Declare` is the fetch and RecordDeclaration
in one step: a failure between them leaves only locals behind, and those go.

**Record** models one (collection, scope) key per writer: `Applied` is the
authority's "applied", `SnapshotFor` and `RecordSnapshot` are separate
statements. Rows have `at` (seconds), `seq`, `objects` and `format`. `Diffable`,
`Compare` and `ChangesSince` are translated as operators; name, type and the
absent list behave like facts that are never measures. An older build's row may
be there at the start. `ChangesSince` reads the declaration, the record's start, the
baseline and the live objects by four statements (`changes.go:285-349`), which the
model takes in one step: what acquisition commits between them is left out. `StepBack` sets the wall clock back once.

**HubLink** is `hubLoop` on a clock counted in reconnect periods.

**HubSession** has the collator's end (`pc`, `states`, `toSend`) and the hub's
(`phase`, `pending`, `held`, `entries`, `received`, `visible`). TCP delivers in
order or not at all, so a record is sent and ingested in one step and `Cut` may
come before any. The store under it is BatchAuthority's, going on acquiring.
`ReadCollections` is the one read of the manifest rows; `SendState` reads objects
later. Every refusal of `Receiver` the collator's records could meet is there
(`StateRefusal`, `TerminalRefusal`).

**HubListener** is the accept loop over a FIFO backlog. A record that does not
touch the estate is not a step. `LosePower` is a peer from which neither a byte
nor an end of stream will come.

**HubFindings** has the collators summarised to generation, staleness, the
declaration the rows are stamped with and the declarations whose rule the last
reading fires; a session (manifest, then promotion); the fold, one finding a step
with each resolution durable; and POSTs as two steps, the look and the append.
`Issue` stamps the rows with the declaration of a round when the round begins,
`Acquire` ends it with a reading, and `Upgrade` puts another build in a collector's
place, so rows of one reading are judged by another's rules. The hub keeps the
declarations it was sent (`held`) and the facts of the newest (`axes`); `Deriving`
is `rollup.opinions`, which drops an opinion that cites a fact not among them
(`Backed`), and `RefuseManifest` is the session that names a declaration not held.
History variables (`actual`, `raised`, `ruled`, `episode`, `stampedBy`, `said`)
decide nothing and are what the properties compare with.

**Wire** is `ParseBatch`, one record at a time: `Receive` is the body of its loop,
`Finish` what follows it, and `ParseBatch` a recursive function over the stream's
length. A record is its kind, the members it carries with their JSON types (`has`),
and the values the rules look at. A rule is a condition and its machine-stable reason
(`When`), a kind's rules are a list in the code's order, and `First` gives the verdict;
what a record taken in adds to its collection's stream is `Say`. **WireStream** writes
any record of a pool after any other; one that is refused may be followed by a tail,
since the parser has returned and the sender has not. The verdict is compared with
`ValidStream`, a declarative reading of the whole stream that never looks at the
parser, and the batch with the one parsed from what is left of the stream when any of
its records are lost. What a batch says of a collection (`Establishes`) is its decline, its
commit and its objects, since the store serves an absence and
an empty collection differently.

**CollectorKit** has what the collectors share: the outcomes of a read (a document,
a decline, an error), rows, edges, could-not-reads, answers and verb responses.
Each **Collect\*** module is one program: `Worlds` is what its sources may hold
when it reads them (unit-sized documents, each member present, missing, null or of
the wrong kind where the code tells them apart; each source answering, refused,
absent or failing), `Opening` is what it reads once for the batch, `Collect` and
its helpers translate the acquisition and the rows of a collection, and the verbs
(`serveObject`, `serveEvidence`, `serveLookup`, `probe`) follow. `Holds` and
`Unread` are written from the world alone, and are the reference the answers are
judged by; `Unlooked` names the worlds in which the look that is to tell whether the
interface is there was itself refused, while what is behind it is still held. A program
that is not on PATH is the interface not being there, in the code and in `Holds`. The
redactors are translated as they are (docker's keeps tokens without `=` and its Args
legible); no property judges what a document withholds. Object types are ones the
contract's pattern accepts, so the records of `Collectors` carry none; the rule itself
is in `Wire`. Port ranges and sets of ports are in no network world. Names keep the
source's where TLA+ allows it.

**Collectors** runs one of them: the request line, `begin`, one collection a step,
each meeting whatever the world is then (unless the program read it once, `Steady`),
then `end` and the exit status. `Killed`, `BreakPipe` and `CannotStart` may come
between any two; `Exchange` is the client reading to end of file, and the verdict is
`Wire`'s on the records as the structs marshal. `Ask` is the object, evidence,
lookup and probe verbs. Every program carries its own copy of this loop; the map
names docker's, and where a copy differs (which collector reads the boot clock, and
when) the difference is in the collector's module (`stamped`, `Opening`).

**Relations** has one goroutine per collector over one table. What is kept of an edge
is its key, the kind it names and whether it is resolved. Each query and each
transaction is a step of its own, since that is where the goroutines interleave:
the declaration, the reading with its index, the apply, each resolution, the
replacement, the list of waiting keys, each re-test and each write. A store error may
end the round at any of them (`RoundFails`, `firstErr` among its causes), be recorded
and passed over (`LandFails`), or be taken for "not found" (`QueryFails`); `Crash` ends
every goroutine's round at once. Objects and edges are two transactions, so a round
cut between them leaves edges of an older reading. `landed` (the objects the edges
were assembled from) and `behind` (the collections cut off or refused since) are
history.

## 3. Runs

| Run | States | What it shows |
|---|---|---|
| `hub_link_outage` | violated | A failed dial counts as a connection and shortens the next gap (`GapCoversOutage`). |
| `acquire_solo` | 1.3 M | Two collections, two builds, crashes and store errors everywhere: acknowledged means applied; edges come from applied readings; stale is decided by the newest answer; "absent" is never claimed wrongly; every stamped declaration can be looked up. |
| `acquire_shared` | 465 k | Two acquirers of one collection: generations are never shared, every scope serves its newest reading, every step is one the authority allows, and the versioned view is implemented. |
| `record` | 1.5 M | "What changed" is the real difference or a stated gap; flips are kept or caught up; a prune leaves a baseline. |
| `hub_session` | 1.1 M | What is visible was applied at the generation it claims or later, promoted whole; a later session takes back neither a generation nor what it held; its declaration is held through upgrades, silence and restarts; connected means being served. |
| `hub_listener` | 15 k | Reach is honest, and only a powerless peer or a failed accept can make a collator wait for ever. |
| `hub_findings` | 1.5 M | Nothing leaves the store without a recorded resolution; an acknowledgement outlives its occurrence only through the look-then-append race. |
| `hub_findings_estate` | 1.6 M | Over two hosts and two declarations, a finding resolves only when each contributor was read again and raises it no more, is judged by the rules of another declaration, or stands on a fact the held declaration no longer has. |
| `hub_findings_live` | 41 k | A finding whose condition stays cleared closes. |
| `wire` | 1.5 M | ParseBatch accepts exactly the valid streams, whatever is repeated, misplaced or malformed, and no loss of records turns one answer into another, except that an absence whose decline is lost is told as empty. |
| `collectors` | 244 k | All twenty collectors: only whole runs are accepted, and all of them but for three stated causes; no commit or "absent" of a collector that could look retires what the answering sources held; opened objects, listings and probes agree, and so does evidence on what there is, but for sources that are asked again or rows one misread entry ruined; exposure brackets the ruleset. |
| `relations` | 448 k | Three goroutines over one table, a store error or a crash at any statement: a collection's edges are exactly those of one reading, which is the published one unless the assembly is under way, was refused or was cut off, and no edge whose far end stays published waits for ever. |

Each property has a mutant: a small change to the code's definition, written
beside it and marked "Mutant", under which TLC finds the property violated.

### Bounds

Every bound is a named constant and sits in a guard.

* `MaxGen` (1 to 3) bounds generations per collection. An ordering fault needs an
  older and a newer reading (2); a third lets a refused one be followed by an
  applied one. The proofs remove this bound's influence for the authority and
  for acquisition: they hold for every `MaxGen`.
* `acquire_solo` has two collections, so that one can fail while the other lands,
  and one content, which none of its properties tells apart;
  `acquire_shared` has two acquirers of one, with three generations: an overtaken
  round, the one that overtook it, and the next.
* `Record`: two readings per key, two seconds, two declarations and an optional
  legacy row: a reading, a flip, and an answer between them; several readings in
  one second; a prune before, between and after. One key, because no action but
  `PruneSnapshots` reads another key's rows and that one filters by key.
* `HubSession`: two collections, one that moves while the other is sent.
* `HubListener`: three hosts, one served, one waiting, one behind it.
* `HubFindings`: three readings (raise, clear, raise again), three transitions and one
  restart or lost store, with one host, one declaration and a writer. The estate: two
  hosts without a writer, two readings (one that raises, one after it), one resolution,
  a declaration of two facts and one of the first alone, and one restart, lost store or
  upgrade (`MaxRestarts` bounds them together).
  `HostsTakeTurns` is a state constraint: collectors of two hosts share nothing, so one
  round is under way at a time and one host is stale at a time.
* `HubLink`: four periods; the theorems have none.
* `WireStream`: two collections, two names, two clock readings, six records (a begin,
  four in between and an end: two objects, a could-not-read or a relation, and
  their commit). The pool has every record kind sound and with each of its defects,
  one at a time: the parser stops at the first violation, so a second defect is
  never read. The tails are enough to complete every stream that a record wrongly
  refused could be part of. The proofs need neither bound.
* `Collectors`: requests of up to two collections (the second may be unknown, odd or
  a repetition). Limits that pages, walks and probes meet are scaled so that an
  instance reaches them, and named where they are: `Limit` (logs, 100), `MaxPages`
  (plex, 20), `PageSize` (servarr, 250), `PageBound` (traefik, 64),
  `chainWalkMaxDepth` (network, 8), `missingUnitProbeLimit` (units, 200). Worlds hold
  one or two of everything that repeats, so that a loop meets a second element and
  a name can collide. Only one collector runs in a behaviour: they share no state.
* `Relations`: an asserting collector with a plain and a twice-asserted edge, the one
  that publishes the far end, and a third that claims the same kind and declines; one
  store error or crash (`MaxFailures`), which is enough to cut any round at any
  statement. The proofs hold for every number of them.
* `SecondIsQuiet` (MCHubSession) is a state constraint: one collection goes through
  everything and the other is read at most once, which makes the session a round of
  several and keeps the run within minutes.

Runs with `CHECK_DEADLOCK FALSE` (Record, HubFindings, Wire, Collectors) are those
whose counters run out or whose one request ends: the system does not stop, the
bound does. `HubFindingsEstate` takes the hosts as symmetric (`HostSymmetry`): they
differ in nothing but their names, and the run checks no liveness.

### Fairness

* `HubListener`: weak fairness of `Accept` and of `Serve`. The thread runs, and a
  powered collator writes one session and closes (`dial.go`), so a read from it
  returns. Nothing is assumed of `Dial`, `LosePower`, `AcceptFails` or `Restart`.
* `HubFindings`: strong fairness of opening and promoting a session and of the
  steps of a fold. hubLoop dials for ever, and sessions or folds may fail again
  and again but not always. It is strong because `Cut`, `FoldFails` and `Restart`
  disable these steps. Nothing obliges a collator to acquire; `ClearedFindingsClose`
  therefore assumes, as `Cleared`, that newer readings exist.
* `Relations`: weak fairness of every goroutine's round once it began (an exchange
  with a collector has a timeout, and the store's calls return), and, for the
  collectors in `Answering` alone, weak fairness of starting a round (the ticker of
  `collectorLoop`) and strong fairness of being answered, since the exchange may fail
  and fail again but not for ever. The others may never answer declare. A decline
  is an answer: an answering collector need never commit. Store errors and crashes
  are bounded (`MaxFailures`): a store that fails for ever resolves nothing.
* All other specifications are safety only.

### Further configurations

HubLinkOutage.cfg with `MaxTime = 6` and INVARIANT GapNeverCoversLiveTime in place of
its own passes: a stated gap never covers time at which a session was live.

Sentences of the code's own comments that the model refutes. Each variant is the
configuration named, with the properties replaced by the one given and the change,
if any, to its constants:

| Variant | From | Property | Trace in a sentence |
|---|---|---|---|
| AcquireAbsentCrash | AcquireSolo.cfg | INVARIANT AbsentNeverRendersAsEmpty | Death between an absent commit and RecordAbsent renders as empty. |
| AcquireSkew | AcquireSolo.cfg, `Skews <- TwoSkews` | INVARIANT SkewQualifiesServedStamps | A batch that leaves a collection out replaces its skew. |
| AcquireUpgraded | AcquireSolo.cfg | INVARIANT AppliedUnderArrivingDeclaration | After an upgrade between declare and collect, the old declaration governs. |
| AcquireOvertaken | AcquireShared.cfg | INVARIANT NewestAnswerDecidesStale | With two acquirers, an overtaken decline marks a newer reading stale. |
| AcquireRefusedEdges | AcquireShared.cfg | INVARIANT EdgesComeFromAppliedReading | With two acquirers, a refused commit's edges are stored. |
| RecordPrune | Record.cfg | INVARIANT BaselineSurvivesInsideHorizon | The row newest at the horizon is pruned once a later one exists. |
| RecordFormat | Record.cfg | INVARIANT RecordResumesAfterFormatChange | An unchanged reading is not stored again in the new format. |
| RecordRedeclared | Record.cfg | INVARIANT MeasuresDoNotParticipate | A fact that became a measure shows as changed. |
| HubSessionMoved | HubSession.cfg, `Contents` and `Hashes <- ThreeContents` | INVARIANT VisibleIsOneMoment | Objects newer than the generation they are shown under. |
| HubSessionSilent | HubSession.cfg | INVARIANT SilentCollectorCostsNoOther | A silent collector and a restarted hub: the whole checkpoint is refused. |
| HubListenerPower | HubListener.cfg | PROPERTY NobodyWaitsForEver | A peer that lost power holds the session thread. |
| HubFindingsRace | HubFindings.cfg | INVARIANT AcknowledgementDiesWithFinding | A POST stored after the resolution silences the next occurrence. |
| HubFindingsCrash | HubFindings.cfg | INVARIANT FrozenKeepsAcknowledgement | A crash before `_persist` brings a finding back without its acknowledgement. |
| HubFindingsDark | HubFindingsEstate.cfg | INVARIANT StampedMeansSomethingLooked | Another host's promotion stamps a dark host's finding. |
| HubFindingsUnbacked | HubFindingsEstate.cfg | PROPERTY ResolvedOnlyByLooking | A collector upgraded to a build that declares a fact less begins a round: the standing opinion is dropped, and its absence resolves the finding. |
| HubFindingsRejudged | HubFindingsEstate.cfg | PROPERTY SameReadingNeverClears | The rules of a new declaration are put to the rows of the old reading and clear what it raised. |
| HubFindingsEvidence | HubFindings.cfg, `Collections = {c1, c2}`, `Writers = {}`, `MaxReadings = 4`, `MaxLog = 2` | PROPERTY AllEvidenceReturned | A contributor lost with its store is dropped, and the finding resolves. |
| RelationsCut | Relations.cfg | INVARIANT EdgesLeaveFromPublishedObjects | A round cut off after its objects leaves the edges of objects that are gone. |
| WireAbsence | Wire.cfg | INVARIANT LossNeverChangesAnAnswer | A lost decline leaves its zero commit: an absence is told as empty. |
| RelationsDangling | Relations.cfg, `Contender = {}` | INVARIANT ResolvedEdgesHaveATarget | A target retired by its own collector stays "resolved" on another's edge. |
| Unread | Collectors.cfg, `Who = {"downloaders", "hardware", "network", "nix", "packages", "resources", "servarr", "storage"}` | INVARIANT NothingCommittedUnread | A commit with a part nobody could read; each of the eight violates it alone. |
| Unlooked | Collectors.cfg, `Who = {"docker"}` (or `vms`, `nix`, `packages`, `hardware`) | INVARIANT RetiresNothingHeld | A refused stat is taken for absence, and what runs behind it is retired. |
| Exposure | Collectors.cfg, `Who = {"network"}` | INVARIANT CertainOnlyUnderclaims | A rule of an interface and an address claims each alone. |
| SystemSentence | Collectors.cfg, `Who = {"system"}` | INVARIANT EveryWholeRunIsAccepted | A could-not-read whose reason is a sentence voids the whole batch. |

`PROJECT.json` "findings" quotes the sentence and the line for each. Two need an
arrangement the code does not have yet (a second acquirer of one collection, a
scheduled prune) and say so.

Other behaviour of the collectors that the models state as it is, and that no
sentence of the repository contradicts: tailscale's rows, plex's requests and
protection's rows are stamped without a reading of the boot clock when they come
first in a batch, and such a batch is void (`at-out-of-range`); two tailscale peers
of one name, or two routes that differ only by metric, void their batch; rules
more than 8 jumps from an input chain are not walked, and exposure does not count
them; a servarr instance that answers 404, or a
`zfs list` that fails, ends the batch for every collection; a domain undefined between virsh's list and its
domstats fails the walk; a journal entry rotated away cannot be opened; a cycle of
SCSI parents would not end the hardware walk, and is not in its worlds.

## 4. Proofs

Checked by TLAPS for every value of the constants. A theorem named here is listed in
`PROJECT.json` with the property it states. Each inductive invariant was checked by
TLC on the instance of its run before it was proved.

*Assumptions*, all in the modules that declare the constants, and evaluated by TLC in
the runs. `Empty` is a content; `HashOf` maps contents to hashes and no hash is NULL;
bounds are naturals; `NamesOf` gives each acquirer a set of collections and `ScopeOf`
a scope; boots are naturals; the three non-content answers are not contents
(BatchAuthority, Acquire). There is a boot and a clock offset for `begin` to carry,
and every content has a count (HubSession). `Nobody` is no host (HubListener). SQL
NULL and Python's None are no value of the columns that may hold them (Record,
HubFindings). `Links` gives each object the edges it asserts (Relations). A record of
WireStream's pool is tagged sound exactly when its own rules hold, the values the
rules compare as numbers are numbers, and tails are made of the pool's records. HubLink's
theorems say in their own hypothesis that its bound is not zero. Nothing is assumed of
the number of acquirers, hosts, collections or operators, nor that hashes are
injective.

*The authority.* `AuthorityInv` is the conjunction of `AuthorityTypeOK`,
`OneReadingPerGeneration`, `RowIsNewestReading` and `ObjectsAreNewestReading`.
None but the first is inductive alone: that an applied reading is the newest of
its scope follows from every earlier reading being at or below `appliedGen`
(OneReadingPerGeneration). One lemma per action shows the conjunction preserved;
`AuthorityTypes`, `GenerationsAreSpentOnce`, `RowsDescribeNewest` and
`ObjectsServeNewest` are its parts. `AuthorityImplementsView` maps `appliedGen`
and `objects` to the view: `LandReading` is one view step, everything else stutters.

*Acquisition.* `AcquireInv` adds `LocalTypeOK`: an acquirer past `Collect` holds a
batch that answers its own names. From it every step of `Acquire` is a step of the
authority or a stutter, which is `AcquireImplementsAuthority`; `AcquireServesNewest`
then carries `ObjectsAreNewestReading` across the refinement.
`GenerationsAreNeverReused` has itself as inductive part: a fresh number is above
every number held or applied. `AcquireTypes` adds the tables (`TablesOK`).
`AcknowledgedIsDurable` rests on `AckInv`, which says of each acquirer at each place
of its loop which collections of its batch must already have landed (`Progress`,
`Landed`): those not in `todo` and not `current`, unless `failed`. `EndApply` with
`~failed` then gives all of them, and `appliedGen` never falls. `DeclarationsAreHeld`
adds that an acquirer past `Declare` holds the document it will stamp.

Three theorems, `EdgesAreOfWhatWasApplied`, `NewestAnswerDecides` and
`AbsentIsTheNewestReading`, assume `Disjoint`: no collection has two acquirers. That is
how the program runs, one `collectorLoop` to a collector and no two collectors
declaring one collection; without it the three properties are false (the variants
AcquireOvertaken and AcquireRefusedEdges). Everything else about acquisition is proved without it. Their invariant, `OwnInv`, says
that what is still to be answered is above everything applied or answered (`Own`,
`Unanswered`), so that every commit applies, the answer given last is the newest, and
the edges stored after the loop are of what it applied (`WasApplied`).

*The session.* `SessionInv` follows one view of a collection from the manifest to
the promotion: what `ReadCollections` read is at or below the applied generation, what
was received is the view of a generation from that one on, and what is visible was
so when promoted. It holds through acquisition because the view of an applied
generation never changes again (`ViewIsSettled`), which is the authority's theorem at
work. `WholeSnapshotsOnly`, `AxesAreAlwaysHeld`, `OnlyTheServedAreConnected` and
`SessionTypes` are parts of it. `NoSessionGoesBack`, an action property, needs more: that
what is visible is the view of a generation no later than the one the manifest names
(`ManifestIsARead`), while every record of the session is read at that generation or
after it; the manifest's one statement is what orders two sessions whose records are
all read at different moments. None of this rests on how acquisition uses the store:
`WholeSnapshotsUnderAnyCaller` and `NoSessionGoesBackUnderAnyCaller` say the same of
`AnyCallerSpec`, where anything the authority admits may be called between two steps of
the session (several collections issued at once, any number of acquirers, late,
repeated and declined readings of any scope).

*The listener.* `ReachIsHonest` is inductive with the type invariant
(`ReachTellsTheTruth`, `ListenerTypes`).

*Findings.* A finding names generations and promises something of readings, and a
generation alone does not tell a reading: objects are read after the manifest, and a
lost store counts from the start again. Nor does a reading alone tell an opinion: the
rules are those of the declaration the rows are stamped with, and the hub drops what
the declaration it holds does not back. `FindingsInv` ties the three together at the
collator, in a manifest and in a snapshot (`EvidenceInv`), which gives the action
property `AbsenceResolvesWhereLooked`: of every contributor of a finding that resolves,
the visible snapshot shows a later reading that raises nothing, or rows judged by
another declaration than raised it, or an opinion that still stands and is not backed.
The last two are what an upgrade may do (the variants HubFindingsRejudged and
HubFindingsUnbacked show each). Its other half (`RecordInv`) keeps episodes, the log and
the two copies of the open set in step across crashes: what is stored and no longer
open was resolved on record, and a POST overtaken by a new occurrence was overtaken by a
recorded resolution. From it follow `NothingClosesSilently` and `AcknowledgementsDie`.

*The record.* `RecordInv` says that a writer under way builds the row of the last
reading, that rows and readings are in the order of their seconds while the clock has
not been set back (`ClockRuns`), and that for the last reading of any second the newest
row of that second is its own, or it was pruned with all before it (`SettledRow`).
`AnswersAreRealDifferences` then compares what `ChangesSince` finds with that reading.
`EveryFlipIsRecorded` and `ABaselineIsAlwaysLeft` need less and hold after a clock step.

*Relations.* `RelationsInv` follows edges from a reading through the locals of a round
to the table: what is still to be resolved and what was are together the keys the
published objects assert (`AssemblyOfObjects`), and a round that ends anywhere leaves
none of them over (`NothingLeftOver`). `GiveUpKeeps` is the one lemma for every round
cut off, a crash's included: it changes no table and puts the collections whose edges
had not landed `behind`. A sweep can bring nothing back because it writes only to a row
that is there. `EdgesComeFromOneReading` and `RelationsTypes` follow.

*The parser.* `IInv` says that an unviolated batch Agrees with the records read so far:
begin and end are where they were seen, and for each collection (`AgreesOn`) its
objects are the object records about it, in order, its counts are theirs, and its
decline and commit are the last things said about it. `ReceiveAgrees` keeps this
through every kind of record, with the rules of that kind unfolded one at a time
(`ObjectRejection` to `CommitRejection`). Two facts make the parser exact.
`ValidIsTakenIn`: an agreeing batch refuses no record that some valid stream goes on
with, so no stream that begins with the refused records is valid, whatever follows.
`FinishAgrees`: at the end of file of an agreeing stream the whole-batch check passes
exactly when the stream is valid. Together they are `ParserAcceptsExactly`. For
`LossOnlyEmptiesAbsences` what is left of a stream is parsed again from nothing:
`ParsedAgrees` follows the recursive function record by record, and `SameAnswer` shows
that a collection whose counts still add up lost nothing, so its objects, ranked by
their places (`Rank`), are the same sequence. No count covers a decline; `SameDecline`
and `DeclinedAnswer` show what that costs: the decline is the same, or it was an
absence and what is left is its empty commit. Induction over the length of a stream is
replaced by the least place at which a claim fails (`LeastElement`), which needs no
theorem with an operator parameter. `BatchAgrees` and `StreamTypes` complete it.

*The link.* `LinkInv` bounds the end of every session by `lastConnected`, except between
the end of a session and `Closed` (`GapIsNeverOverLiveTime`, `LinkTypes`).

`AuthorityTypeOK`, `OneReadingPerGeneration`, `RowIsNewestReading` and
`GapNeverCoversLiveTime` are stated by no run; their theorems are all there is to say of
them. `acquire_shared` checks what acquisition reaches of the authority.

*Only model-checked.* The properties of Collectors. Two of the twenty programs walk
trees and chains with RECURSIVE operators, which take the prover out of any module that
reaches them, and what those walks, pages and joins compute is a matter of the worlds
TLC enumerates; what the client makes of the records is the parser's, above. Liveness
(WaitsOnlyBehindALostPeer, ClearedFindingsClose, EdgesFindTheirTarget): fairness and
ENABLED are beyond the prover.

## 5. Not modelled

* Read surfaces of the collator (`collate/collection_page.go`, `rest.go`,
  `shell.go` and the other pages) and of the hub: routing, HTML and JSON layout over one statement at
  a time. They change nothing the modelled parts read, and what could be wrong in
  them is wording and layout.
* Freshness arithmetic, opinions and evaluators: pure functions of an object and a
  declaration, planned as an operator module.
* The MQTT projection: a function from findings to messages with one remembered
  set; the broker is external.
* The shipping agent, hub, MCP and UI: the product the rewrite replaces, read-only
  adapters and rendering, superseded at the cut.
* Conformance corpus, harness, packaging: tests, fixtures and deployment.
* In the wire package: the parsing of declarations, byte limits, JSON text and the
  child's file descriptors. In the collectors: the constant documents that declare
  answers with, number formatting, units, pretty-printing and log lines.
* In relations: facts, vantages, discriminators and confirmation from both ends,
  which no shipped batch can cause.
* The pacing of the collector loop: a round may start at any time.
* In the rest of what is modelled: the rejections log, costs, could-not-read paths
  in the store, what is committed between the four statements of `ChangesSince`, notes
  and actors on transitions, credentials, severities below
  warn, body limits, and two writers of one record key.

## 6. Plan

1. *Done:* HubLink, VersionedView, BatchAuthority, Acquire, Record, HubSession,
   HubListener, HubFindings with their runs; proofs for BatchAuthority and Acquire.
2. *Done:* Wire and WireStream; CollectorKit, the twenty collectors and Collectors;
   Relations.
3. *Extend the model:* Freshness, the age arithmetic across boots and time
   namespaces; the MQTT projection across hub restarts; relations under the
   generations of Acquire; `ChangesSince` by its four statements; two writers of one
   key.
4. *Done:* proofs for Record, Relations, HubLink, HubSession, HubListener, HubFindings
   and WireStream, and the rest of Acquire; the session under any caller of the store.
5. *Prove more*, in the modules that hold proofs: the safety halves of the liveness
   properties (an edge left unresolved is one a later sweep will look at again; a
   frozen finding names the blindness that freezes it; a waiting host is behind one
   that is being read), which say that nothing is ever stuck short of fairness; the
   record under any number of writers. A collector's process apart from what it reads,
   as a module of its own with the answers as a constant, would bring
   OnlyWholeRunsAreAccepted within the prover's reach.
