---------------------------- MODULE HubFindings ----------------------------
(***************************************************************************)
(* The hub's findings: opinions held (hub/rollup.py), judge                *)
(* (hub/resolution.py), Registry.fold (hub/lifecycle.py), the transition   *)
(* log (hub/transitions.py) and the write listener (hub/writes.py).        *)
(*                                                                         *)
(* The session thread promotes a checkpoint and folds: it handles each     *)
(* finding in turn, each resolution being a durable write of its own, and  *)
(* stores the whole open set at the end.  Write-listener threads look at   *)
(* the open set and then append to the log.  The process may die between   *)
(* any two steps, and a store call may fail and end the fold there.        *)
(*                                                                         *)
(* A finding is one opinion of one host, at warn or above, that any of the *)
(* host's collections may raise.  A collector's state is what the collator *)
(* holds of its last reading and the declaration it is stamped with, whose *)
(* rules are put to it; the hub derives an opinion only while the          *)
(* declaration it holds declares every fact the opinion cites.  `actual`,  *)
(* `raised`, `ruled`, `episode`, `stampedBy` and `said` are history: they  *)
(* decide nothing.                                                         *)
(***************************************************************************)
EXTENDS Naturals, Sequences, FiniteSets, SequencesExt

CONSTANTS
  Hosts,         \* the hosts; each has one opinion that can become a finding
  Collections,   \* the collections every host has, each with its collector
  Declarations,  \* what a collector may declare: each the set of the facts
                 \* it declares, all of which its rule cites
  First,         \* the declaration every collector serves at first
  Writers,       \* write-listener threads
  None,          \* no snapshot, no finding, no request
  MaxReadings,   \* bound on the readings applied, over all hosts
  MaxLog,        \* bound on the transitions recorded
  MaxRestarts    \* bound on hub restarts, store losses and upgrades

(* A finding: its contributors' generations, and its verdict. *)
Finding == [contributors : SUBSET (Collections \X (0 .. MaxReadings)),
            verdict : {"current", "frozen"}]

ASSUME NoneAssumption ==
  None \notin Hosts /\ None \notin Finding /\ None \notin Declarations
ASSUME FirstAssumption == First \in Declarations
ASSUME FindingsBounds == MaxReadings \in Nat /\ MaxLog \in Nat /\ MaxRestarts \in Nat

VARIABLES
  running,       \* running[h][c]: the declaration the collector serves now
  under,         \* under[h][c]: the one its rows are stamped with, or None
  issued,        \* <<h, c>> whose round has been issued and not yet ended
  gen,           \* gen[h][c]: applied generation at the collator
  stale,         \* stale[h][c]
  raises,        \* raises[h][c]: the declarations whose rule the last
                 \* applied reading fires
  readings,      \* how many readings have been applied
  manifest,      \* manifest[h]: the rows a session was opened with, or None
  held,          \* Declarations._by_hash: digests held, of any host
  axes,          \* Declarations._facts[(h, c)], or None
  snapshot,      \* Estate: the promoted snapshot, or None while unswept
  connected,     \* Estate: connected hosts
  open,          \* Registry._findings, in memory
  stored,        \* the findings table
  log,           \* the transitions table, in the order of its seq
  todo,          \* findings this fold has yet to handle
  by,            \* the host whose promotion is being folded, or None
  request,       \* request[w]: the finding a POST found open, or None
  restarts,      \* restarts so far
  actual,        \* history: actual[h][c], the reading a collector last applied
  raised,        \* history: raised[h][c], the reading behind a contributor
  ruled,         \* history: ruled[h][c], the declaration it was judged by
  episode,       \* history: episode[h], how often h's finding has been opened
  stampedBy,     \* history: stampedBy[h], whose promotion set last_seen
  said           \* history: said[h], the operator's last word this episode

collatorVars == <<running, under, issued, gen, stale, raises, readings, actual>>
axisVars == <<held, axes>>
estateVars == <<axisVars, manifest, snapshot, connected>>
registryVars == <<open, stored, todo, by, raised, ruled, episode, stampedBy>>
writeVars == <<log, request, said>>
vars == <<collatorVars, estateVars, registryVars, writeVars, restarts>>

TypeOK ==
  /\ gen \in [Hosts -> [Collections -> 0 .. MaxReadings]]
  /\ \A h \in Hosts, c \in Collections :
       /\ under[h][c] \in Declarations \cup {None}
       /\ axes[h][c] \in Declarations \cup {None}
       /\ under[h][c] = None => gen[h][c] = 0 /\ <<h, c>> \notin issued
  /\ held \subseteq Collections \X Declarations
  /\ connected \subseteq Hosts
  /\ \A h \in Hosts : open[h] \in Finding \cup {None} /\ stored[h] \in Finding \cup {None}
  /\ todo \subseteq Hosts /\ by \in Hosts \cup {None}
  /\ by = None => todo = {}
  /\ \A i \in DOMAIN log : log[i].action \in {"acknowledge", "unacknowledge", "resolved"}
  /\ \A w \in Writers : request[w] # None => request[w].finding \in Hosts

(* Hosts differ in nothing but their names. *)
HostSymmetry == Permutations(Hosts)

(* A bound on the state space: collectors of different hosts share nothing, *)
(* so their rounds are taken one at a time, and one host's decline at once. *)
HostsTakeTurns ==
  /\ Cardinality(issued) <= 1
  /\ Cardinality({h \in Hosts : \E c \in Collections : stale[h][c]}) <= 1

Zero == [c \in Collections |-> 0]
Never == [c \in Collections |-> FALSE]
Nobody == [c \in Collections |-> None]

Init ==
  /\ running = [h \in Hosts |-> [c \in Collections |-> First]]
  /\ under = [h \in Hosts |-> Nobody] /\ issued = {}
  /\ gen = [h \in Hosts |-> Zero] /\ stale = [h \in Hosts |-> Never]
  /\ raises = [h \in Hosts |-> [c \in Collections |-> {}]] /\ readings = 0
  /\ actual = [h \in Hosts |-> Zero]
  /\ held = {} /\ axes = [h \in Hosts |-> Nobody]
  /\ manifest = [h \in Hosts |-> None] /\ snapshot = [h \in Hosts |-> None]
  /\ connected = {}
  /\ open = [h \in Hosts |-> None] /\ stored = [h \in Hosts |-> None]
  /\ todo = {} /\ by = None
  /\ raised = [h \in Hosts |-> Zero] /\ ruled = [h \in Hosts |-> Nobody]
  /\ episode = [h \in Hosts |-> 0]
  /\ stampedBy = [h \in Hosts |-> None]
  /\ log = <<>> /\ request = [w \in Writers |-> None]
  /\ said = [h \in Hosts |-> "unacknowledge"]
  /\ restarts = 0

----------------------------------------------------------------------------
(* The collators. *)

(* A collector is replaced by another build. *)
Upgrade(h, c) ==
  /\ restarts < MaxRestarts
  /\ restarts' = restarts + 1
  /\ \E d \in Declarations \ {running[h][c]} : running' = [running EXCEPT ![h][c] = d]
  /\ UNCHANGED <<under, issued, gen, stale, raises, readings, actual, estateVars,
                 registryVars, writeVars>>

(* A round begins.  The declaration fetched for it is stamped on the rows  *)
(* now, whatever becomes of the round: the rules put to the rows already   *)
(* applied are that declaration's from here on.                            *)
Issue(h, c) ==
  /\ issued' = issued \cup {<<h, c>>}
  /\ under' = [under EXCEPT ![h][c] = running[h][c]]
  /\ UNCHANGED <<running, gen, stale, raises, readings, actual, estateVars,
                 registryVars, writeVars, restarts>>

(* Its reading is applied: the rule fires or it does not. *)
Acquire(h, c) ==
  /\ <<h, c>> \in issued
  /\ readings < MaxReadings
  /\ readings' = readings + 1
  /\ issued' = issued \ {<<h, c>>}
  /\ gen' = [gen EXCEPT ![h][c] = @ + 1]
  /\ stale' = [stale EXCEPT ![h][c] = FALSE]
  /\ \E fires \in SUBSET Declarations : raises' = [raises EXCEPT ![h][c] = fires]
  /\ actual' = [actual EXCEPT ![h][c] = readings + 1]
  /\ UNCHANGED <<running, under, estateVars, registryVars, writeVars, restarts>>

(* A decline, or a round that failed before it had one: prior state        *)
(* stands, marked stale.                                                   *)
Decline(h, c) ==
  /\ under[h][c] # None
  /\ issued' = issued \ {<<h, c>>}
  /\ stale' = [stale EXCEPT ![h][c] = TRUE]
  /\ UNCHANGED <<running, under, gen, raises, readings, actual, estateVars, registryVars,
                 writeVars, restarts>>

(* The collator's store is lost between sessions: generations start again. *)
LoseStore(h) ==
  /\ restarts < MaxRestarts
  /\ manifest[h] = None
  /\ restarts' = restarts + 1
  /\ under' = [under EXCEPT ![h] = Nobody]
  /\ issued' = {p \in issued : p[1] # h}
  /\ gen' = [gen EXCEPT ![h] = Zero] /\ stale' = [stale EXCEPT ![h] = Never]
  /\ raises' = [raises EXCEPT ![h] = [c \in Collections |-> {}]]
  /\ UNCHANGED <<running, readings, actual, estateVars, registryVars, writeVars>>

----------------------------------------------------------------------------
(* A session: the manifest, then the states, then the promotion. *)

SessionOpen == {h \in Hosts : manifest[h] # None}

(* The declarations of the collectors that answer, each on its own, are    *)
(* held whatever follows: the newest of a collection is its axes.          *)
Declare(h, answering) ==
  /\ held' = held \cup {<<c, running[h][c]>> : c \in answering}
  /\ axes' = [axes EXCEPT ![h] =
                [c \in Collections |-> IF c \in answering THEN running[h][c] ELSE @[c]]]

(* Collections(): every collection the store has numbered, applied or not, *)
(* named with the declaration its rows are stamped with.                   *)
Numbered(h) == {c \in Collections : under[h][c] # None}

Named(h) == {<<c, under[h][c]>> : c \in Numbered(h)}

(* A session opens: generations and freshness are read now. *)
OpenSession(h) ==
  /\ SessionOpen = {} /\ by = None
  /\ Numbered(h) # {}
  /\ \E answering \in SUBSET Collections \ {{}} : Declare(h, answering)
  /\ Named(h) \subseteq held'
  /\ manifest' = [manifest EXCEPT ![h] =
                    [c \in Numbered(h) |->
                       [generation |-> gen[h][c], fresh |-> ~stale[h][c]]]]
  /\ connected' = {h}
  /\ UNCHANGED <<collatorVars, snapshot, registryVars, writeVars, restarts>>

(* The manifest names a digest that no collector answering has and the hub *)
(* does not hold: it is refused, behind the declarations that did arrive.  *)
RefuseManifest(h) ==
  /\ SessionOpen = {} /\ by = None
  /\ \E answering \in SUBSET Collections \ {{}} : Declare(h, answering)
  /\ ~(Named(h) \subseteq held')
  /\ UNCHANGED <<collatorVars, manifest, snapshot, connected, registryVars, writeVars,
                 restarts>>

(* rollup.opinions: whatever the visible snapshot carries, whoever is      *)
(* connected, minus the opinions citing a fact that the declaration held   *)
(* of that host's collection does not declare.                             *)
Backed(h, c, cites) == axes[h][c] # None /\ cites \subseteq axes[h][c]

Deriving(h) ==
  IF snapshot[h] = None THEN {}
  ELSE {c \in DOMAIN snapshot[h] :
          snapshot[h][c].opinion /\ Backed(h, c, snapshot[h][c].cites)}

(* Objects, and the opinions minted from them by the rules of the          *)
(* declaration stamped by then, are read after the manifest, of            *)
(* collections it lists as applied; the terminal promotes, and the fold    *)
(* begins in the same thread.                                              *)
Promote(h) ==
  /\ manifest[h] # None
  /\ snapshot' = [snapshot EXCEPT ![h] =
       [c \in DOMAIN manifest[h] |->
          [generation |-> manifest[h][c].generation, fresh |-> manifest[h][c].fresh,
           opinion |-> manifest[h][c].generation > 0 /\ under[h][c] \in raises[h][c],
           cites |-> under[h][c], actual |-> actual[h][c]]]]
  /\ manifest' = [manifest EXCEPT ![h] = None]
  /\ by' = h
  /\ UNCHANGED axisVars
  /\ todo' = {k \in Hosts : open[k] # None} \cup {k \in Hosts : Deriving(k)' # {}}
  /\ UNCHANGED <<collatorVars, connected, open, stored, raised, ruled, episode, stampedBy,
                 writeVars, restarts>>

(* The connection is lost before the terminal. *)
Cut(h) ==
  /\ manifest[h] # None
  /\ manifest' = [manifest EXCEPT ![h] = None]
  /\ connected' = {}
  /\ UNCHANGED <<collatorVars, axisVars, snapshot, registryVars, writeVars, restarts>>

----------------------------------------------------------------------------
(* judge. *)

(* Mutant: the same reading may raise a finding and clear it. *)
BlindnessUnread(h, c, g) ==
  IF snapshot[h] = None THEN "unswept"
  ELSE IF h \notin connected THEN "dark"
  ELSE IF c \notin DOMAIN snapshot[h] THEN "collection-absent"
  ELSE IF ~snapshot[h][c].fresh THEN "collection-stale"
  ELSE "none"

(* Mutant: one reading more is waited for. *)
BlindnessOffByOne(h, c, g) ==
  IF snapshot[h] = None THEN "unswept"
  ELSE IF h \notin connected THEN "dark"
  ELSE IF c \notin DOMAIN snapshot[h] THEN "collection-absent"
  ELSE IF snapshot[h][c].generation = 0 THEN "never-applied"
  ELSE IF ~snapshot[h][c].fresh THEN "collection-stale"
  ELSE IF snapshot[h][c].generation <= g + 1 THEN "not-re-read"
  ELSE "none"

(* _blindness: the first reason a contributor could not look, or "none". *)
Blindness(h, c, g) ==
  IF snapshot[h] = None THEN "unswept"
  ELSE IF h \notin connected THEN "dark"
  ELSE IF c \notin DOMAIN snapshot[h] THEN "collection-absent"
  ELSE IF snapshot[h][c].generation = 0 THEN "never-applied"
  ELSE IF ~snapshot[h][c].fresh THEN "collection-stale"
  ELSE IF snapshot[h][c].generation <= g THEN "not-re-read"
  ELSE "none"

Verdict(h) ==
  IF Deriving(h) # {} THEN "current"
  ELSE IF \E p \in open[h].contributors : Blindness(h, p[1], p[2]) # "none"
    THEN "frozen"
  ELSE "resolved"

----------------------------------------------------------------------------
(* Registry.fold, one finding at a time. *)

Contributors(h) == {<<c, snapshot[h][c].generation>> : c \in Deriving(h)}

(* observe_resolution is stored, then the finding leaves the open set. *)
FoldResolved(h) ==
  /\ h \in todo /\ Verdict(h) = "resolved"
  /\ Len(log) < MaxLog
  /\ log' = Append(log, [finding |-> h, action |-> "resolved", episode |-> episode[h]])
  /\ open' = [open EXCEPT ![h] = None]
  /\ todo' = todo \ {h}
  /\ UNCHANGED <<collatorVars, estateVars, stored, by, raised, ruled, episode, stampedBy,
                 request, said, restarts>>

(* A condition that was observed to resolve, or was never seen, begins. *)
Recurs(h) ==
  /\ open[h] = None
  /\ \/ episode[h] = 0
     \/ \E i \in DOMAIN log :
          log[i] = [finding |-> h, action |-> "resolved", episode |-> episode[h]]

(* Current: opened, or stamped with this fold's time and new contributors. *)
FoldCurrent(h) ==
  /\ h \in todo /\ Verdict(h) = "current"
  /\ open' = [open EXCEPT ![h] =
                [contributors |-> Contributors(h), verdict |-> "current"]]
  /\ raised' = [raised EXCEPT ![h] =
       [c \in Collections |-> IF c \in Deriving(h) THEN snapshot[h][c].actual
                              ELSE IF Recurs(h) THEN 0 ELSE @[c]]]
  /\ ruled' = [ruled EXCEPT ![h] =
       [c \in Collections |-> IF c \in Deriving(h) THEN snapshot[h][c].cites ELSE @[c]]]
  /\ episode' = [episode EXCEPT ![h] = IF Recurs(h) THEN @ + 1 ELSE @]
  /\ said' = [said EXCEPT ![h] = IF Recurs(h) THEN "unacknowledge" ELSE @]
  /\ stampedBy' = [stampedBy EXCEPT ![h] = by]
  /\ todo' = todo \ {h}
  /\ UNCHANGED <<collatorVars, estateVars, stored, by, log, request, restarts>>

(* Frozen: everything it knew stands, last_seen included. *)
FoldFrozen(h) ==
  /\ h \in todo /\ Verdict(h) = "frozen"
  /\ open' = [open EXCEPT ![h] = [@ EXCEPT !.verdict = "frozen"]]
  /\ todo' = todo \ {h}
  /\ UNCHANGED <<collatorVars, estateVars, stored, by, raised, ruled, episode, stampedBy,
                 writeVars, restarts>>

(* Mutant: the findings a failed fold had yet to handle are kept. *)
EndFoldKeepsTodo == by' = None /\ connected' = {} /\ UNCHANGED todo

EndFold == by' = None /\ todo' = {} /\ connected' = {}

(* Mutant: only what this fold derived is written. *)
PersistCurrent ==
  /\ by # None /\ todo = {}
  /\ stored' = [h \in Hosts |-> IF open[h] # None /\ open[h].verdict = "current"
                                  THEN open[h] ELSE None]
  /\ EndFold
  /\ UNCHANGED <<collatorVars, axisVars, manifest, snapshot, open, raised, ruled, episode,
                 stampedBy, writeVars, restarts>>

(* _persist replaces the whole set in one transaction; serve's finally     *)
(* then marks the host disconnected.                                       *)
Persist ==
  /\ by # None /\ todo = {}
  /\ stored' = open
  /\ EndFold
  /\ UNCHANGED <<collatorVars, axisVars, manifest, snapshot, open, raised, ruled, episode,
                 stampedBy, writeVars, restarts>>

(* A store call raises: accept_sessions drops the connection, and what was *)
(* already folded stays in memory.                                         *)
FoldFails ==
  /\ by # None
  /\ EndFold
  /\ UNCHANGED <<collatorVars, axisVars, manifest, snapshot, open, stored, raised, ruled,
                 episode, stampedBy, writeVars, restarts>>

----------------------------------------------------------------------------
(* The write listener. *)

(* derived_of(): the open set, read by the request's own thread. *)
CheckOpen(w, h) ==
  /\ request[w] = None
  /\ open[h] # None
  /\ \E a \in {"acknowledge", "unacknowledge"} :
       request' = [request EXCEPT ![w] =
                     [finding |-> h, action |-> a, episode |-> episode[h]]]
  /\ UNCHANGED <<collatorVars, estateVars, registryVars, log, said, restarts>>

(* _store: appended whatever has happened since. *)
StoreTransition(w) ==
  /\ request[w] # None
  /\ Len(log) < MaxLog
  /\ log' = Append(log, request[w])
  /\ LET h == request[w].finding
     IN  said' = [said EXCEPT ![h] =
                    IF open[h] # None /\ request[w].episode = episode[h]
                      THEN request[w].action ELSE @]
  /\ request' = [request EXCEPT ![w] = None]
  /\ UNCHANGED <<collatorVars, estateVars, registryVars, restarts>>

(* Mutant: only what operators wrote is folded. *)
RecordsOfOperators(h) ==
  {i \in DOMAIN log : log[i].finding = h /\ log[i].action # "resolved"}

(* Log.fold: the last record of a finding decides. *)
Records(h) == {i \in DOMAIN log : log[i].finding = h}

LastRecord(h) == log[CHOOSE i \in Records(h) : \A j \in Records(h) : j <= i]

Acknowledged(h) == Records(h) # {} /\ LastRecord(h).action = "acknowledge"

----------------------------------------------------------------------------

(* The hub process is restarted: the registry is read back, the estate is  *)
(* unswept, requests in flight are gone.                                   *)
Restart ==
  /\ restarts < MaxRestarts
  /\ restarts' = restarts + 1
  /\ open' = stored
  /\ snapshot' = [h \in Hosts |-> None] /\ manifest' = [h \in Hosts |-> None]
  /\ held' = {} /\ axes' = [h \in Hosts |-> Nobody]
  /\ connected' = {} /\ by' = None /\ todo' = {}
  /\ request' = [w \in Writers |-> None]
  /\ UNCHANGED <<collatorVars, stored, raised, ruled, episode, stampedBy, log, said>>

Fold == (\E h \in Hosts : FoldResolved(h) \/ FoldCurrent(h) \/ FoldFrozen(h)) \/ Persist

Next ==
  \/ \E h \in Hosts :
       \/ \E c \in Collections :
            Upgrade(h, c) \/ Issue(h, c) \/ Acquire(h, c) \/ Decline(h, c)
       \/ LoseStore(h) \/ OpenSession(h) \/ RefuseManifest(h) \/ Promote(h) \/ Cut(h)
  \/ Fold \/ FoldFails
  \/ \E w \in Writers : StoreTransition(w) \/ \E h \in Hosts : CheckOpen(w, h)
  \/ Restart

Spec == Init /\ [][Next]_vars

(* Collators dial for ever and not every session or fold fails; nothing    *)
(* obliges a collator to acquire, or anything to restart.                  *)
Fairness ==
  /\ \A h \in Hosts :
       /\ SF_vars(OpenSession(h)) /\ SF_vars(Promote(h))
       /\ SF_vars(FoldResolved(h)) /\ SF_vars(FoldCurrent(h)) /\ SF_vars(FoldFrozen(h))
  /\ SF_vars(Persist)

FairSpec == Spec /\ Fairness

----------------------------------------------------------------------------
(* Properties. *)

(* Resolution is logged in this step, and it is h's finding. *)
Resolving(h) ==
  /\ Len(log') > Len(log)
  /\ Last(log').finding = h /\ Last(log').action = "resolved"

Shown(h, c) == snapshot[h] # None /\ c \in DOMAIN snapshot[h]

(* Read again, later than the reading that raised it, and raising nothing. *)
Reread(h, c) ==
  /\ Shown(h, c)
  /\ ~snapshot[h][c].opinion
  /\ snapshot[h][c].actual > raised[h][c]

(* The rules of another declaration say otherwise of the rows. *)
Rejudged(h, c) ==
  /\ Shown(h, c)
  /\ ~snapshot[h][c].opinion
  /\ snapshot[h][c].cites # ruled[h][c]

(* The opinion stands, and the declaration the hub holds does not back it. *)
Unbacked(h, c) ==
  /\ Shown(h, c)
  /\ snapshot[h][c].opinion
  /\ ~Backed(h, c, snapshot[h][c].cites)

(* A finding resolves only where every contributor it names has been read  *)
(* again, later than the reading that raised it, and raises it no more;    *)
(* or has been replaced by a build whose rules say otherwise of the rows,  *)
(* or whose declaration no longer backs the opinion that still stands.     *)
(* Hub restarts, lost stores, declines, cut and refused sessions, rounds   *)
(* that never landed and failed folds never resolve one.                   *)
ResolvedOnlyByNewerReading ==
  [][\A h \in Hosts : Resolving(h) =>
       \A p \in open[h].contributors :
         Reread(h, p[1]) \/ Rejudged(h, p[1]) \/ Unbacked(h, p[1])]_vars

(* resolution.py: "Absence only resolves where the host could look", when  *)
(* a source that could look stopped deriving the finding, "and at no other *)
(* time".                                                                  *)
ResolvedOnlyByLooking ==
  [][\A h \in Hosts : Resolving(h) =>
       \A p \in open[h].contributors : Reread(h, p[1]) \/ Rejudged(h, p[1])]_vars

(* resolution.py: "The same reading cannot both raise a finding and clear  *)
(* it", which is to catch "a changed RULE quietly resolving findings on    *)
(* unchanged facts".                                                       *)
SameReadingNeverClears ==
  [][\A h \in Hosts : Resolving(h) =>
       \A p \in open[h].contributors :
         Shown(h, p[1]) /\ snapshot[h][p[1]].actual > raised[h][p[1]]]_vars

(* A finding leaves the store only behind a recorded resolution: no crash  *)
(* or failure between the steps of a fold closes one silently.             *)
NothingClosesUnobserved ==
  [][\A h \in Hosts :
       stored[h] # None /\ stored'[h] = None =>
         \E i \in DOMAIN log :
           log[i] = [finding |-> h, action |-> "resolved", episode |-> episode[h]]]_vars

(* An acknowledgement shown on a finding was made of this occurrence of    *)
(* it, or its POST overlapped the resolution of the one it was made of:    *)
(* found open before, stored after.                                        *)
AcknowledgementOutlivesOnlyARace ==
  \A h \in Hosts :
    (open[h] # None /\ Acknowledged(h) /\ LastRecord(h).episode # episode[h]) =>
      \E i, j \in DOMAIN log :
        /\ i < j
        /\ log[j] = LastRecord(h)
        /\ log[i] = [log[j] EXCEPT !.action = "resolved"]

(* transitions.py: "an acknowledgement dies with the finding it acted on". *)
AcknowledgementDiesWithFinding ==
  \A h \in Hosts :
    (open[h] # None /\ Acknowledged(h)) => LastRecord(h).episode = episode[h]

(* lifecycle.py: "a frozen finding keeps its first_seen, its               *)
(* acknowledgement and its transitions untouched".                         *)
FrozenKeepsAcknowledgement ==
  \A h \in Hosts :
    (open[h] # None /\ open[h].verdict = "frozen" /\ said[h] = "acknowledge")
      => Acknowledged(h)

(* resolution.py, on judge: a derived key is current because "it was just  *)
(* derived, so something could plainly look".  last_seen is stamped then.  *)
StampedMeansSomethingLooked ==
  \A h \in Hosts : open[h] # None => stampedBy[h] \in {h, None}

(* resolution.py: a finding must tell "all my evidence returned and the    *)
(* condition is gone" from "one third of my evidence returned".  So every  *)
(* collection that raised this occurrence has been read again.             *)
AllEvidenceReturned ==
  [][\A h \in Hosts : Resolving(h) =>
       \A c \in Collections : raised[h][c] # 0 => Reread(h, c)]_vars

(* The condition is gone from a host and stays gone, every collection has  *)
(* been read since it was raised, by the build that is running, and none   *)
(* declines.                                                               *)
Cleared(h) ==
  /\ \A c \in Collections :
       /\ gen[h][c] > 0 /\ ~stale[h][c]
       /\ under[h][c] = running[h][c] /\ under[h][c] \notin raises[h][c]
  /\ \A f \in {open[h], stored[h]} \ {None} :
       \A p \in f.contributors : gen[h][p[1]] > p[2]

(* A finding whose condition has cleared closes: freezing is never for     *)
(* ever while the host dials and can look.                                 *)
ClearedFindingsClose ==
  \A h \in Hosts : (<>[]Cleared(h)) => <>[](open[h] = None)
=============================================================================
