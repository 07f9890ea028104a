----------------------------- MODULE HubSession -----------------------------
(***************************************************************************)
(* One collator session: WriteSession (collate/dial.go) and                *)
(* WriteCheckpoint (collate/checkpoint.go) at one end, Session             *)
(* (hub/session.py), Receiver and Estate (hub/checkpoint.py) and serve     *)
(* (hub/listener.py) at the other.                                         *)
(*                                                                         *)
(* The collator's store is the batch authority, and acquisition goes on    *)
(* while a session is written: each record is read from the store by a     *)
(* statement of its own.  The connection is TCP, so records arrive in      *)
(* order or the connection is lost; a record is sent and ingested in one   *)
(* step, and the connection may be lost before any of them.                *)
(*                                                                         *)
(* Each collection is served by a collector of its own, which may be       *)
(* replaced by another build or fall silent.  Records the collator never   *)
(* writes (an unknown kind, a bare document) are left out.                 *)
(***************************************************************************)
EXTENDS BatchAuthority, FiniteSetsExt

CONSTANT CountOf    \* CountOf[x]: how many objects a content holds

ASSUME CountAssumption == CountOf \in [Contents -> Nat]

\* A batch's begin always names a boot and a time-namespace offset.
ASSUME BeginAssumption == Boots # {} /\ Skews # {}

VARIABLES
  running,    \* running[c]: the declaration c's collector would serve now
  pc,         \* WriteSession: "idle", "declaring", "manifesting" or "sending"
  toAsk,      \* collectors WriteSession has yet to ask
  states,     \* the reading of Collections() the checkpoint is written from
  toSend,     \* collections whose state record is still to be written
  sent,       \* how many state records were written
  phase,      \* hub Session.phase, "closed" between sessions
  pending,    \* Session._pending: digests held until a host is named
  held,       \* Declarations._by_hash
  entries,    \* Receiver._open.entries, NoEntries while nothing is open
  received,   \* Receiver._open.states
  visible,    \* the promoted snapshot; NoEntries while the host is unswept
  connected,  \* Estate: _HostRecord.connected
  refusal     \* why the last session was refused, "none" if it was not

collatorVars == <<running, pc, toAsk, states, toSend, sent>>
hubVars == <<phase, pending, held, entries, received, visible, connected, refusal>>
vars == <<avars, collatorVars, hubVars>>

NoEntries == <<>>

Refusals ==
  {"none", "no-declarations", "declaration-unknown", "state-undeclared",
   "state-repeated", "state-never-applied", "state-generation-moved",
   "state-truncated", "terminal-count-mismatch", "state-missing"}

TypeOK ==
  /\ running \in [Collections -> Decls]
  /\ pc \in {"idle", "declaring", "manifesting", "sending"}
  /\ toAsk \subseteq Collections /\ toSend \subseteq DOMAIN states
  /\ phase \in {"closed", "declarations", "checkpoint", "stream"}
  /\ held \subseteq Decls /\ pending \subseteq Decls
  /\ DOMAIN received \subseteq DOMAIN entries
  /\ connected \in BOOLEAN
  /\ refusal \in Refusals

Init ==
  /\ AuthorityInit
  /\ running \in [Collections -> Decls]
  /\ pc = "idle" /\ toAsk = {} /\ states = NoEntries /\ toSend = {} /\ sent = 0
  /\ phase = "closed" /\ pending = {} /\ held = {}
  /\ entries = NoEntries /\ received = NoEntries
  /\ visible = NoEntries /\ connected = FALSE /\ refusal = "none"

----------------------------------------------------------------------------
(* The collator's host goes on: acquisition, upgrades, restarts. *)

AcquireIssue(c) ==
  /\ IssueGenerations({c}, running[c])
  /\ UNCHANGED <<collatorVars, hubVars>>

AcquireApply(c) ==
  /\ \E x \in Contents, s \in Scopes :
       ApplyCommitWith(c, [gen |-> issuedGen[c], scope |-> s,
                           content |-> x, kind |-> "commit",
                           boot |-> CHOOSE b \in Boots : TRUE,
                           declaration |-> running[c],
                           skew |-> CHOOSE k \in Skews : TRUE])
  /\ UNCHANGED <<collatorVars, hubVars>>

AcquireDeclines(c) ==
  /\ MarkStaleWith(c)
  /\ UNCHANGED <<collatorVars, hubVars>>

Upgrade(c) ==
  /\ \E d \in Decls : running' = [running EXCEPT ![c] = d]
  /\ UNCHANGED <<avars, pc, toAsk, states, toSend, sent, hubVars>>

----------------------------------------------------------------------------
(* The end of a session, at both ends at once. *)

(* Nothing of a checkpoint in flight outlives the connection, and serve's  *)
(* finally marks the host disconnected once a manifest has named it.       *)
CloseCollator ==
  /\ pc' = "idle" /\ toAsk' = {} /\ states' = NoEntries /\ toSend' = {} /\ sent' = 0

(* Mutant: a session that ends early leaves the host marked connected. *)
CloseHubLingers ==
  /\ phase' = "closed" /\ pending' = {} /\ entries' = NoEntries /\ received' = NoEntries
  /\ connected' = IF phase = "stream" THEN FALSE ELSE connected

(* Mutant: the fragment received so far is kept. *)
CloseHubKeepsFragment ==
  /\ phase' = "closed" /\ pending' = {} /\ entries' = NoEntries /\ UNCHANGED received
  /\ connected' = IF phase \in {"checkpoint", "stream"} THEN FALSE ELSE connected

CloseHub ==
  /\ phase' = "closed" /\ pending' = {} /\ entries' = NoEntries /\ received' = NoEntries
  /\ connected' = IF phase \in {"checkpoint", "stream"} THEN FALSE ELSE connected

Refuse(reason) ==
  /\ refusal' = reason
  /\ CloseCollator
  /\ CloseHub
  /\ UNCHANGED <<avars, running, held, visible>>

(* The connection is lost, or the collator gives up or dies. *)
Cut ==
  /\ pc # "idle"
  /\ CloseCollator
  /\ CloseHub
  /\ UNCHANGED <<avars, running, held, visible, refusal>>

(* The hub restarts: it holds no declaration, no snapshot, no session. *)
HubRestart ==
  /\ CloseCollator
  /\ phase' = "closed" /\ pending' = {} /\ held' = {} /\ entries' = NoEntries
  /\ received' = NoEntries /\ visible' = NoEntries /\ connected' = FALSE
  /\ refusal' = "none"
  /\ UNCHANGED <<avars, running>>

----------------------------------------------------------------------------
(* Declarations. *)

(* hubLoop dials again only after the last session has been closed. *)
Dial ==
  /\ pc = "idle" /\ phase = "closed"
  /\ pc' = "declaring" /\ toAsk' = Collections
  /\ phase' = "declarations" /\ refusal' = "none"
  /\ UNCHANGED <<avars, running, states, toSend, sent, pending, held,
                 entries, received, visible, connected>>

(* Every collector is asked again; one that answers is framed with its     *)
(* digest and held by the hub until a manifest names the host.             *)
SendDeclaration(c) ==
  /\ pc = "declaring" /\ c \in toAsk
  /\ toAsk' = toAsk \ {c}
  /\ pending' = pending \cup {running[c]}
  /\ UNCHANGED <<avars, running, pc, states, toSend, sent, phase, held,
                 entries, received, visible, connected, refusal>>

(* One that will not answer, at this moment, is reported and skipped. *)
SkipDeclaration(c) ==
  /\ pc = "declaring" /\ c \in toAsk
  /\ toAsk' = toAsk \ {c}
  /\ UNCHANGED <<avars, running, pc, states, toSend, sent, hubVars>>

(* sent == 0: the collator says so itself and no manifest is written. *)
NothingDeclared ==
  /\ pc = "declaring" /\ toAsk = {} /\ pending = {}
  /\ CloseCollator
  /\ CloseHub
  /\ UNCHANGED <<avars, running, held, visible, refusal>>

(* Collections(): one statement reads every row and counts its objects. *)
ObjectCount(os) == MapThenSumSet(LAMBDA s : CountOf[os[s]], Scopes)

(* Mutant: the generation issued is sent, not the one applied. *)
ReadCollectionsIssued ==
  /\ pc = "declaring" /\ toAsk = {} /\ pending # {}
  /\ \E c \in Collections : issuedGen[c] > 0
  /\ states' = [c \in {c \in Collections : issuedGen[c] > 0} |->
                  [generation |-> issuedGen[c], freshness |-> freshness[c],
                   count |-> ObjectCount(objects[c]), declaration |-> declaration[c]]]
  /\ pc' = "manifesting"
  /\ UNCHANGED <<avars, running, toAsk, toSend, sent, hubVars>>

ReadCollections ==
  /\ pc = "declaring" /\ toAsk = {} /\ pending # {}
  /\ \E c \in Collections : issuedGen[c] > 0
  /\ states' = [c \in {c \in Collections : issuedGen[c] > 0} |->
                  [generation |-> appliedGen[c], freshness |-> freshness[c],
                   count |-> ObjectCount(objects[c]), declaration |-> declaration[c]]]
  /\ pc' = "manifesting"
  /\ UNCHANGED <<avars, running, toAsk, toSend, sent, hubVars>>

(* ErrNothingToCheckpoint. *)
NothingToCheckpoint ==
  /\ pc = "declaring" /\ toAsk = {} /\ pending # {}
  /\ \A c \in Collections : issuedGen[c] = 0
  /\ CloseCollator
  /\ CloseHub
  /\ UNCHANGED <<avars, running, held, visible, refusal>>

----------------------------------------------------------------------------
(* The checkpoint. *)

Named == {states[c].declaration : c \in DOMAIN states}

Applied == {c \in DOMAIN states : states[c].generation > 0}

(* Mutant: an unknown digest is let through, to be fetched later. *)
SendManifestTrusting ==
  /\ pc = "manifesting"
  /\ held' = held \cup pending
  /\ pc' = "sending" /\ toSend' = Applied /\ sent' = 0
  /\ phase' = "checkpoint" /\ connected' = TRUE
  /\ pending' = {} /\ entries' = states /\ received' = NoEntries
  /\ UNCHANGED <<avars, running, toAsk, states, refusal, visible>>

(* _open_checkpoint: the pending declarations are indexed whatever follows *)
(* and every digest the manifest names must be held.                       *)
SendManifest ==
  /\ pc = "manifesting"
  /\ held' = held \cup pending
  /\ \/ /\ ~(Named \subseteq held \cup pending)
        /\ refusal' = "declaration-unknown"
        /\ CloseCollator
        /\ CloseHub
     \/ /\ Named \subseteq held \cup pending
        /\ pc' = "sending" /\ toSend' = Applied /\ sent' = 0
        /\ phase' = "checkpoint" /\ connected' = TRUE
        /\ pending' = {} /\ entries' = states /\ received' = NoEntries
        /\ UNCHANGED <<toAsk, states, refusal>>
  /\ UNCHANGED <<avars, running, visible>>

(* Receiver._state: what it holds against a collection_state record. *)
StateRefusal(c, generation, os) ==
  IF c \notin DOMAIN entries THEN "state-undeclared"
  ELSE IF c \in DOMAIN received THEN "state-repeated"
  ELSE IF entries[c].generation = 0 THEN "state-never-applied"
  ELSE IF generation # entries[c].generation THEN "state-generation-moved"
  ELSE IF entries[c].count # ObjectCount(os) THEN "state-truncated"
  ELSE "none"

Snapshot(c, os) ==
  [generation |-> entries[c].generation, freshness |-> entries[c].freshness,
   declaration |-> entries[c].declaration, objects |-> os]

(* The objects are read now; the generation is the one Collections() gave. *)
SendState(c) ==
  /\ pc = "sending" /\ c \in toSend
  /\ LET os == objects[c]
         why == StateRefusal(c, states[c].generation, os)
     IN  \/ why # "none" /\ Refuse(why)
         \/ /\ why = "none"
            /\ toSend' = toSend \ {c} /\ sent' = sent + 1
            /\ received' = [n \in DOMAIN received \cup {c} |->
                              IF n = c THEN Snapshot(c, os) ELSE received[n]]
            /\ UNCHANGED <<avars, running, pc, toAsk, states, phase, pending,
                           held, entries, visible, connected, refusal>>

(* Receiver._terminal. *)
TerminalRefusal ==
  IF sent # Cardinality(DOMAIN received) THEN "terminal-count-mismatch"
  ELSE IF \E c \in DOMAIN entries : entries[c].generation > 0 /\ c \notin DOMAIN received
    THEN "state-missing"
  ELSE "none"

NeverApplied(c) ==
  [generation |-> 0, freshness |-> entries[c].freshness,
   declaration |-> entries[c].declaration, objects |-> [s \in Scopes |-> Empty]]

(* Mutant: a collection the terminal still owes is promoted as empty. *)
SendTerminalEarly ==
  /\ pc = "sending"
  /\ visible' = [c \in DOMAIN entries |->
                   IF c \in DOMAIN received THEN received[c] ELSE NeverApplied(c)]
  /\ phase' = "stream" /\ connected' = TRUE
  /\ entries' = NoEntries /\ received' = NoEntries
  /\ CloseCollator
  /\ UNCHANGED <<avars, running, pending, held, refusal>>

(* The terminal completes the checkpoint and the estate takes it whole. *)
SendTerminal ==
  /\ pc = "sending" /\ toSend = {}
  /\ \/ TerminalRefusal # "none" /\ Refuse(TerminalRefusal)
     \/ /\ TerminalRefusal = "none"
        /\ visible' = [c \in DOMAIN entries |->
                         IF c \in DOMAIN received THEN received[c] ELSE NeverApplied(c)]
        /\ phase' = "stream" /\ connected' = TRUE
        /\ entries' = NoEntries /\ received' = NoEntries
        /\ CloseCollator
        /\ UNCHANGED <<avars, running, pending, held, refusal>>

(* The collator closes behind its terminal; the hub reads end of stream. *)
EndOfStream ==
  /\ phase = "stream"
  /\ CloseHub
  /\ UNCHANGED <<avars, collatorVars, held, visible, refusal>>

----------------------------------------------------------------------------

HostGoesOn ==
  \E c \in Collections :
    \/ AcquireIssue(c) \/ AcquireApply(c) \/ AcquireDeclines(c)
    \/ Upgrade(c)

WriteSession ==
  \/ Dial
  \/ \E c \in Collections : SendDeclaration(c) \/ SkipDeclaration(c) \/ SendState(c)
  \/ NothingDeclared \/ ReadCollections \/ NothingToCheckpoint
  \/ SendManifest \/ SendTerminal \/ EndOfStream

Next == HostGoesOn \/ WriteSession \/ Cut \/ HubRestart

Spec == Init /\ [][Next]_vars

----------------------------------------------------------------------------
(* Properties. *)

NewestContent(mine) ==
  IF mine = {} THEN Empty
  ELSE (CHOOSE r \in mine : \A q \in mine : q.gen <= r.gen).content

(* What a reader of the authority saw once generation g had been applied. *)
ViewAt(c, g) ==
  [s \in Scopes |-> NewestContent({r \in ledger[c] : r.scope = s /\ r.gen <= g})]

(* What is visible was promoted whole: every collection shows what a       *)
(* reader of the collator saw at the generation it claims or at a later    *)
(* one, and only a collection that had never applied is shown without a    *)
(* reading.  A session cut, refused or overtaken by acquisition part-way   *)
(* never leaves part of itself behind.                                     *)
VisibleWasApplied ==
  \A c \in DOMAIN visible :
    \E g \in visible[c].generation .. appliedGen[c] :
      /\ visible[c].objects = ViewAt(c, g)
      /\ visible[c].generation = 0 => g = 0

(* A later session never drops a collection the host still has, and never  *)
(* takes the hub back, until the hub restarts: what was visible held by    *)
(* the generation the new session claims, and what is visible now holds    *)
(* from that generation on, although every record of either session was    *)
(* read while acquisition went on.                                         *)
VisibleNeverGoesBack ==
  [][visible' # visible /\ visible' # NoEntries =>
       \A c \in DOMAIN visible :
         /\ c \in DOMAIN visible'
         /\ \E g \in visible[c].generation .. visible'[c].generation,
               h \in visible'[c].generation .. appliedGen[c] :
              /\ visible[c].objects = ViewAt(c, g)
              /\ visible'[c].objects = ViewAt(c, h)]_vars

(* A host is shown as connected only while its session is being served: a  *)
(* session lost or refused at any record leaves it dark or unswept.        *)
ConnectedMeansServing ==
  connected => phase \in {"checkpoint", "stream"}

(* Whatever is visible can be read: the hub holds the declaration each     *)
(* collection was learned under, though collectors are upgraded between    *)
(* acquisition and session and a hub restart forgets every one.            *)
VisibleAxesAreHeld ==
  \A c \in DOMAIN visible : visible[c].declaration \in held

(* checkpoint.py, on HostSnapshot: "one checkpoint is one collator's state *)
(* at one moment".  The moment is the one its generations name.            *)
VisibleIsOneMoment ==
  \A c \in DOMAIN visible : visible[c].objects = ViewAt(c, visible[c].generation)

(* dial.go, on WriteSession: "one silent collector must not cost the hub   *)
(* every other collection on the host".  A manifest is only written when   *)
(* some collector answered, so no session is refused for the one that did  *)
(* not.                                                                    *)
SilentCollectorCostsNoOther == refusal # "declaration-unknown"
=============================================================================
