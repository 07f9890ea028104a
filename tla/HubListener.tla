---------------------------- MODULE HubListener ----------------------------
(***************************************************************************)
(* The hub's session listener: accept_sessions (hub/daemon.py), serve      *)
(* (hub/listener.py) and what they do to the Estate (hub/checkpoint.py).   *)
(*                                                                         *)
(* One thread accepts a connection and reads it to its end before it       *)
(* accepts the next.  A peer may close early, be refused, or lose power:   *)
(* then no byte and no end of stream ever arrives, and the read, which has *)
(* no timeout, waits for both.  Records are summarised by the three        *)
(* moments that touch the estate: the manifest, the terminal, the end.     *)
(***************************************************************************)
EXTENDS Naturals, Sequences, SequencesExt

CONSTANTS
  Hosts,        \* the hosts whose collators dial
  Nobody,       \* no connection is being served
  MaxBacklog    \* bound on the connections waiting to be accepted

ASSUME ListenerAssumption == Nobody \notin Hosts /\ MaxBacklog \in Nat

VARIABLES
  accepting,    \* accept_sessions has not returned
  backlog,      \* connections the kernel holds, oldest first
  serving,      \* the host whose connection is being read, or Nobody
  stage,        \* the open session: "declarations", "checkpoint" or "stream"
  lost,         \* the peer of the connection being served has lost power
  snapshot,     \* hosts with a promoted snapshot
  connected,    \* hosts whose record says connected
  spoke         \* history: hosts promoted since this hub started

vars == <<accepting, backlog, serving, stage, lost, snapshot, connected, spoke>>

Connection == [host : Hosts, lost : BOOLEAN]

TypeOK ==
  /\ accepting \in BOOLEAN
  /\ backlog \in Seq(Connection) /\ Len(backlog) <= MaxBacklog
  /\ serving \in Hosts \cup {Nobody}
  /\ stage \in {"closed", "declarations", "checkpoint", "stream"}
  /\ (serving = Nobody) <=> (stage = "closed")
  /\ lost \in BOOLEAN
  /\ snapshot \subseteq Hosts /\ connected \subseteq Hosts /\ spoke \subseteq Hosts

Init ==
  /\ accepting = TRUE
  /\ backlog = <<>>
  /\ serving = Nobody /\ stage = "closed" /\ lost = FALSE
  /\ snapshot = {} /\ connected = {} /\ spoke = {}

----------------------------------------------------------------------------
(* The hosts. *)

Live(h) ==
  \/ serving = h /\ ~lost
  \/ \E i \in DOMAIN backlog : backlog[i].host = h /\ ~backlog[i].lost

(* A collator has one session at a time; one that rebooted dials afresh.   *)
Dial(h) ==
  /\ ~Live(h)
  /\ Len(backlog) < MaxBacklog
  /\ backlog' = Append(backlog, [host |-> h, lost |-> FALSE])
  /\ UNCHANGED <<accepting, serving, stage, lost, snapshot, connected, spoke>>

LosePower(h) ==
  /\ Live(h)
  /\ lost' = (lost \/ serving = h)
  /\ backlog' = [i \in DOMAIN backlog |->
                   IF backlog[i].host = h THEN [backlog[i] EXCEPT !.lost = TRUE]
                   ELSE backlog[i]]
  /\ UNCHANGED <<accepting, serving, stage, snapshot, connected, spoke>>

----------------------------------------------------------------------------
(* The hub's one session thread. *)

(* Mutant: the newest connection is served first. *)
AcceptNewest ==
  /\ accepting /\ serving = Nobody
  /\ backlog # <<>>
  /\ serving' = Last(backlog).host
  /\ lost' = Last(backlog).lost
  /\ stage' = "declarations"
  /\ backlog' = Front(backlog)
  /\ UNCHANGED <<accepting, snapshot, connected, spoke>>

Accept ==
  /\ accepting /\ serving = Nobody
  /\ backlog # <<>>
  /\ serving' = Head(backlog).host
  /\ lost' = Head(backlog).lost
  /\ stage' = "declarations"
  /\ backlog' = Tail(backlog)
  /\ UNCHANGED <<accepting, snapshot, connected, spoke>>

(* accept raises an OSError (a connection aborted in the backlog, no       *)
(* descriptor left): accept_sessions returns, and nothing starts it again. *)
AcceptFails ==
  /\ accepting /\ serving = Nobody
  /\ backlog # <<>>
  /\ accepting' = FALSE
  /\ UNCHANGED <<backlog, serving, stage, lost, snapshot, connected, spoke>>

(* A manifest names the host: Estate.connected. *)
Manifest ==
  /\ stage = "declarations" /\ ~lost
  /\ stage' = "checkpoint"
  /\ connected' = connected \cup {serving}
  /\ UNCHANGED <<accepting, backlog, serving, lost, snapshot, spoke>>

(* The terminal: Estate.promote. *)
Terminal ==
  /\ stage = "checkpoint" /\ ~lost
  /\ stage' = "stream"
  /\ snapshot' = snapshot \cup {serving}
  /\ connected' = connected \cup {serving}
  /\ spoke' = spoke \cup {serving}
  /\ UNCHANGED <<accepting, backlog, serving, lost>>

(* Mutant: the host is not marked disconnected. *)
EndSessionKeeps ==
  /\ serving # Nobody /\ ~lost
  /\ serving' = Nobody /\ stage' = "closed"
  /\ UNCHANGED <<accepting, backlog, lost, snapshot, connected, spoke>>

(* Mutant: the Session object outlives its connection. *)
EndSessionReused ==
  /\ serving # Nobody /\ ~lost
  /\ connected' = connected \ {serving}
  /\ serving' = Nobody
  /\ UNCHANGED <<accepting, backlog, stage, lost, snapshot, spoke>>

(* End of stream, a refusal, a record that will not parse, or a handler    *)
(* that raised: the connection is closed and the host it named, if a       *)
(* manifest named one, is disconnected.                                    *)
EndSession ==
  /\ serving # Nobody /\ ~lost
  /\ connected' = IF stage = "declarations" THEN connected ELSE connected \ {serving}
  /\ serving' = Nobody /\ stage' = "closed"
  /\ UNCHANGED <<accepting, backlog, lost, snapshot, spoke>>

(* The process is restarted: the estate is memory and the kernel resets    *)
(* every connection.                                                       *)
Restart ==
  /\ accepting' = TRUE /\ backlog' = <<>>
  /\ serving' = Nobody /\ stage' = "closed" /\ lost' = FALSE
  /\ snapshot' = {} /\ connected' = {} /\ spoke' = {}

Serve == Manifest \/ Terminal \/ EndSession

Next ==
  \/ \E h \in Hosts : Dial(h) \/ LosePower(h)
  \/ Accept \/ AcceptFails \/ Serve \/ Restart

(* The thread runs; a powered peer goes on writing or closes, since a      *)
(* collator writes one session and closes behind it.                       *)
Fairness == WF_vars(Accept) /\ WF_vars(Serve)

Spec == Init /\ [][Next]_vars /\ Fairness

----------------------------------------------------------------------------
(* Properties. *)

(* Estate.reach. *)
Reach(h) ==
  IF h \notin snapshot THEN "unswept"
  ELSE IF h \in connected THEN "connected" ELSE "dark"

(* "Telling the middle one from the last is the whole reason this module   *)
(* keeps any state at all": connected only while its session is served,    *)
(* unswept exactly when it has completed nothing since the hub started,    *)
(* dark exactly when it has and no session of its own is past its          *)
(* manifest.                                                               *)
ReachIsHonest ==
  \A h \in Hosts :
    /\ (Reach(h) = "unswept") <=> h \notin spoke
    /\ h \in connected => serving = h /\ stage \in {"checkpoint", "stream"}
    /\ (serving = h /\ stage = "stream") => Reach(h) = "connected"

Waiting(h) == \E i \in DOMAIN backlog : backlog[i].host = h /\ ~backlog[i].lost

(* A collator that dials is served, or goes away of itself, unless the     *)
(* thread is reading from a peer that lost power or accept has failed      *)
(* once: nothing else a peer does holds the thread, and none overtakes     *)
(* another for ever.                                                       *)
WaitsOnlyBehindALostPeer ==
  \A h \in Hosts : Waiting(h) ~> (~Waiting(h) \/ lost \/ ~accepting)

(* daemon.py, accept_sessions: "a session that dies takes its own          *)
(* connection and nothing else".  While accept goes on, every collator     *)
(* that dials is served or goes away of itself, whatever becomes of the    *)
(* session served before it.                                               *)
NobodyWaitsForEver ==
  \A h \in Hosts : Waiting(h) ~> (~Waiting(h) \/ ~accepting)
=============================================================================
