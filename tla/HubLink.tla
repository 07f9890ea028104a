------------------------------ MODULE HubLink ------------------------------
(***************************************************************************)
(* The collator's standing relationship with its hub: hubLoop              *)
(* (collate/run.go) around HubLink and Session (collate/dial.go).          *)
(*                                                                         *)
(* One loop dials, writes one whole session, closes and sleeps.  The only  *)
(* state carried between sessions is `lastConnected`, the boot-clock       *)
(* reading the next session's history gap is measured from.  The hub and   *)
(* the network are the environment: a dial fails or succeeds, and a        *)
(* session is delivered whole or lost part-way.                            *)
(***************************************************************************)
EXTENDS Integers

CONSTANT MaxTime    \* bound on the boot clock, in hubReconnect periods

NoGap == [from |-> 0, to |-> 0]

VARIABLES
  now,            \* BootNow(), never zero once the machine is up
  pc,             \* where hubLoop is: "wake", "dial", "live" or "closing"
  connected,      \* HubLink.connected
  lastConnected,  \* HubLink.lastConnected, 0 before the first Closed
  gap,            \* the HistoryGap this session carries, NoGap for nil
  liveUntil,      \* history: when the last dialled connection ended, 0 = never
  openedAt,       \* history: when the connection now live was dialled
  sessions        \* history: intervals of the connections that were live

vars == <<now, pc, connected, lastConnected, gap, liveUntil, openedAt, sessions>>

Times == 0 .. MaxTime

TypeOK ==
  /\ now \in 1 .. MaxTime
  /\ pc \in {"wake", "dial", "live", "closing"}
  /\ connected = (pc # "wake")
  /\ lastConnected \in Times
  /\ gap \in [from : Times, to : Times]
  /\ liveUntil \in Times
  /\ openedAt \in Times
  /\ sessions \subseteq (Times \X Times)

Init ==
  /\ now = 1
  /\ pc = "wake"
  /\ connected = FALSE
  /\ lastConnected = 0
  /\ gap = NoGap
  /\ liveUntil = 0
  /\ openedAt = 0
  /\ sessions = {}

----------------------------------------------------------------------------

(* HubLink.Gap: nil before the first Closed, or if the clock went back. *)
Gap(t) ==
  IF lastConnected = 0 \/ t < lastConnected
    THEN NoGap
    ELSE [from |-> lastConnected, to |-> t]

(* A later reading of the boot clock; the clock stands still at its bound. *)
Later(t) == IF t < MaxTime THEN t + 1 ELSE t

(* HubLink.Opened and HubLink.Closed. *)
Opened == connected' = TRUE

(* Mutant: a close that keeps the first reading it ever took. *)
ClosedKeepsFirst ==
  /\ connected' = FALSE
  /\ lastConnected' = IF lastConnected = 0 THEN now ELSE lastConnected

(* Mutant: a close that only takes the reading. *)
ClosedStaysOpen ==
  /\ connected' = connected
  /\ lastConnected' = now

Closed ==
  /\ connected' = FALSE
  /\ lastConnected' = now

(* The head of hubLoop: the gap is read and Opened is called before       *)
(* Session has dialled.                                                    *)
BeginSession ==
  /\ pc = "wake"
  /\ gap' = Gap(now)
  /\ Opened
  /\ pc' = "dial"
  /\ UNCHANGED <<now, lastConnected, liveUntil, openedAt, sessions>>

(* Session's dial: refused or timed out, or a live connection. *)
DialFails ==
  /\ pc = "dial"
  /\ pc' = "closing"
  /\ UNCHANGED <<now, connected, lastConnected, gap, liveUntil, openedAt, sessions>>

DialSucceeds ==
  /\ pc = "dial"
  /\ pc' = "live"
  /\ openedAt' = now
  /\ UNCHANGED <<now, connected, lastConnected, gap, liveUntil, sessions>>

(* WriteSession returns, with or without an error, and conn.Close runs.   *)
SessionEnds ==
  /\ pc = "live"
  /\ pc' = "closing"
  /\ liveUntil' = now
  /\ sessions' = sessions \cup {<<openedAt, now>>}
  /\ openedAt' = 0
  /\ UNCHANGED <<now, connected, lastConnected, gap>>

(* hubLoop after Session: Closed whatever Session returned, then the      *)
(* hubReconnect sleep.                                                     *)
EndSession ==
  /\ pc = "closing"
  /\ Closed
  /\ gap' = NoGap
  /\ now' = Later(now)
  /\ pc' = "wake"
  /\ UNCHANGED <<liveUntil, openedAt, sessions>>

(* Time passes while a dial or a session is under way. *)
Tick ==
  /\ pc \in {"dial", "live"}
  /\ now < MaxTime
  /\ now' = now + 1
  /\ UNCHANGED <<pc, connected, lastConnected, gap, liveUntil, openedAt, sessions>>

Next ==
  \/ BeginSession \/ DialFails \/ DialSucceeds
  \/ SessionEnds \/ EndSession \/ Tick

Spec == Init /\ [][Next]_vars

----------------------------------------------------------------------------

(* A history gap never claims an instant at which an earlier session was  *)
(* live: the hub's timeline gets no hole over state it was sent.  It takes *)
(* every Closed of every earlier round to keep lastConnected up to date.   *)
GapNeverCoversLiveTime ==
  pc \in {"dial", "live"} /\ gap # NoGap =>
    /\ gap.from <= gap.to
    /\ \A s \in sessions : s[2] <= gap.from

(* dial.go, on Opened: "a dial that failed is not a connection, and        *)
(* treating it as one would shrink the next gap to exclude an outage that  *)
(* happened".  So a session that follows an earlier one states a gap that  *)
(* reaches back to the end of that earlier one.                            *)
GapCoversOutage ==
  pc = "live" /\ liveUntil # 0 => gap # NoGap /\ gap.from <= liveUntil
=============================================================================
