-------------------------- MODULE HubListenerProofs --------------------------
(***************************************************************************)
(* Proofs about the two ends of the standing connection: the hub's session *)
(* listener, for every set of hosts and every length of backlog, and the   *)
(* collator's hubLoop that dials it, for every bound on the boot clock.    *)
(*                                                                         *)
(* What the surfaces say of a host is kept in two sets that different      *)
(* moments of a session write, and the end of a session takes its host out *)
(* of one of them only when a manifest named it.  That a session which     *)
(* ends before its manifest has nothing to take out is the middle part of  *)
(* ReachIsHonest itself: with the type invariant it is inductive.          *)
(***************************************************************************)
EXTENDS HubListener, TLAPS

CONSTANT MaxTime    \* HubLink's bound on the boot clock
VARIABLES now, pc, dialled, lastConnected, gap, liveUntil, openedAt, sessions

\* hubLoop and HubLink at a dialling collator; `connected` is Estate's here.
Loop == INSTANCE HubLink WITH connected <- dialled

ListenerInv == TypeOK /\ ReachIsHonest

(* ReachIsHonest said of the sets Estate.reach reads. *)
LEMMA HonestSets ==
  ReachIsHonest <=>
    \A h \in Hosts :
      /\ h \in snapshot <=> h \in spoke
      /\ h \in connected => serving = h /\ stage \in {"checkpoint", "stream"}
      /\ (serving = h /\ stage = "stream") => h \in snapshot /\ h \in connected
BY DEF ReachIsHonest, Reach

LEMMA NobodyWaiting == <<>> \in Seq(Connection) /\ Len(<<>>) <= MaxBacklog
<1>1. <<>> \in Seq(Connection) /\ Len(<<>>) = 0
  OBVIOUS
<1> QED
  BY <1>1, ListenerAssumption

LEMMA ListenerInit == Init => ListenerInv
<1> SUFFICES ASSUME Init PROVE ListenerInv
  OBVIOUS
<1>1. TypeOK
  BY NobodyWaiting DEF Init, TypeOK
<1>2. ReachIsHonest
  BY DEF Init, ReachIsHonest, Reach
<1> QED
  BY <1>1, <1>2 DEF ListenerInv

LEMMA ListenerTypeStep == TypeOK /\ [Next]_vars => TypeOK'
<1> SUFFICES ASSUME TypeOK, [Next]_vars PROVE TypeOK'
  OBVIOUS
<1> USE ListenerAssumption
<1>1. ASSUME NEW h \in Hosts, Dial(h) PROVE TypeOK'
  <2>1. [host |-> h, lost |-> FALSE] \in Connection
    BY DEF Connection
  <2>2. backlog' \in Seq(Connection) /\ Len(backlog') <= MaxBacklog
    BY <1>1, <2>1 DEF Dial, TypeOK
  <2> QED
    BY <1>1, <2>2 DEF Dial, TypeOK
<1>2. ASSUME NEW h \in Hosts, LosePower(h) PROVE TypeOK'
  <2>1. backlog \in [1 .. Len(backlog) -> Connection] /\ Len(backlog) \in Nat
    BY DEF TypeOK
  <2>2. \A i \in DOMAIN backlog : [backlog[i] EXCEPT !.lost = TRUE] \in Connection
    BY <2>1 DEF Connection
  <2>3. backlog' \in [1 .. Len(backlog) -> Connection]
    BY <1>2, <2>1, <2>2 DEF LosePower
  <2>4. backlog' \in Seq(Connection) /\ Len(backlog') = Len(backlog)
    BY <2>1, <2>3
  <2> QED
    BY <1>2, <2>4 DEF LosePower, TypeOK
<1>3. CASE Accept
  <2>1. Head(backlog) \in Connection /\ backlog' \in Seq(Connection)
        /\ Len(backlog') = Len(backlog) - 1
    BY <1>3 DEF Accept, TypeOK
  <2>2. serving' \in Hosts /\ lost' \in BOOLEAN
    BY <1>3, <2>1 DEF Accept, Connection
  <2> QED
    BY <1>3, <2>1, <2>2 DEF Accept, TypeOK
<1>4. CASE AcceptFails
  BY <1>4 DEF AcceptFails, TypeOK
<1>5. CASE Serve
  BY <1>5 DEF Serve, Manifest, Terminal, EndSession, TypeOK
<1>6. CASE Restart
  BY <1>6, NobodyWaiting DEF Restart, TypeOK
<1>7. CASE UNCHANGED vars
  BY <1>7 DEF vars, TypeOK
<1> QED
  BY <1>1, <1>2, <1>3, <1>4, <1>5, <1>6, <1>7 DEF Next

LEMMA ReachStep == ListenerInv /\ [Next]_vars => ReachIsHonest'
<1> SUFFICES ASSUME TypeOK, ReachIsHonest, [Next]_vars PROVE ReachIsHonest'
  BY DEF ListenerInv
<1> DEFINE Says(h, sn, sp, co, se, st) ==
      /\ h \in sn <=> h \in sp
      /\ h \in co => se = h /\ st \in {"checkpoint", "stream"}
      /\ (se = h /\ st = "stream") => h \in sn /\ h \in co
<1>1. \A h \in Hosts : Says(h, snapshot, spoke, connected, serving, stage)
  BY HonestSets
<1> SUFFICES ASSUME NEW h \in Hosts
             PROVE  Says(h, snapshot', spoke', connected', serving', stage')
  BY DEF ReachIsHonest, Reach
<1>2. CASE \E g \in Hosts : Dial(g) \/ LosePower(g)
  BY <1>1, <1>2 DEF Dial, LosePower
<1>3. CASE Accept
  \* Nothing is being served, so nobody is connected.
  BY <1>1, <1>3, ListenerAssumption DEF Accept, TypeOK
<1>4. CASE AcceptFails
  BY <1>1, <1>4 DEF AcceptFails
<1>5. CASE Manifest
  BY <1>1, <1>5 DEF Manifest
<1>6. CASE Terminal
  BY <1>1, <1>6 DEF Terminal
<1>7. CASE EndSession
  \* Before its manifest a session has connected nobody.
  BY <1>1, <1>7, ListenerAssumption DEF EndSession, TypeOK
<1>8. CASE Restart
  BY <1>8 DEF Restart
<1>9. CASE UNCHANGED vars
  BY <1>1, <1>9 DEF vars
<1> QED
  BY <1>2, <1>3, <1>4, <1>5, <1>6, <1>7, <1>8, <1>9 DEF Next, Serve

LEMMA ListenerStep == ListenerInv /\ [Next]_vars => ListenerInv'
BY ListenerTypeStep, ReachStep DEF ListenerInv

(* Whatever dials, loses power or restarts, accept_sessions and serve keep *)
(* the thread, the connection it reads and the estate's sets consistent.   *)
THEOREM ListenerTypes == Spec => []TypeOK
<1>1. ListenerInv => TypeOK
  BY DEF ListenerInv
<1> QED
  BY ListenerInit, ListenerStep, <1>1, PTL DEF Spec

(* Estate.reach tells the truth about every host: unswept, connected and   *)
(* dark are what they say, for any number of hosts behind the one thread.  *)
THEOREM ReachTellsTheTruth == Spec => []ReachIsHonest
<1>1. ListenerInv => ReachIsHonest
  BY DEF ListenerInv
<1> QED
  BY ListenerInit, ListenerStep, <1>1, PTL DEF Spec

----------------------------------------------------------------------------
(* The collator's end.                                                     *)
(*                                                                         *)
(* What a gap may claim is decided when hubLoop reads it and judged until  *)
(* the session is over.  Between the two, lastConnected bounds the end of  *)
(* every session, except while the last one is over and not yet Closed:    *)
(* then only the clock bounds it, and Closed is about to read the clock.   *)

LinkInv ==
  /\ Loop!TypeOK
  /\ lastConnected <= now /\ openedAt <= now
  /\ \A s \in sessions : s[2] <= IF pc = "closing" THEN now ELSE lastConnected
  /\ pc \in {"dial", "live"} =>
       gap = Loop!NoGap \/ (gap.from = lastConnected /\ gap.from <= gap.to)

LEMMA LinkInit ==
  ASSUME MaxTime \in Nat \ {0} PROVE Loop!Init => LinkInv
<1>1. Loop!NoGap \in [from : Loop!Times, to : Loop!Times]
  BY DEF Loop!NoGap, Loop!Times
<1> QED
  <2> SUFFICES ASSUME Loop!Init PROVE LinkInv
    OBVIOUS
  <2>1. now \in 1 .. MaxTime /\ 0 \in Loop!Times
    BY DEF Loop!Init, Loop!Times
  <2>2. dialled = (pc # "wake")
    BY DEF Loop!Init
  <2>3. sessions \subseteq Loop!Times \X Loop!Times
    BY DEF Loop!Init
  <2>4. Loop!TypeOK
    BY <1>1, <2>1, <2>2, <2>3 DEF Loop!Init, Loop!TypeOK
  <2> QED
    BY <2>1, <2>4 DEF Loop!Init, LinkInv

LEMMA LinkTypeStep ==
  ASSUME MaxTime \in Nat \ {0} PROVE LinkInv /\ [Loop!Next]_Loop!vars => Loop!TypeOK'
<1> SUFFICES ASSUME LinkInv, [Loop!Next]_Loop!vars PROVE Loop!TypeOK'
  OBVIOUS
<1> USE DEF LinkInv, Loop!TypeOK, Loop!Times
<1>1. CASE Loop!BeginSession
  <2>1. gap' \in [from : Loop!Times, to : Loop!Times]
    BY <1>1 DEF Loop!BeginSession, Loop!Gap, Loop!NoGap
  <2> QED
    BY <1>1, <2>1 DEF Loop!BeginSession, Loop!Opened
<1>2. CASE Loop!DialFails \/ Loop!DialSucceeds
  BY <1>2 DEF Loop!DialFails, Loop!DialSucceeds
<1>3. CASE Loop!SessionEnds
  BY <1>3 DEF Loop!SessionEnds
<1>4. CASE Loop!EndSession
  <2>1. Loop!NoGap \in [from : Loop!Times, to : Loop!Times]
    BY DEF Loop!NoGap
  <2> QED
    <3>1. now' \in 1 .. MaxTime
      BY <1>4 DEF Loop!EndSession, Loop!Later
    <3>2. (dialled = (pc # "wake"))'
      BY <1>4 DEF Loop!EndSession, Loop!Closed
    <3> QED
      BY <1>4, <2>1, <3>1, <3>2 DEF Loop!EndSession, Loop!Closed
<1>5. CASE Loop!Tick
  BY <1>5 DEF Loop!Tick
<1>6. CASE UNCHANGED Loop!vars
  BY <1>6 DEF Loop!vars
<1> QED
  BY <1>1, <1>2, <1>3, <1>4, <1>5, <1>6 DEF Loop!Next

LEMMA LinkStep ==
  ASSUME MaxTime \in Nat \ {0} PROVE LinkInv /\ [Loop!Next]_Loop!vars => LinkInv'
<1> SUFFICES ASSUME LinkInv, [Loop!Next]_Loop!vars PROVE LinkInv'
  OBVIOUS
<1>1. Loop!TypeOK'
  BY LinkTypeStep
<1>2. /\ now \in Nat /\ lastConnected \in Nat /\ openedAt \in Nat
      /\ now' \in Nat
      /\ \A s \in sessions : s[2] \in Nat
  BY <1>1 DEF LinkInv, Loop!TypeOK, Loop!Times
<1>3. (lastConnected <= now /\ openedAt <= now)'
  <2>1. now <= now'
    BY <1>2 DEF Loop!Next, Loop!BeginSession, Loop!DialFails, Loop!DialSucceeds, Loop!SessionEnds, Loop!EndSession,
                Loop!Later, Loop!Tick, Loop!vars
  <2>2. /\ lastConnected' \in {lastConnected, now}
        /\ openedAt' \in {openedAt, now, 0}
    BY DEF Loop!Next, Loop!BeginSession, Loop!DialFails, Loop!DialSucceeds, Loop!SessionEnds, Loop!EndSession,
           Loop!Closed, Loop!Tick, Loop!vars
  <2> QED
    BY <1>2, <2>1, <2>2 DEF LinkInv
<1>4. (\A s \in sessions : s[2] <= IF pc = "closing" THEN now ELSE lastConnected)'
  <2>1. CASE Loop!SessionEnds
    \* The newest session ends now; the others were bounded by lastConnected.
    BY <1>2, <2>1 DEF Loop!SessionEnds, LinkInv
  <2>2. CASE Loop!EndSession
    BY <1>2, <2>2 DEF Loop!EndSession, Loop!Closed, LinkInv
  <2>3. CASE Loop!DialFails
    BY <1>2, <2>3 DEF Loop!DialFails, LinkInv
  <2>4. CASE Loop!BeginSession \/ Loop!DialSucceeds \/ Loop!Tick \/ UNCHANGED Loop!vars
    BY <1>2, <2>4 DEF Loop!BeginSession, Loop!DialSucceeds, Loop!Tick, Loop!vars, LinkInv
  <2> QED
    BY <2>1, <2>2, <2>3, <2>4 DEF Loop!Next
<1>5. (pc \in {"dial", "live"} =>
         gap = Loop!NoGap \/ (gap.from = lastConnected /\ gap.from <= gap.to))'
  <2>1. CASE Loop!BeginSession
    BY <1>2, <2>1 DEF Loop!BeginSession, Loop!Gap, LinkInv
  <2>2. CASE Loop!DialFails \/ Loop!SessionEnds \/ Loop!EndSession
    BY <2>2 DEF Loop!DialFails, Loop!SessionEnds, Loop!EndSession
  <2>3. CASE Loop!DialSucceeds \/ Loop!Tick \/ UNCHANGED Loop!vars
    BY <2>3 DEF Loop!DialSucceeds, Loop!Tick, Loop!vars, LinkInv
  <2> QED
    BY <2>1, <2>2, <2>3 DEF Loop!Next
<1> QED
  BY <1>1, <1>3, <1>4, <1>5 DEF LinkInv

(* hubLoop, Opened and Closed keep the link's fields in step with where    *)
(* the loop is, however long the machine stays up.                         *)
THEOREM LinkTypes ==
  ASSUME MaxTime \in Nat \ {0} PROVE Loop!Spec => []Loop!TypeOK
<1>1. LinkInv => Loop!TypeOK
  BY DEF LinkInv
<1> QED
  BY LinkInit, LinkStep, <1>1, PTL DEF Loop!Spec

(* However many dials fail and sessions are lost part-way, the gap that    *)
(* HubLink.Gap hands to Session lies after every session that was live.    *)
THEOREM GapIsNeverOverLiveTime ==
  ASSUME MaxTime \in Nat \ {0} PROVE Loop!Spec => []Loop!GapNeverCoversLiveTime
<1>1. LinkInv => Loop!GapNeverCoversLiveTime
  BY DEF LinkInv, Loop!GapNeverCoversLiveTime
<1> QED
  BY LinkInit, LinkStep, <1>1, PTL DEF Loop!Spec
=============================================================================
