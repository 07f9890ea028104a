---------------------------- MODULE MCHubSession ----------------------------
(* One host with two collections, for TLC. *)
EXTENDS HubSession

CONSTANTS c1, c2, host, empty, x, y, d1, d2, null

TwoCollections == {c1, c2}
HostOnly == {host}
TwoContents == {empty, x}
ThreeContents == {empty, x, y}
Count == [v \in Contents |-> IF v = empty THEN 0 ELSE 1]
Hash == [v \in Contents |-> v]
TwoDecls == {d1, d2}
OneBoot == {1}
NoSkew == {0}

\* One collection is read twice, filled, emptied, declined and rebuilt while
\* the other is read at most once and found empty: it makes a session a round
\* of several collections, and what it says adds no case of its own.
SecondIsQuiet ==
  /\ issuedGen[c2] <= 1
  /\ running[c2] = d1
  /\ objects[c2][host] = empty
  /\ decline[c2] = "none"
=============================================================================
