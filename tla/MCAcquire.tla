----------------------------- MODULE MCAcquire -----------------------------
(* Acquisition for TLC: one acquirer with two collections, or two that     *)
(* share one.                                                              *)
EXTENDS Acquire

CONSTANTS a1, a2, c1, c2, host, empty, x, d1, d2, i1, null

Solo == {a1}
Pair == {a1, a2}
OneCollection == {c1}
TwoCollections == {c1, c2}
HostOnly == {host}
OneContent == {empty}
TwoContents == {empty, x}
TwoHashes == {0, 1}
HashTwo == [v \in TwoContents |-> IF v = empty THEN 0 ELSE 1]
HashOne == [v \in OneContent |-> 0]
OneDecl == {d1}
TwoDecls == {d1, d2}
OneBoot == {1}
NoSkew == {0}
TwoSkews == {0, 1}
OneId == {i1}

SoloNames == [a \in Solo |-> TwoCollections]
SharedNames == [a \in Pair |-> OneCollection]
HostScopes == [a \in Acquirers |-> host]
=============================================================================
