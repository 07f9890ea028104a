------------------------------ MODULE MCRecord ------------------------------
(* Change tracking for TLC: one object with a state fact and a counter. *)
EXTENDS Record

CONSTANTS k1, o1, state, count, d1, d2, null

OneKey == {k1}
Reading(v, n) == [id \in {o1} |-> [f \in {state, count} |-> IF f = state THEN v ELSE n]]
TwoReadings == {Reading(0, 0), Reading(1, 1)}
ObjectComesAndGoes == TwoReadings \cup {NoObjects}
OneDecl == {d1}
TwoDecls == {d1, d2}
CountIsMeasure == [d \in {d1, d2} |-> {count}]
\* the second build declares the state fact a gauge too
BothMeasuresLater == [d \in {d1, d2} |-> IF d = d1 THEN {count} ELSE {state, count}]
=============================================================================
