-------------------------- MODULE WireStreamProofs --------------------------
(***************************************************************************)
(* What ParseBatch accepts, for every request, every pool of records and   *)
(* every length of stream: exactly the streams the contract describes      *)
(* (ValidStream), and what survives a lossy transport changes no answer.   *)
(*                                                                         *)
(* The argument: an unviolated batch Agrees with the records read into it, *)
(* collection by collection (AgreesOn), and this is kept by every record   *)
(* the parser takes in (ReceiveAgrees).  A record of a valid stream is     *)
(* always taken in (ValidIsTakenIn), so a refusal proves the stream is not *)
(* valid; and at the end of an agreeing stream the whole-batch check       *)
(* passes exactly when the stream is valid (FinishAgrees).                 *)
(***************************************************************************)
EXTENDS WireStream, FiniteSetTheorems, SequenceTheorems, TLAPS

(***************************************************************************)
(* Induction over the length of a stream rests on the least-number         *)
(* principle, in the form the well-foundedness of Nat gives it.            *)
(***************************************************************************)

\* The order of the naturals, as a relation of the well-foundedness lemmas.
LEMMA LessIsWellFounded ==
  \E R : IsWellFoundedOn(R, Nat) /\ \A m, n \in Nat : m < n => <<m, n>> \in R
<1> DEFINE R == OpToRel(<, Nat)
<1>1. IsWellFoundedOn(R, Nat)
  BY NatLessThanWellFounded
<1>2. \A m, n \in Nat : m < n => <<m, n>> \in R
  BY DEF OpToRel
<1> QED
  BY <1>1, <1>2

\* What induction over the records of a stream becomes: the first one.
LEMMA LeastElement ==
  ASSUME NEW S \in SUBSET Nat, S # {}
  PROVE  \E m \in S : \A k \in S : m <= k
<1>1. PICK R : IsWellFoundedOn(R, Nat) /\ \A m, n \in Nat : m < n => <<m, n>> \in R
  BY LessIsWellFounded
<1>2. IsWellFoundedOn(R, Nat) /\ S \subseteq Nat
  BY <1>1
<1>3. PICK m \in S : \A k \in S : ~ (<<k, m>> \in R)
  BY <1>2, WFMin, Zenon
<1>4. ASSUME NEW k \in S PROVE m <= k
  <2>1. k \in Nat /\ m \in Nat
    OBVIOUS
  <2>2. ~ (k < m)
    BY <2>1, <1>1, <1>3, Zenon
  <2> QED
    BY <2>1, <2>2
<1> QED
  BY <1>4

-----------------------------------------------------------------------------
(* Lists of checks.                                                        *)

IsList(checks) == \E S : checks \in Seq(S)
Passes(checks) == \A i \in DOMAIN checks : checks[i] = ""

(* First says "" exactly when every check of the list does.                *)
LEMMA FirstPasses ==
  ASSUME NEW checks, IsList(checks) PROVE First(checks) = "" <=> Passes(checks)
<1> DEFINE failed == {i \in DOMAIN checks : checks[i] # ""}
           m == CHOOSE i \in failed : \A j \in failed : i <= j
<1>1. DOMAIN checks \subseteq Nat
  BY DEF IsList
<1>2. First(checks) = IF failed = {} THEN "" ELSE checks[m]
  BY Zenon DEF First
<1>3. CASE failed = {}
  <2>1. First(checks) = ""
    BY <1>2, <1>3, Zenon
  <2>2. Passes(checks)
    BY <1>3, Zenon DEF Passes
  <2> QED
    BY <2>1, <2>2
<1>4. CASE failed # {}
  <2>1. failed \in SUBSET Nat
    BY <1>1, Zenon
  <2>2. \E i \in failed : \A j \in failed : i <= j
    BY <2>1, <1>4, LeastElement, Zenon
  <2>3. m \in failed
    BY <2>2, Zenon
  <2>4. First(checks) = checks[m] /\ m \in DOMAIN checks /\ checks[m] # ""
    BY <1>2, <1>4, <2>3, Zenon
  <2> HIDE DEF m, failed
  <2> QED
    BY <2>4, Zenon DEF Passes
<1> QED
  BY <1>3, <1>4

\* Two lists of checks pass together when each of them does.
LEMMA ConcatPasses ==
  ASSUME NEW a, NEW b, IsList(a), IsList(b)
  PROVE  IsList(a \o b) /\ (Passes(a \o b) <=> Passes(a) /\ Passes(b))
<1>1. PICK S : a \in Seq(S)
  BY DEF IsList
<1>2. PICK T : b \in Seq(T)
  BY DEF IsList
<1> DEFINE U == S \cup T
<1>3. a \in Seq(U) /\ b \in Seq(U)
  <2>1. S \subseteq U /\ T \subseteq U
    OBVIOUS
  <2> QED BY <1>1, <1>2, <2>1, SeqMonotonic, Zenon
<1> HIDE DEF U
<1>4. /\ a \o b \in Seq(U) /\ Len(a) \in Nat /\ Len(b) \in Nat
      /\ DOMAIN a = 1..Len(a) /\ DOMAIN b = 1..Len(b)
      /\ DOMAIN (a \o b) = 1..(Len(a) + Len(b))
  BY <1>3
<1>5. \A i \in 1..(Len(a) + Len(b)) :
        (a \o b)[i] = IF i <= Len(a) THEN a[i] ELSE b[i - Len(a)]
  BY <1>3
<1>6. ASSUME Passes(a), Passes(b) PROVE Passes(a \o b)
  <2> SUFFICES ASSUME NEW i \in 1..(Len(a) + Len(b)) PROVE (a \o b)[i] = ""
    BY <1>4, Zenon DEF Passes
  <2>1. CASE i <= Len(a)
    <3>1. i \in DOMAIN a
      BY <1>4, <2>1
    <3> QED
      BY <1>5, <1>6, <2>1, <3>1, Zenon DEF Passes
  <2>2. CASE ~(i <= Len(a))
    <3>1. i - Len(a) \in DOMAIN b
      BY <1>4, <2>2
    <3> QED
      BY <1>5, <1>6, <2>2, <3>1, Zenon DEF Passes
  <2> QED
    BY <2>1, <2>2
<1>7. ASSUME Passes(a \o b) PROVE Passes(a)
  <2> SUFFICES ASSUME NEW i \in 1..Len(a) PROVE a[i] = ""
    BY <1>4, Zenon DEF Passes
  <2>1. i \in 1..(Len(a) + Len(b)) /\ i <= Len(a)
    BY <1>4
  <2> QED
    BY <1>4, <1>5, <1>7, <2>1, Zenon DEF Passes
<1>8. ASSUME Passes(a \o b) PROVE Passes(b)
  <2> SUFFICES ASSUME NEW i \in 1..Len(b) PROVE b[i] = ""
    BY <1>4, Zenon DEF Passes
  <2> DEFINE k == i + Len(a)
  <2>1. /\ k \in 1..(Len(a) + Len(b)) /\ ~(k <= Len(a)) /\ k - Len(a) = i
    BY <1>4
  <2> HIDE DEF k
  <2> QED
    BY <1>4, <1>5, <1>8, <2>1, Zenon DEF Passes
<1> QED
  BY <1>4, <1>6, <1>7, <1>8, Zenon DEF IsList

\* A written list of checks passes when each check does.
LEMMA Lists ==
  ASSUME NEW p, NEW q, NEW r, NEW s
  PROVE  /\ IsList(<<p>>) /\ (Passes(<<p>>) <=> p = "")
         /\ IsList(<<p, q>>) /\ (Passes(<<p, q>>) <=> p = "" /\ q = "")
         /\ IsList(<<p, q, r>>) /\ (Passes(<<p, q, r>>) <=> p = "" /\ q = "" /\ r = "")
         /\ IsList(<<p, q, r, s>>)
         /\ Passes(<<p, q, r, s>>) <=> p = "" /\ q = "" /\ r = "" /\ s = ""
<1>1. <<p>> \in Seq({p}) /\ <<p, q>> \in Seq({p, q}) /\ <<p, q, r>> \in Seq({p, q, r})
      /\ <<p, q, r, s>> \in Seq({p, q, r, s})
  OBVIOUS
<1>2. Passes(<<p>>) <=> p = ""
  <2>1. DOMAIN <<p>> = {1} /\ <<p>>[1] = p
    OBVIOUS
  <2> QED
    BY <2>1, Zenon DEF Passes
<1>3. Passes(<<p, q>>) <=> p = "" /\ q = ""
  <2>1. DOMAIN <<p, q>> = {1, 2} /\ <<p, q>>[1] = p /\ <<p, q>>[2] = q
    OBVIOUS
  <2> QED
    BY <2>1, Zenon DEF Passes
<1>5. Passes(<<p, q, r>>) <=> p = "" /\ q = "" /\ r = ""
  <2>1. /\ DOMAIN <<p, q, r>> = {1, 2, 3} /\ <<p, q, r>>[1] = p
        /\ <<p, q, r>>[2] = q /\ <<p, q, r>>[3] = r
    OBVIOUS
  <2> QED
    BY <2>1, Zenon DEF Passes
<1>4. Passes(<<p, q, r, s>>) <=> p = "" /\ q = "" /\ r = "" /\ s = ""
  <2>1. /\ DOMAIN <<p, q, r, s>> = {1, 2, 3, 4}
        /\ <<p, q, r, s>>[1] = p /\ <<p, q, r, s>>[2] = q
        /\ <<p, q, r, s>>[3] = r /\ <<p, q, r, s>>[4] = s
    OBVIOUS
  <2> QED
    BY <2>1, Zenon DEF Passes
<1> QED
  BY <1>1, <1>2, <1>3, <1>4, <1>5, Zenon DEF IsList

(* What a record that passes its own rules is known to say.                *)
LEMMA ThreeLists ==
  ASSUME NEW a, NEW b, NEW c, IsList(a), IsList(b), IsList(c)
  PROVE  /\ IsList(a \o b \o c)
         /\ Passes(a \o b \o c) <=> Passes(a) /\ Passes(b) /\ Passes(c)
<1> DEFINE ab == a \o b
<1>1. IsList(ab) /\ (Passes(ab) <=> Passes(a) /\ Passes(b))
  BY ConcatPasses
<1> HIDE DEF ab
<1>2. IsList(ab \o c) /\ (Passes(ab \o c) <=> Passes(ab) /\ Passes(c))
  BY <1>1, ConcatPasses
<1> QED
  BY <1>1, <1>2 DEF ab

\* One check alone.
LEMMA OneCheck == ASSUME NEW p PROVE IsList(<<p>>) /\ (Passes(<<p>>) <=> p = "")
BY Lists
\* Two checks.
LEMMA TwoChecks ==
  ASSUME NEW p, NEW q PROVE IsList(<<p, q>>) /\ (Passes(<<p, q>>) <=> p = "" /\ q = "")
BY Lists

\* fields, identity, count and checkMeasured are lists of checks; the first
\* three conclude what the rules behind them go on to use.
LEMMA FieldsIsList == ASSUME NEW rec, NEW r, NEW o PROVE IsList(fields(rec, r, o))
BY TwoChecks DEF fields
LEMMA IdentityIsList == ASSUME NEW rec, NEW m PROVE IsList(identity(rec, m))
BY OneCheck DEF identity
LEMMA CountIsList ==
  ASSUME NEW rec, NEW m
  PROVE  IsList(count(rec, m)) /\ (Passes(count(rec, m)) => ~ (rec[m] < 0))
<1> DEFINE p == When(~Typed(rec, m, {"int"}) \/ rec[m] < 0, "bad-count")
<1>1. p = "" => ~(rec[m] < 0)
  BY DEF When
<1>2. count(rec, m) = <<p>>
  BY DEF count
<1> HIDE DEF p
<1> QED
  BY <1>1, <1>2, OneCheck

LEMMA MeasuredIsList ==
  ASSUME NEW rec, NEW m, NEW reason PROVE IsList(checkMeasured(rec, m, reason))
BY OneCheck DEF checkMeasured

\* knownCollection places the record in a collection of this request.
LEMMA KnownCollection ==
  ASSUME NEW rec
  PROVE  /\ IsList(knownCollection(rec, Issued))
         /\ Passes(knownCollection(rec, Issued)) => rec.collection \in DOMAIN Issued
<1> DEFINE one == identity(rec, "collection")
           p == When(rec.collection = Odd, "bad-collection-name")
           q == When(rec.collection \notin DOMAIN Issued, "unissued-collection")
<1>1. IsList(one)
  BY IdentityIsList
<1>2. q = "" => rec.collection \in DOMAIN Issued
  BY DEF When
<1>3. knownCollection(rec, Issued) = one \o <<p, q>>
  BY DEF knownCollection
<1> HIDE DEF one, p, q
<1>4. IsList(<<p, q>>) /\ (Passes(<<p, q>>) <=> p = "" /\ q = "")
  BY TwoChecks
<1> QED
  BY <1>1, <1>2, <1>3, <1>4, ConcatPasses

-----------------------------------------------------------------------------
(* A record's own rules (the parsers), and what passing them concludes.    *)

\* The checks most parsers open with place the record in a collection.
LEMMA OpensWithCollection ==
  ASSUME NEW rec, NEW front, IsList(front)
  PROVE  /\ IsList(front \o knownCollection(rec, Issued))
         /\ Passes(front \o knownCollection(rec, Issued)) => rec.collection \in DOMAIN Issued
BY KnownCollection, ConcatPasses

\* Five checks, and eight.
LEMMA FiveChecks ==
  ASSUME NEW a, NEW b, NEW c, NEW d, NEW e PROVE IsList(<<a, b, c, d, e>>)
<1>1. <<a, b, c, d, e>> \in Seq({a, b, c, d, e})
  OBVIOUS
<1> QED
  BY <1>1 DEF IsList

LEMMA EightChecks ==
  ASSUME NEW a, NEW b, NEW c, NEW d, NEW e, NEW f, NEW g, NEW h
  PROVE  /\ IsList(<<a, b, c, d, e, f, g, h>>)
         /\ Passes(<<a, b, c, d, e, f, g, h>>) => h = ""
<1> DEFINE l == <<a, b, c, d, e, f, g, h>>
<1>1. l \in Seq({a, b, c, d, e, f, g, h}) /\ 8 \in DOMAIN l /\ l[8] = h
  OBVIOUS
<1>2. IsList(l)
  BY <1>1 DEF IsList
<1> HIDE DEF l
<1>3. Passes(l) => h = ""
  BY <1>1, Zenon DEF Passes
<1> QED
  BY <1>2, <1>3 DEF l

\* parseObject: a collection of this request, and a time above zero.
LEMMA SoundObject ==
  ASSUME NEW rec, parseObject(rec, Issued) = ""
  PROVE  rec.collection \in DOMAIN Issued /\ rec.at > 0
<1> DEFINE
     front == fields(rec, {"collection", "name", "facts", "at"},
                          {"type", "names", "absent", "evidence"})
     l == front \o knownCollection(rec, Issued)
     name == identity(rec, "name")
     c1 == When("type" \in DOMAIN rec.has /\ (~Typed(rec, "type", {"str"}) \/ rec.type = Odd),
                "bad-type")
     c2 == When(~Typed(rec, "facts", {"obj"}), "bad-facts")
     c3 == When(findNull(rec.facts), "null-fact")
     c4 == When("names" \in DOMAIN rec.has /\ checkNames(rec.names), "bad-names")
     c5 == When("absent" \in DOMAIN rec.has /\ ~(rec.absent \subseteq {"str"}), "bad-absent")
     c6 == When("evidence" \in DOMAIN rec.has /\ checkEvidence(rec.evidence), "bad-evidence")
     c7 == When(~Typed(rec, "at", {"int", "float"}), "bad-at")
     c8 == When(~(rec.at > 0) \/ rec.at > AtMax, "at-out-of-range")
     rest == <<c1, c2, c3, c4, c5, c6, c7, c8>>
<1>1. IsList(l) /\ (Passes(l) => rec.collection \in DOMAIN Issued)
  BY FieldsIsList, OpensWithCollection
<1>2. IsList(name)
  BY IdentityIsList
<1>3. c8 = "" => rec.at > 0
  BY DEF When
<1>4. First(l \o name \o rest) = ""
  BY DEF parseObject
<1> HIDE DEF l, name, c1, c2, c3, c4, c5, c6, c7, c8
<1>5. IsList(rest) /\ (Passes(rest) => c8 = "")
  BY EightChecks
<1> HIDE DEF rest
<1>6. IsList(l \o name \o rest) /\ (Passes(l \o name \o rest) => Passes(l) /\ Passes(rest))
  BY <1>1, <1>2, <1>5, ThreeLists
<1> QED
  BY <1>1, <1>3, <1>4, <1>5, <1>6, FirstPasses

\* parseRelation: a collection of this request.
LEMMA SoundRelation ==
  ASSUME NEW rec, parseRelation(rec, Issued) = ""
  PROVE  rec.collection \in DOMAIN Issued
<1> DEFINE
     l == fields(rec, {"collection", "name", "type", "vantage", "target"}, {"facts"})
             \o knownCollection(rec, Issued)
     n == identity(rec, "name")
     t == identity(rec, "type")
     v == identity(rec, "vantage")
     c1 == When(~Typed(rec, "target", {"obj"}), "bad-target")
     c2 == When(~(DOMAIN rec.target \subseteq {"kind", "name"}), "bad-target")
     c3 == When(\E m \in {"kind", "name"} : m \notin DOMAIN rec.target \/ rec.target[m] # "str",
                "bad-identity")
     c4 == When("facts" \in DOMAIN rec.has /\ ~Typed(rec, "facts", {"obj"}), "bad-facts")
     c5 == When("facts" \in DOMAIN rec.has /\ findNull(rec.facts), "null-fact")
     rest == <<c1, c2, c3, c4, c5>>
<1>1. IsList(l) /\ (Passes(l) => rec.collection \in DOMAIN Issued)
  BY FieldsIsList, OpensWithCollection
<1>2. IsList(n) /\ IsList(t) /\ IsList(v)
  BY IdentityIsList
<1>3. First(l \o n \o t \o v \o rest) = ""
  BY DEF parseRelation
<1> HIDE DEF l, n, t, v, c1, c2, c3, c4, c5
<1>4. IsList(rest)
  BY FiveChecks
<1> HIDE DEF rest
<1> DEFINE l3 == l \o n \o t
<1>5. IsList(l3) /\ (Passes(l3) => Passes(l))
  BY <1>1, <1>2, ThreeLists
<1> HIDE DEF l3
<1>6. IsList(l3 \o v \o rest) /\ (Passes(l3 \o v \o rest) => Passes(l3))
  BY <1>2, <1>4, <1>5, ThreeLists
<1>7. First(l3 \o v \o rest) = ""
  BY <1>3 DEF l3
<1> QED
  BY <1>1, <1>5, <1>6, <1>7, FirstPasses

\* parseUnobservable: a collection of this request.
LEMMA SoundUnobservable ==
  ASSUME NEW rec, parseUnobservable(rec, Issued) = ""
  PROVE  rec.collection \in DOMAIN Issued
<1> DEFINE
     l == fields(rec, {"collection", "name", "fact", "reason"}, {"detail"})
            \o knownCollection(rec, Issued)
     n == identity(rec, "name")
     f == identity(rec, "fact")
     p == When(~Typed(rec, "reason", {"str"}) \/ rec.reason \notin Reasons \ {"absent"},
               "bad-unobservable-reason")
     q == When("detail" \in DOMAIN rec.has /\ ~Typed(rec, "detail", {"str", "empty"}), "bad-detail")
     rest == <<p, q>>
<1>1. IsList(l) /\ (Passes(l) => rec.collection \in DOMAIN Issued)
  BY FieldsIsList, OpensWithCollection
<1>2. IsList(n) /\ IsList(f)
  BY IdentityIsList
<1>3. First(l \o n \o f \o rest) = ""
  BY DEF parseUnobservable
<1> HIDE DEF l, n, f, p, q
<1>4. IsList(rest)
  BY TwoChecks
<1> HIDE DEF rest
<1> DEFINE l3 == l \o n \o f
<1>5. IsList(l3) /\ (Passes(l3) => Passes(l))
  BY <1>1, <1>2, ThreeLists
<1> HIDE DEF l3
<1>6. IsList(l3 \o rest) /\ (Passes(l3 \o rest) => Passes(l3))
  BY <1>4, <1>5, ConcatPasses
<1>7. First(l3 \o rest) = ""
  BY <1>3 DEF l3
<1> QED
  BY <1>1, <1>5, <1>6, <1>7, FirstPasses

\* parseDecline: a collection of this request, and one of the four reasons.
LEMMA SoundDecline ==
  ASSUME NEW rec, parseDecline(rec, Issued) = ""
  PROVE  rec.collection \in DOMAIN Issued /\ rec.reason \in Reasons
<1> DEFINE
     l == fields(rec, {"collection", "reason"}, {"detail"}) \o knownCollection(rec, Issued)
     p == When(~Typed(rec, "reason", {"str"}) \/ rec.reason \notin Reasons, "bad-decline-reason")
     q == When("detail" \in DOMAIN rec.has /\ ~Typed(rec, "detail", {"str", "empty"}), "bad-detail")
     rest == <<p, q>>
<1>1. IsList(l) /\ (Passes(l) => rec.collection \in DOMAIN Issued)
  BY FieldsIsList, OpensWithCollection
<1>2. First(l \o rest) = ""
  BY DEF parseDecline
<1>3. p = "" => rec.reason \in Reasons
  BY DEF When
<1> HIDE DEF l, p, q
<1>4. IsList(rest) /\ (Passes(rest) => p = "")
  BY TwoChecks
<1> HIDE DEF rest
<1>5. IsList(l \o rest) /\ (Passes(l \o rest) => Passes(l) /\ Passes(rest))
  BY <1>1, <1>4, ConcatPasses
<1> QED
  BY <1>1, <1>2, <1>3, <1>4, <1>5, FirstPasses

\* parseCommit: a collection of this request, and no count below zero.
LEMMA SoundCommit ==
  ASSUME NEW rec, parseCommit(rec, Issued) = ""
  PROVE  /\ rec.collection \in DOMAIN Issued
         /\ ~(rec.objects < 0) /\ ~(rec.assertions < 0) /\ ~(rec.unobservable < 0)
<1> DEFINE
     l == fields(rec, {"collection", "generation", "objects", "assertions", "unobservable"},
                      {"cpu_ms"}) \o knownCollection(rec, Issued)
     g == count(rec, "generation")
     p == When(rec.collection \in DOMAIN Issued /\ rec.generation # Issued[rec.collection],
               "generation-echo-mismatch")
     echo == <<p>>
     o == count(rec, "objects")
     a == count(rec, "assertions")
     u == count(rec, "unobservable")
     m == checkMeasured(rec, "cpu_ms", "bad-cpu-ms")
<1>1. IsList(l) /\ (Passes(l) => rec.collection \in DOMAIN Issued)
  BY FieldsIsList, OpensWithCollection
<1>2. IsList(g) /\ IsList(m)
  BY CountIsList, MeasuredIsList
<1>3. IsList(o) /\ (Passes(o) => ~(rec.objects < 0))
  BY CountIsList
<1>4. IsList(a) /\ (Passes(a) => ~(rec.assertions < 0))
  BY CountIsList
<1>5. IsList(u) /\ (Passes(u) => ~(rec.unobservable < 0))
  BY CountIsList
<1>6. First(l \o g \o echo \o o \o a \o u \o m) = ""
  BY DEF parseCommit
<1> HIDE DEF l, g, p, o, a, u, m
<1>7. IsList(echo)
  BY OneCheck
<1> HIDE DEF echo
<1> DEFINE l3 == l \o g \o echo
           l5 == l3 \o o \o a
<1>8. IsList(l3) /\ (Passes(l3) => Passes(l))
  BY <1>1, <1>2, <1>7, ThreeLists
<1> HIDE DEF l3
<1>9. IsList(l5) /\ (Passes(l5) => Passes(l3) /\ Passes(o) /\ Passes(a))
  BY <1>3, <1>4, <1>8, ThreeLists
<1>10. First(l5 \o u \o m) = ""
  BY <1>6 DEF l3, l5
<1> HIDE DEF l5
<1>11. IsList(l5 \o u \o m) /\ (Passes(l5 \o u \o m) => Passes(l5) /\ Passes(u))
  BY <1>2, <1>5, <1>9, ThreeLists
<1>12. Passes(l5 \o u \o m)
  BY <1>10, <1>11, FirstPasses
<1> QED
  BY <1>1, <1>3, <1>4, <1>5, <1>8, <1>9, <1>11, <1>12, Zenon

-----------------------------------------------------------------------------
(* A record's place: what ParseBatch's loop refuses it for.                 *)

\* open lets a record in exactly before its collection's commit.
LEMMA OpenPasses ==
  ASSUME NEW b, NEW c, c \in DOMAIN b.collections
  PROVE  IsList(open(b, c)) /\ (Passes(open(b, c)) <=> b.collections[c].commit = NoCommit)
<1> DEFINE p == When(c \in DOMAIN b.collections /\ b.collections[c].commit # NoCommit,
                     "record-after-commit")
<1>1. p = "" <=> b.collections[c].commit = NoCommit
  BY DEF When
<1>2. open(b, c) = <<p>>
  BY DEF open
<1> HIDE DEF p
<1> QED
  BY <1>1, <1>2, OneCheck

\* openEmitting, exactly before its commit and its decline.
LEMMA OpenEmittingPasses ==
  ASSUME NEW b, NEW c, c \in DOMAIN b.collections
  PROVE  /\ IsList(openEmitting(b, c))
         /\ Passes(openEmitting(b, c)) <=> /\ b.collections[c].commit = NoCommit
                                           /\ b.collections[c].decline = None
<1> DEFINE o == open(b, c)
           p == When(c \in DOMAIN b.collections /\ b.collections[c].decline # None,
                     "record-after-decline")
<1>1. p = "" <=> b.collections[c].decline = None
  BY DEF When
<1>2. openEmitting(b, c) = o \o <<p>>
  BY DEF openEmitting
<1>3. IsList(o) /\ (Passes(o) <=> b.collections[c].commit = NoCommit)
  BY OpenPasses
<1> HIDE DEF p, o
<1>4. IsList(<<p>>) /\ (Passes(<<p>>) <=> p = "")
  BY OneCheck
<1> QED
  BY <1>1, <1>2, <1>3, <1>4, ConcatPasses

\* What each kind of record is refused for: its own rules, and its place.
LEMMA BeginRejection ==
  ASSUME NEW b, NEW rec, rec.record = "begin"
  PROVE  Rejection(b, rec, Issued) = "" <=> ~b.seenBegin /\ parseBegin(rec, Issued) = ""
<1> DEFINE own == parseBegin(rec, Issued)
           p == When(b.seenBegin, "duplicate-begin")
<1>1. Rejection(b, rec, Issued) = First(<<p, own>>)
  BY DEF Rejection
<1>2. p = "" <=> ~b.seenBegin
  BY DEF When
<1> HIDE DEF own, p
<1>3. IsList(<<p, own>>) /\ (Passes(<<p, own>>) <=> p = "" /\ own = "")
  BY TwoChecks
<1>4. First(<<p, own>>) = "" <=> Passes(<<p, own>>)
  BY <1>3, FirstPasses
<1> QED
  BY <1>1, <1>2, <1>3, <1>4, Zenon DEF own

LEMMA ObjectRejection ==
  ASSUME NEW b, NEW rec, rec.record = "object", rec.collection \in DOMAIN b.collections
  PROVE  LET st == b.collections[rec.collection]
         IN Rejection(b, rec, Issued) = "" <=>
              /\ parseObject(rec, Issued) = ""
              /\ st.commit = NoCommit /\ st.decline = None
              /\ ~(rec.at < st.lastAt)
              /\ \A i \in DOMAIN st.objects : st.objects[i] # rec.name
<1> DEFINE c == rec.collection
           st == b.collections[c]
           own == parseObject(rec, Issued)
           o == openEmitting(b, c)
           p == When(rec.at < st.lastAt, "at-decreasing")
           q == When(\E i \in DOMAIN st.objects : st.objects[i] = rec.name,
                     "duplicate-object-name")
<1>1. Rejection(b, rec, Issued) = First(<<own>> \o o \o <<p, q>>)
  BY DEF Rejection, Said
<1>2. p = "" <=> ~(rec.at < st.lastAt)
  BY DEF When
<1>3. q = "" <=> \A i \in DOMAIN st.objects : st.objects[i] # rec.name
  BY Zenon DEF When
<1>4. IsList(o) /\ (Passes(o) <=> st.commit = NoCommit /\ st.decline = None)
  BY OpenEmittingPasses
<1> HIDE DEF own, o, p, q
<1>5. IsList(<<own>>) /\ (Passes(<<own>>) <=> own = "")
  BY OneCheck
<1>6. IsList(<<p, q>>) /\ (Passes(<<p, q>>) <=> p = "" /\ q = "")
  BY TwoChecks
<1> DEFINE l == <<own>> \o o \o <<p, q>>
<1>7. IsList(l) /\ (Passes(l) <=> Passes(<<own>>) /\ Passes(o) /\ Passes(<<p, q>>))
  BY <1>4, <1>5, <1>6, ThreeLists
<1>8. Rejection(b, rec, Issued) = First(l)
  BY <1>1
<1> HIDE DEF l
<1>9. First(l) = "" <=> Passes(l)
  BY <1>7, FirstPasses
<1> QED
  BY <1>2, <1>3, <1>4, <1>5, <1>6, <1>7, <1>8, <1>9, Zenon DEF own

LEMMA AsideRejection ==
  ASSUME NEW b, NEW rec, rec.collection \in DOMAIN b.collections,
         rec.record \in {"relation_assertion", "unobservable"}
  PROVE  LET st == b.collections[rec.collection]
         IN Rejection(b, rec, Issued) = "" <=>
              /\ OwnRules(rec) = ""
              /\ st.commit = NoCommit /\ st.decline = None
<1> DEFINE c == rec.collection
           st == b.collections[c]
           own == OwnRules(rec)
           o == openEmitting(b, c)
           l == <<own>> \o o
<1>1. Rejection(b, rec, Issued) = First(l)
  BY DEF Rejection, OwnRules
<1>2. IsList(o) /\ (Passes(o) <=> st.commit = NoCommit /\ st.decline = None)
  BY OpenEmittingPasses
<1> HIDE DEF own, o
<1>3. IsList(<<own>>) /\ (Passes(<<own>>) <=> own = "")
  BY OneCheck
<1>4. IsList(l) /\ (Passes(l) <=> Passes(<<own>>) /\ Passes(o))
  BY <1>2, <1>3, ConcatPasses
<1> HIDE DEF l
<1>5. First(l) = "" <=> Passes(l)
  BY <1>4, FirstPasses
<1> QED
  BY <1>1, <1>2, <1>3, <1>4, <1>5, Zenon DEF own

LEMMA DeclineRejection ==
  ASSUME NEW b, NEW rec, rec.record = "decline", rec.collection \in DOMAIN b.collections
  PROVE  LET st == b.collections[rec.collection]
         IN Rejection(b, rec, Issued) = "" <=>
              /\ parseDecline(rec, Issued) = ""
              /\ st.commit = NoCommit /\ st.decline = None
              /\ st.objects = <<>> /\ ~(st.assertions + st.unobservables > 0)
<1> DEFINE c == rec.collection
           st == b.collections[c]
           own == parseDecline(rec, Issued)
           o == open(b, c)
           p == When(st.decline # None, "duplicate-decline")
           q == When(st.objects # <<>> \/ st.assertions + st.unobservables > 0,
                     "decline-after-records")
<1>1. Rejection(b, rec, Issued) = First(<<own>> \o o \o <<p, q>>)
  BY DEF Rejection, Said
<1>2. p = "" <=> st.decline = None
  BY DEF When
<1>3. q = "" <=> st.objects = <<>> /\ ~(st.assertions + st.unobservables > 0)
  BY DEF When
<1>4. IsList(o) /\ (Passes(o) <=> st.commit = NoCommit)
  BY OpenPasses
<1> HIDE DEF own, o, p, q
<1>5. IsList(<<own>>) /\ (Passes(<<own>>) <=> own = "")
  BY OneCheck
<1>6. IsList(<<p, q>>) /\ (Passes(<<p, q>>) <=> p = "" /\ q = "")
  BY TwoChecks
<1> DEFINE l == <<own>> \o o \o <<p, q>>
<1>7. IsList(l) /\ (Passes(l) <=> Passes(<<own>>) /\ Passes(o) /\ Passes(<<p, q>>))
  BY <1>4, <1>5, <1>6, ThreeLists
<1>8. Rejection(b, rec, Issued) = First(l)
  BY <1>1
<1> HIDE DEF l
<1>9. First(l) = "" <=> Passes(l)
  BY <1>7, FirstPasses
<1> QED
  BY <1>2, <1>3, <1>4, <1>5, <1>6, <1>7, <1>8, <1>9, Zenon DEF own

LEMMA CommitRejection ==
  ASSUME NEW b, NEW rec, rec.record = "commit", rec.collection \in DOMAIN b.collections
  PROVE  Rejection(b, rec, Issued) = "" <=>
           /\ parseCommit(rec, Issued) = ""
           /\ b.collections[rec.collection].commit = NoCommit
<1> DEFINE c == rec.collection
           own == parseCommit(rec, Issued)
           o == open(b, c)
           l == <<own>> \o o
<1>1. Rejection(b, rec, Issued) = First(l)
  BY DEF Rejection
<1>2. IsList(o) /\ (Passes(o) <=> b.collections[c].commit = NoCommit)
  BY OpenPasses
<1> HIDE DEF own, o
<1>3. IsList(<<own>>) /\ (Passes(<<own>>) <=> own = "")
  BY OneCheck
<1>4. IsList(l) /\ (Passes(l) <=> Passes(<<own>>) /\ Passes(o))
  BY <1>2, <1>3, ConcatPasses
<1> HIDE DEF l
<1>5. First(l) = "" <=> Passes(l)
  BY <1>4, FirstPasses
<1> QED
  BY <1>1, <1>2, <1>3, <1>4, <1>5, Zenon DEF own

\* open and openEmitting are lists of checks, whatever the collection.
LEMMA OpenIsList ==
  ASSUME NEW b, NEW c PROVE IsList(open(b, c)) /\ IsList(openEmitting(b, c))
<1>1. IsList(open(b, c))
  BY OneCheck DEF open
<1> DEFINE p == When(c \in DOMAIN b.collections /\ b.collections[c].decline # None,
                     "record-after-decline")
           o == open(b, c)
<1>2. openEmitting(b, c) = o \o <<p>>
  BY DEF openEmitting
<1> HIDE DEF p, o
<1>3. IsList(<<p>>)
  BY OneCheck
<1> QED
  BY <1>1, <1>2, <1>3, ConcatPasses DEF o

\* Whatever its place, a record that is not refused passes its own rules.
LEMMA NotRefusedIsSound ==
  ASSUME NEW b, NEW rec, Rejection(b, rec, Issued) = ""
  PROVE  OwnRules(rec) = ""
<1> DEFINE own == OwnRules(rec)
           c == rec.collection
           st == Said(b, c)
<1>1. CASE rec.record = "begin"
  BY <1>1, BeginRejection DEF OwnRules
<1>2. ASSUME NEW o, NEW p, NEW q, IsList(o), First(<<own>> \o o \o <<p, q>>) = "" PROVE own = ""
  <2> HIDE DEF own
  <2>1. IsList(<<own>>) /\ (Passes(<<own>>) <=> own = "")
    BY OneCheck
  <2>2. IsList(<<p, q>>)
    BY TwoChecks
  <2> DEFINE a == <<own>>
             z == <<p, q>>
  <2> HIDE DEF a, z
  <2>3. IsList(a \o o \o z) /\ (Passes(a \o o \o z) => Passes(a))
    BY <1>2, <2>1, <2>2, ThreeLists DEF a, z
  <2>4. First(a \o o \o z) = ""
    BY <1>2 DEF a, z
  <2>5. Passes(a)
    BY <2>3, <2>4, FirstPasses
  <2> QED
    BY <2>1, <2>5 DEF a
<1>3. ASSUME NEW o, IsList(o), First(<<own>> \o o) = "" PROVE own = ""
  <2> HIDE DEF own
  <2>1. IsList(<<own>>) /\ (Passes(<<own>>) <=> own = "")
    BY OneCheck
  <2> DEFINE a == <<own>>
  <2> HIDE DEF a
  <2>2. IsList(a \o o) /\ (Passes(a \o o) => Passes(a))
    BY <1>3, <2>1, ConcatPasses DEF a
  <2>3. First(a \o o) = ""
    BY <1>3 DEF a
  <2>4. Passes(a)
    BY <2>2, <2>3, FirstPasses
  <2> QED
    BY <2>1, <2>4 DEF a
<1>4. IsList(open(b, c)) /\ IsList(openEmitting(b, c))
  BY OpenIsList
<1>5. CASE rec.record = "object"
  <2> DEFINE p == When(rec.at < st.lastAt, "at-decreasing")
             q == When(\E i \in DOMAIN st.objects : st.objects[i] = rec.name,
                       "duplicate-object-name")
  <2>1. First(<<own>> \o openEmitting(b, c) \o <<p, q>>) = ""
    BY <1>5 DEF Rejection, OwnRules
  <2> HIDE DEF p, q, own
  <2> QED
    BY <1>2, <1>4, <2>1 DEF own
<1>6. CASE rec.record = "relation_assertion" \/ rec.record = "unobservable"
  <2>1. First(<<own>> \o openEmitting(b, c)) = ""
    BY <1>6 DEF Rejection, OwnRules
  <2> QED
    BY <1>3, <1>4, <2>1
<1>7. CASE rec.record = "decline"
  <2> DEFINE p == When(st.decline # None, "duplicate-decline")
             q == When(st.objects # <<>> \/ st.assertions + st.unobservables > 0,
                       "decline-after-records")
  <2>1. First(<<own>> \o open(b, c) \o <<p, q>>) = ""
    BY <1>7 DEF Rejection, OwnRules
  <2> HIDE DEF p, q
  <2> QED
    BY <1>2, <1>4, <2>1
<1>8. CASE rec.record = "commit"
  <2>1. First(<<own>> \o open(b, c)) = ""
    BY <1>8 DEF Rejection, OwnRules
  <2> QED
    BY <1>3, <1>4, <2>1
<1>9. CASE rec.record = "end"
  BY <1>9 DEF Rejection, OwnRules
<1> HIDE DEF own
<1>10. CASE rec.record \notin {"begin", "object", "relation_assertion", "unobservable",
                              "decline", "commit", "end"}
  BY <1>10 DEF Rejection, OwnRules
<1> QED
  BY <1>1, <1>5, <1>6, <1>7, <1>8, <1>9, <1>10 DEF own

\* A record with no fault of its own is of a kind the loop knows.
LEMMA SoundKinds ==
  ASSUME NEW rec, OwnRules(rec) = ""
  PROVE  rec.record \in {"begin", "object", "relation_assertion", "unobservable",
                         "decline", "commit", "end"}
BY DEF OwnRules

-----------------------------------------------------------------------------
(* The whole-batch check.                                                  *)
LEMMA CheckPasses ==
  ASSUME NEW b
  PROVE  check(b) = "" <=>
           /\ b.end = b.begin
           /\ \A c \in DOMAIN b.collections :
                LET st == b.collections[c]
                IN /\ st.decline.reason = "absent" =>
                        st.commit = [objects |-> 0, assertions |-> 0, unobservable |-> 0]
                   /\ st.commit # NoCommit =>
                        /\ st.decline.reason \notin Reasons \ {"absent"}
                        /\ st.commit = [objects |-> Len(st.objects), assertions |-> st.assertions,
                                        unobservable |-> st.unobservables]
                   /\ st.objects # <<>> => b.wall > 0
<1> DEFINE
      D == DOMAIN b.collections
      Answered(c) == b.collections[c]
      Committed == {c \in D : Answered(c).commit # NoCommit}
      Zero == [objects |-> 0, assertions |-> 0, unobservable |-> 0]
      Counts(c) == [objects |-> Len(Answered(c).objects), assertions |-> Answered(c).assertions,
                    unobservable |-> Answered(c).unobservables]
      k1 == When(b.end # b.begin, "end-echo-mismatch")
      k2 == When(\E c \in D :
         Answered(c).decline.reason = "absent" /\ c \notin Committed, "absent-without-commit")
      k3 == When(\E c \in Committed : Answered(c).decline.reason = "absent" /\
         Answered(c).commit # Zero, "absent-with-objects")
      k4 == When(\E c \in Committed : Answered(c).decline.reason \in Reasons \ {"absent"},
       "decline-with-commit")
      k5 == When(\E c \in Committed : Answered(c).commit # Counts(c), "commit-count-mismatch")
      k6 == When((\E c \in D : Answered(c).objects # <<>>) /\ ~(b.wall > 0),
          "wall-ms-not-positive")
<1>1. check(b) = First(<<k1, k2, k3, k4, k5, k6>>)
  BY Zenon DEF check
<1>2. k1 = "" <=> b.end = b.begin
  BY DEF When
<1>3. k2 = "" <=> ~ \E c \in D : Answered(c).decline.reason = "absent" /\ c \notin Committed
  BY DEF When
<1>4. k3 = "" <=> ~ \E c \in Committed : Answered(c).decline.reason = "absent"
                                              /\ Answered(c).commit # Zero
  BY DEF When
<1>5. k4 = "" <=> ~ \E c \in Committed : Answered(c).decline.reason \in Reasons \ {"absent"}
  BY DEF When
<1>6. k5 = "" <=> ~ \E c \in Committed : Answered(c).commit # Counts(c)
  BY DEF When
<1>7. k6 = "" <=> ~ ((\E c \in D : Answered(c).objects # <<>>) /\ ~(b.wall > 0))
  BY DEF When
<1>8. NoCommit # Zero
  BY DEF NoCommit
<1> HIDE DEF k1, k2, k3, k4, k5, k6
<1>9. check(b) = "" <=> k1 = "" /\ k2 = "" /\ k3 = "" /\ k4 = "" /\ k5 = "" /\ k6 = ""
  <2> DEFINE l == <<k1, k2, k3, k4, k5, k6>>
  <2>1. /\ l \in Seq({k1, k2, k3, k4, k5, k6}) /\ DOMAIN l = {1, 2, 3, 4, 5, 6}
        /\ l[1] = k1 /\ l[2] = k2 /\ l[3] = k3 /\ l[4] = k4 /\ l[5] = k5 /\ l[6] = k6
    OBVIOUS
  <2>2. IsList(l)
    BY <2>1 DEF IsList
  <2>3. check(b) = First(l)
    BY <1>1
  <2> HIDE DEF l
  <2>4. Passes(l) <=> k1 = "" /\ k2 = "" /\ k3 = "" /\ k4 = "" /\ k5 = "" /\ k6 = ""
    BY <2>1, Zenon DEF Passes
  <2> QED
    BY <2>2, <2>3, <2>4, FirstPasses
<1> QED
  BY <1>2, <1>3, <1>4, <1>5, <1>6, <1>7, <1>8, <1>9, Zenon

\* ParseBatch's end: a record came, the last of them was end, check passes.
LEMMA FinishPasses ==
  ASSUME NEW b, NEW length, b.violation = "",
         b = [violation |-> b.violation, seenBegin |-> b.seenBegin, seenEnd |-> b.seenEnd,
              begin |-> b.begin, end |-> b.end, wall |-> b.wall, collections |-> b.collections]
  PROVE  LET f == Finish(b, length)
         IN /\ f.violation = "" <=> length # 0 /\ b.seenEnd /\ check(b) = ""
            /\ f.collections = b.collections
            /\ f.violation = "" => f = b
<1> DEFINE p == When(length = 0, "empty-stream")
           q == When(~b.seenEnd, "missing-end")
           r == check(b)
           v == First(<<p, q, r>>)
<1>1. Finish(b, length) = [b EXCEPT !.violation = v]
  BY DEF Finish, Void
<1>2. (p = "" <=> length # 0) /\ (q = "" <=> b.seenEnd)
  BY DEF When
<1> HIDE DEF p, q, r
<1>3. IsList(<<p, q, r>>) /\ (Passes(<<p, q, r>>) <=> p = "" /\ q = "" /\ r = "")
  BY Lists
<1>4. v = "" <=> p = "" /\ q = "" /\ r = ""
  BY <1>3, FirstPasses
<1> HIDE DEF v
<1>5. /\ Finish(b, length).violation = v
      /\ Finish(b, length).collections = b.collections
      /\ v = "" => Finish(b, length) = b
  BY <1>1
<1> QED
  BY <1>2, <1>4, <1>5, Zenon DEF r

-----------------------------------------------------------------------------
(* Objects are kept in the order they came: ranks of places.               *)

\* The rank of a place i in a finite set of places: how many stand up to it.
Rank(S, i) == Cardinality({j \in S : j <= i})

\* A rank is a position among as many as there are places.
LEMMA RankOf ==
  ASSUME NEW S \in SUBSET Nat, IsFiniteSet(S), NEW i \in S
  PROVE  Rank(S, i) \in 1..Cardinality(S)
<1> DEFINE U == {j \in S : j <= i}
<1>1. U \in SUBSET S /\ i \in U
  OBVIOUS
<1> HIDE DEF U
<1>2. IsFiniteSet(U) /\ Cardinality(U) <= Cardinality(S)
  BY <1>1, FS_Subset
<1>3. Cardinality(U) \in Nat /\ Cardinality(S) \in Nat
  BY <1>2, FS_CardinalityType
<1>4. Cardinality(U) # 0
  BY <1>1, <1>2, FS_EmptySet
<1>5. Rank(S, i) = Cardinality(U)
  BY Zenon DEF Rank, U
<1> QED
  BY <1>2, <1>3, <1>4, <1>5

\* Of two places the later has the greater rank.
LEMMA RankIncreases ==
  ASSUME NEW S \in SUBSET Nat, IsFiniteSet(S), NEW i \in S, NEW j \in S, i < j
  PROVE  Rank(S, i) < Rank(S, j)
<1> DEFINE U == {k \in S : k <= i}
           V == {k \in S : k <= j}
<1>1. U \in SUBSET V /\ V \in SUBSET S /\ j \in V /\ j \notin U
  <2>1. i \in Nat /\ j \in Nat /\ j <= j /\ ~(j <= i)
    OBVIOUS
  <2>2. \A k \in S : k <= i => k <= j
    <3> SUFFICES ASSUME NEW k \in S, k <= i PROVE k <= j
      OBVIOUS
    <3>1. k \in Nat
      OBVIOUS
    <3> QED
      BY <2>1, <3>1
  <2> QED
    BY <2>1, <2>2, Zenon
<1>2. Rank(S, i) = Cardinality(U) /\ Rank(S, j) = Cardinality(V)
  BY Zenon DEF Rank
<1> HIDE DEF U, V
<1>3. IsFiniteSet(V)
  BY <1>1, FS_Subset
<1>4. IsFiniteSet(U) /\ Cardinality(U) <= Cardinality(V) /\ Cardinality(U) # Cardinality(V)
  BY <1>1, <1>3, FS_Subset
<1>5. Cardinality(U) \in Nat /\ Cardinality(V) \in Nat
  BY <1>3, <1>4, FS_CardinalityType
<1> QED
  BY <1>2, <1>4, <1>5

\* No two places have the same rank.
LEMMA RankIsOneToOne ==
  ASSUME NEW S \in SUBSET Nat, IsFiniteSet(S), NEW i \in S, NEW j \in S,
         Rank(S, i) = Rank(S, j)
  PROVE  i = j
<1>1. i \in Nat /\ j \in Nat
  OBVIOUS
<1>2. Rank(S, i) \in Int /\ Rank(S, j) \in Int
  BY RankOf
<1>3. ~ (i < j)
  BY <1>2, RankIncreases
<1>4. ~ (j < i)
  BY <1>2, RankIncreases
<1> QED
  BY <1>1, <1>3, <1>4

\* Every position up to the number of places is the rank of one of them.
LEMMA RankIsOnto ==
  ASSUME NEW S \in SUBSET Nat, IsFiniteSet(S), NEW n \in 1..Cardinality(S)
  PROVE  \E i \in S : Rank(S, i) = n
<1> DEFINE T == 1..Cardinality(S)
           f == [i \in S |-> Rank(S, i)]
<1>1. Cardinality(S) \in Nat
  BY FS_CardinalityType
<1>2. IsFiniteSet(T) /\ Cardinality(T) = Cardinality(S)
  BY <1>1, FS_Interval
<1> HIDE DEF T
<1>3. f \in [S -> T]
  BY RankOf DEF T
<1>4. \A i, j \in S : f[i] = f[j] => i = j
  BY RankIsOneToOne
<1>5. f \in Injection(S, T)
  BY <1>3, <1>4, Zenon DEF Injection, IsInjective
<1>6. f \in Surjection(S, T)
  BY <1>2, <1>5, FS_Injection
<1>7. \A t \in T : \E i \in S : f[i] = t
  BY <1>6, Zenon DEF Surjection
<1>8. n \in T
  BY DEF T
<1> QED
  BY <1>7, <1>8

\* One more place behind all the others changes no rank, and ranks last.
LEMMA RankExtends ==
  ASSUME NEW S \in SUBSET Nat, IsFiniteSet(S), NEW k \in Nat, \A j \in S : j < k
  PROVE  /\ IsFiniteSet(S \cup {k})
         /\ Cardinality(S \cup {k}) = Cardinality(S) + 1
         /\ \A i \in S : Rank(S \cup {k}, i) = Rank(S, i)
         /\ Rank(S \cup {k}, k) = Cardinality(S) + 1
<1>1. k \notin S
  OBVIOUS
<1>2. IsFiniteSet(S \cup {k}) /\ Cardinality(S \cup {k}) = Cardinality(S) + 1
  BY <1>1, FS_AddElement
<1>3. ASSUME NEW i \in S PROVE Rank(S \cup {k}, i) = Rank(S, i)
  <2>1. {j \in S \cup {k} : j <= i} = {j \in S : j <= i}
    OBVIOUS
  <2> QED
    BY <2>1, Zenon DEF Rank
<1>4. Rank(S \cup {k}, k) = Cardinality(S) + 1
  <2>1. \A j \in S \cup {k} : j <= k
    <3> SUFFICES ASSUME NEW j \in S \cup {k} PROVE j <= k
      OBVIOUS
    <3>1. j \in S => j \in Nat /\ j < k
      OBVIOUS
    <3> QED
      BY <3>1
  <2>2. {j \in S \cup {k} : j <= k} = S \cup {k}
    BY <2>1, Zenon
  <2> QED
    BY <1>2, <2>2, Zenon DEF Rank
<1> QED
  BY <1>2, <1>3, <1>4

\* Ranks are kept by an increasing function onto the other set of places.
LEMMA RankIsKept ==
  ASSUME NEW S \in SUBSET Nat, NEW T \in SUBSET Nat, IsFiniteSet(S), IsFiniteSet(T),
         NEW g \in [S -> T], Cardinality(S) = Cardinality(T),
         \A i, j \in S : i < j => g[i] < g[j],
         NEW i \in S
  PROVE  Rank(S, i) = Rank(T, g[i])
<1>1. \A j, k \in S : g[j] = g[k] => j = k
  <2> SUFFICES ASSUME NEW j \in S, NEW k \in S, g[j] = g[k] PROVE j = k
    OBVIOUS
  <2>1. j \in Nat /\ k \in Nat /\ g[j] \in Nat /\ g[k] \in Nat
    OBVIOUS
  <2> QED
    BY <2>1
<1>2. g \in Injection(S, T)
  BY <1>1, Zenon DEF Injection, IsInjective
<1>3. g \in Surjection(S, T)
  BY <1>2, FS_Injection
<1>4. \A t \in T : \E j \in S : g[j] = t
  BY <1>3, Zenon DEF Surjection
<1> DEFINE U == {j \in S : j <= i}
           V == {j \in T : j <= g[i]}
           h == [j \in U |-> g[j]]
<1>5. IsFiniteSet(U) /\ IsFiniteSet(V)
  BY FS_Subset
<1>6. \A j \in S : j <= i <=> g[j] <= g[i]
  <2> SUFFICES ASSUME NEW j \in S PROVE j <= i <=> g[j] <= g[i]
    OBVIOUS
  <2>1. j \in Nat /\ i \in Nat /\ g[j] \in Nat /\ g[i] \in Nat
    OBVIOUS
  <2> QED
    BY <2>1
<1>7. h \in [U -> V]
  BY <1>6
<1>8. \A j, k \in U : h[j] = h[k] => j = k
  BY <1>1
<1>9. \A t \in V : \E j \in U : h[j] = t
  BY <1>4, <1>6
<1> HIDE DEF U, V, h
<1>10. h \in Injection(U, V)
  BY <1>7, <1>8, Zenon DEF Injection, IsInjective
<1>11. h \in Surjection(U, V)
  BY <1>7, <1>9, Zenon DEF Surjection
<1>12. Cardinality(U) = Cardinality(V)
  BY <1>5, <1>10, <1>11, FS_Injection
<1> QED
  BY <1>12, Zenon DEF Rank, U, V

-----------------------------------------------------------------------------
(* What adding a record changes of a batch, member by member.              *)

Names == {rec.name : rec \in {r \in Pool : r.record = "object"}}

\* A batch and a collection's statements, member by member.
Whole(b) == b = [violation |-> b.violation, seenBegin |-> b.seenBegin, seenEnd |-> b.seenEnd,
                 begin |-> b.begin, end |-> b.end, wall |-> b.wall,
                 collections |-> b.collections]

Statements(st) == st = [objects |-> st.objects, assertions |-> st.assertions,
                        unobservables |-> st.unobservables, decline |-> st.decline,
                        commit |-> st.commit, lastAt |-> st.lastAt]

Shape(b) ==
  /\ Whole(b)
  /\ b.collections = [c \in DOMAIN Issued |-> b.collections[c]]
  /\ \A c \in DOMAIN Issued : Statements(b.collections[c])

\* Adding leaves everything but collection c's statements alone.
OnlyChanges(b, nb, c) ==
  /\ Shape(nb)
  /\ nb.violation = b.violation /\ nb.seenBegin = b.seenBegin /\ nb.seenEnd = b.seenEnd
  /\ nb.begin = b.begin /\ nb.end = b.end /\ nb.wall = b.wall
  /\ \A d \in DOMAIN Issued : d # c => nb.collections[d] = b.collections[d]

\* One collection's statements replaced.
LEMMA Replacing ==
  ASSUME NEW b, Shape(b), NEW c \in DOMAIN Issued, NEW st, Statements(st)
  PROVE  LET nb == [b EXCEPT !.collections[c] = st]
         IN OnlyChanges(b, nb, c) /\ nb.collections[c] = st
<1> DEFINE nb == [b EXCEPT !.collections[c] = st]
           new == [d \in DOMAIN Issued |-> IF d = c THEN st ELSE b.collections[d]]
<1>1. [b.collections EXCEPT ![c] = st] = new
  BY DEF Shape
<1>2. nb = [violation |-> b.violation, seenBegin |-> b.seenBegin, seenEnd |-> b.seenEnd,
            begin |-> b.begin, end |-> b.end, wall |-> b.wall, collections |-> new]
  BY <1>1 DEF Shape, Whole
<1>3. /\ nb.violation = b.violation /\ nb.seenBegin = b.seenBegin /\ nb.seenEnd = b.seenEnd
      /\ nb.begin = b.begin /\ nb.end = b.end /\ nb.wall = b.wall /\ nb.collections = new
  BY <1>2
<1>4. Whole(nb)
  BY <1>2, <1>3 DEF Whole
<1>5. new[c] = st /\ \A d \in DOMAIN Issued : d # c => new[d] = b.collections[d]
  OBVIOUS
<1>6. new = [d \in DOMAIN Issued |-> new[d]]
  OBVIOUS
<1>7. \A d \in DOMAIN Issued : Statements(new[d])
  BY <1>5 DEF Shape
<1> HIDE DEF new, nb
<1>8. OnlyChanges(b, nb, c) /\ nb.collections[c] = st
  BY <1>3, <1>4, <1>5, <1>6, <1>7 DEF OnlyChanges, Shape
<1> QED
  BY <1>8 DEF nb

\* A collection's statements with one member replaced, member by member.
LEMMA MemberReplaced ==
  ASSUME NEW old, Statements(old), NEW x
  PROVE  /\ [old EXCEPT !.objects = x] =
              [objects |-> x, assertions |-> old.assertions,
               unobservables |-> old.unobservables, decline |-> old.decline,
               commit |-> old.commit, lastAt |-> old.lastAt]
         /\ [old EXCEPT !.assertions = x] =
              [objects |-> old.objects, assertions |-> x,
               unobservables |-> old.unobservables, decline |-> old.decline,
               commit |-> old.commit, lastAt |-> old.lastAt]
         /\ [old EXCEPT !.unobservables = x] =
              [objects |-> old.objects, assertions |-> old.assertions,
               unobservables |-> x, decline |-> old.decline,
               commit |-> old.commit, lastAt |-> old.lastAt]
         /\ [old EXCEPT !.decline = x] =
              [objects |-> old.objects, assertions |-> old.assertions,
               unobservables |-> old.unobservables, decline |-> x,
               commit |-> old.commit, lastAt |-> old.lastAt]
         /\ [old EXCEPT !.commit = x] =
              [objects |-> old.objects, assertions |-> old.assertions,
               unobservables |-> old.unobservables, decline |-> old.decline,
               commit |-> x, lastAt |-> old.lastAt]
         /\ [old EXCEPT !.lastAt = x] =
              [objects |-> old.objects, assertions |-> old.assertions,
               unobservables |-> old.unobservables, decline |-> old.decline,
               commit |-> old.commit, lastAt |-> x]
<1> DEFINE p == old.objects
           q == old.assertions
           r == old.unobservables
           s == old.decline
           t == old.commit
           u == old.lastAt
<1>1. old = [objects |-> p, assertions |-> q, unobservables |-> r, decline |-> s,
             commit |-> t, lastAt |-> u]
  BY DEF Statements
<1> HIDE DEF p, q, r, s, t, u
<1>2. [old EXCEPT !.objects = x] =
        [objects |-> x, assertions |-> q, unobservables |-> r,
         decline |-> s, commit |-> t, lastAt |-> u]
  BY <1>1
<1>3. [old EXCEPT !.assertions = x] =
        [objects |-> p, assertions |-> x, unobservables |-> r,
         decline |-> s, commit |-> t, lastAt |-> u]
  BY <1>1
<1>4. [old EXCEPT !.unobservables = x] =
        [objects |-> p, assertions |-> q, unobservables |-> x,
         decline |-> s, commit |-> t, lastAt |-> u]
  BY <1>1
<1>5. [old EXCEPT !.decline = x] =
        [objects |-> p, assertions |-> q, unobservables |-> r,
         decline |-> x, commit |-> t, lastAt |-> u]
  BY <1>1
<1>6. [old EXCEPT !.commit = x] =
        [objects |-> p, assertions |-> q, unobservables |-> r,
         decline |-> s, commit |-> x, lastAt |-> u]
  BY <1>1
<1>7. [old EXCEPT !.lastAt = x] =
        [objects |-> p, assertions |-> q, unobservables |-> r,
         decline |-> s, commit |-> t, lastAt |-> x]
  BY <1>1
<1> QED
  BY <1>2, <1>3, <1>4, <1>5, <1>6, <1>7 DEF p, q, r, s, t, u

\* Say, member by member, for an object.
LEMMA SayObject ==
  ASSUME NEW old, Statements(old), NEW rec, rec.record = "object"
  PROVE  Say(old, rec) =
           [objects |-> Append(old.objects, rec.name), assertions |-> old.assertions,
            unobservables |-> old.unobservables, decline |-> old.decline,
            commit |-> old.commit, lastAt |-> rec.at]
<1> DEFINE o == Append(old.objects, rec.name)
           mid == [old EXCEPT !.objects = o]
<1>1. Say(old, rec) = [old EXCEPT !.objects = o, !.lastAt = rec.at]
  BY DEF Say
<1>2. Say(old, rec) = [mid EXCEPT !.lastAt = rec.at]
  BY <1>1
<1>3. mid = [objects |-> o, assertions |-> old.assertions,
             unobservables |-> old.unobservables, decline |-> old.decline,
             commit |-> old.commit, lastAt |-> old.lastAt]
  BY MemberReplaced
<1> HIDE DEF mid, o
<1>4. /\ mid.objects = o /\ mid.assertions = old.assertions
      /\ mid.unobservables = old.unobservables /\ mid.decline = old.decline
      /\ mid.commit = old.commit
  BY <1>3
<1>5. Statements(mid)
  BY <1>3 DEF Statements
<1>6. [mid EXCEPT !.lastAt = rec.at] =
              [objects |-> mid.objects, assertions |-> mid.assertions,
               unobservables |-> mid.unobservables, decline |-> mid.decline,
               commit |-> mid.commit, lastAt |-> rec.at]
  BY <1>5, MemberReplaced
<1> QED
  BY <1>2, <1>4, <1>6 DEF o

\* Say, member by member, for every other kind of record.
LEMMA SayOther ==
  ASSUME NEW old, Statements(old), NEW rec
  PROVE  /\ rec.record = "relation_assertion" =>
              Say(old, rec) = [objects |-> old.objects, assertions |-> old.assertions + 1,
                 unobservables |-> old.unobservables, decline |-> old.decline,
                 commit |-> old.commit, lastAt |-> old.lastAt]
         /\ rec.record = "unobservable" =>
              Say(old, rec) = [objects |-> old.objects, assertions |-> old.assertions,
                 unobservables |-> old.unobservables + 1, decline |-> old.decline,
                 commit |-> old.commit, lastAt |-> old.lastAt]
         /\ rec.record = "decline" =>
              Say(old, rec) = [objects |-> old.objects, assertions |-> old.assertions,
                 unobservables |-> old.unobservables, decline |-> [reason |-> rec.reason],
                 commit |-> old.commit, lastAt |-> old.lastAt]
         /\ rec.record = "commit" =>
              Say(old, rec) = [objects |-> old.objects, assertions |-> old.assertions,
                 unobservables |-> old.unobservables, decline |-> old.decline,
                 commit |-> [objects |-> rec.objects, assertions |-> rec.assertions,
                             unobservable |-> rec.unobservable],
                 lastAt |-> old.lastAt]
<1>1. ASSUME rec.record = "relation_assertion"
      PROVE  Say(old, rec) = [old EXCEPT !.assertions = old.assertions + 1]
  BY <1>1 DEF Say
<1>2. ASSUME rec.record = "unobservable"
      PROVE  Say(old, rec) = [old EXCEPT !.unobservables = old.unobservables + 1]
  BY <1>2 DEF Say
<1>3. ASSUME rec.record = "decline"
      PROVE  Say(old, rec) = [old EXCEPT !.decline = [reason |-> rec.reason]]
  BY <1>3 DEF Say
<1>4. ASSUME rec.record = "commit"
      PROVE  Say(old, rec) = [old EXCEPT !.commit =
               [objects |-> rec.objects, assertions |-> rec.assertions,
                unobservable |-> rec.unobservable]]
  BY <1>4 DEF Say
<1> QED
  BY <1>1, <1>2, <1>3, <1>4, MemberReplaced

\* A record about a collection changes that collection's statements alone.
LEMMA AddAbout ==
  ASSUME NEW b, Shape(b), NEW rec, rec.collection \in DOMAIN Issued,
         rec.record \in {"object", "relation_assertion", "unobservable", "decline", "commit"}
  PROVE  /\ OnlyChanges(b, Add(b, rec), rec.collection)
         /\ Add(b, rec).collections[rec.collection] = Say(b.collections[rec.collection], rec)
<1> DEFINE old == b.collections[rec.collection]
           st == Say(old, rec)
           nb == Add(b, rec)
<1>1. nb = [b EXCEPT !.collections[rec.collection] = st]
  BY DEF Add
<1>2. Statements(old)
  BY DEF Shape
<1>3. Statements(st)
  <2> HIDE DEF old
  <2>1. CASE rec.record = "object"
    BY <1>2, <2>1, SayObject DEF Statements
  <2>2. CASE rec.record = "relation_assertion"
    BY <1>2, <2>2, SayOther DEF Statements
  <2>3. CASE rec.record = "unobservable"
    BY <1>2, <2>3, SayOther DEF Statements
  <2>4. CASE rec.record = "decline"
    BY <1>2, <2>4, SayOther DEF Statements
  <2>5. CASE rec.record = "commit"
    BY <1>2, <2>5, SayOther DEF Statements
  <2> QED
    BY <2>1, <2>2, <2>3, <2>4, <2>5
<1> DEFINE c == rec.collection
<1> HIDE DEF st, nb
<1>4. c \in DOMAIN Issued /\ nb = [b EXCEPT !.collections[c] = st]
  BY <1>1
<1> HIDE DEF c
<1> DEFINE direct == [b EXCEPT !.collections[c] = st]
<1>5. OnlyChanges(b, direct, c) /\ direct.collections[c] = st
  BY <1>3, <1>4, Replacing
<1>6. nb = direct
  BY <1>4
<1> HIDE DEF direct
<1> QED
  BY <1>5, <1>6 DEF nb, st, c

\* A batch with one member replaced, member by member.
LEMMA BatchMemberReplaced ==
  ASSUME NEW b, Whole(b), NEW x
  PROVE  /\ [b EXCEPT !.seenBegin = x] =
              [violation |-> b.violation, seenBegin |-> x, seenEnd |-> b.seenEnd,
               begin |-> b.begin, end |-> b.end, wall |-> b.wall, collections |-> b.collections]
         /\ [b EXCEPT !.begin = x] =
              [violation |-> b.violation, seenBegin |-> b.seenBegin, seenEnd |-> b.seenEnd,
               begin |-> x, end |-> b.end, wall |-> b.wall, collections |-> b.collections]
         /\ [b EXCEPT !.seenEnd = x] =
              [violation |-> b.violation, seenBegin |-> b.seenBegin, seenEnd |-> x,
               begin |-> b.begin, end |-> b.end, wall |-> b.wall, collections |-> b.collections]
         /\ [b EXCEPT !.end = x] =
              [violation |-> b.violation, seenBegin |-> b.seenBegin, seenEnd |-> b.seenEnd,
               begin |-> b.begin, end |-> x, wall |-> b.wall, collections |-> b.collections]
         /\ [b EXCEPT !.wall = x] =
              [violation |-> b.violation, seenBegin |-> b.seenBegin, seenEnd |-> b.seenEnd,
               begin |-> b.begin, end |-> b.end, wall |-> x, collections |-> b.collections]
<1> DEFINE p == b.violation
           q == b.seenBegin
           r == b.seenEnd
           s == b.begin
           t == b.end
           u == b.wall
           v == b.collections
<1>1. b = [violation |-> p, seenBegin |-> q, seenEnd |-> r, begin |-> s, end |-> t,
           wall |-> u, collections |-> v]
  BY DEF Whole
<1> HIDE DEF p, q, r, s, t, u, v
<1>2. [b EXCEPT !.seenBegin = x] = [violation |-> p, seenBegin |-> x, seenEnd |-> r,
        begin |-> s, end |-> t, wall |-> u, collections |-> v]
  BY <1>1
<1>3. [b EXCEPT !.begin = x] = [violation |-> p, seenBegin |-> q, seenEnd |-> r,
        begin |-> x, end |-> t, wall |-> u, collections |-> v]
  BY <1>1
<1>4. [b EXCEPT !.seenEnd = x] = [violation |-> p, seenBegin |-> q, seenEnd |-> x,
        begin |-> s, end |-> t, wall |-> u, collections |-> v]
  BY <1>1
<1>5. [b EXCEPT !.end = x] = [violation |-> p, seenBegin |-> q, seenEnd |-> r,
        begin |-> s, end |-> x, wall |-> u, collections |-> v]
  BY <1>1
<1>6. [b EXCEPT !.wall = x] = [violation |-> p, seenBegin |-> q, seenEnd |-> r,
        begin |-> s, end |-> t, wall |-> x, collections |-> v]
  BY <1>1
<1> QED
  BY <1>2, <1>3, <1>4, <1>5, <1>6 DEF p, q, r, s, t, u, v

\* The members a change of the batch itself leaves alone.
SameStatements(b, nb) ==
  /\ Shape(nb)
  /\ nb.violation = b.violation /\ nb.collections = b.collections

\* A begin record changes who the stream is from and nothing else.
LEMMA AddBegin ==
  ASSUME NEW b, Shape(b), NEW rec, rec.record = "begin"
  PROVE  /\ SameStatements(b, Add(b, rec))
         /\ Add(b, rec).seenBegin = TRUE /\ Add(b, rec).begin = <<rec.request, rec.batch>>
         /\ Add(b, rec).seenEnd = b.seenEnd /\ Add(b, rec).end = b.end
         /\ Add(b, rec).wall = b.wall
<1> DEFINE who == <<rec.request, rec.batch>>
           mid == [b EXCEPT !.seenBegin = TRUE]
           nb == Add(b, rec)
<1>1. nb = [b EXCEPT !.seenBegin = TRUE, !.begin = who]
  BY DEF Add
<1> HIDE DEF nb, who
<1>2. nb = [mid EXCEPT !.begin = who]
  BY <1>1
<1>3. mid = [violation |-> b.violation, seenBegin |-> TRUE, seenEnd |-> b.seenEnd,
             begin |-> b.begin, end |-> b.end, wall |-> b.wall, collections |-> b.collections]
  BY BatchMemberReplaced DEF Shape
<1> HIDE DEF mid
<1>4. /\ mid.violation = b.violation /\ mid.seenBegin = TRUE /\ mid.seenEnd = b.seenEnd
      /\ mid.end = b.end /\ mid.wall = b.wall /\ mid.collections = b.collections
  BY <1>3
<1>5. Whole(mid)
  BY <1>3 DEF Whole
<1>6. nb = [violation |-> mid.violation, seenBegin |-> mid.seenBegin, seenEnd |-> mid.seenEnd,
            begin |-> who, end |-> mid.end, wall |-> mid.wall, collections |-> mid.collections]
  BY <1>2, <1>5, BatchMemberReplaced
<1>7. /\ nb.violation = b.violation /\ nb.seenBegin = TRUE /\ nb.seenEnd = b.seenEnd
      /\ nb.begin = who /\ nb.end = b.end /\ nb.wall = b.wall
      /\ nb.collections = b.collections
  BY <1>4, <1>6
<1>8. Whole(nb)
  BY <1>6 DEF Whole
<1>9. Shape(nb)
  BY <1>7, <1>8 DEF Shape
<1> QED
  BY <1>7, <1>9 DEF nb, who, SameStatements

\* An end record changes the echo and the wall time and nothing else.
LEMMA AddEnd ==
  ASSUME NEW b, Shape(b), NEW rec, rec.record = "end"
  PROVE  /\ SameStatements(b, Add(b, rec))
         /\ Add(b, rec).seenEnd = TRUE /\ Add(b, rec).end = <<rec.request, rec.batch>>
         /\ Add(b, rec).wall = IF "wall_ms" \in DOMAIN rec.has THEN rec.wall_ms ELSE 0
         /\ Add(b, rec).seenBegin = b.seenBegin /\ Add(b, rec).begin = b.begin
<1> DEFINE who == <<rec.request, rec.batch>>
           took == IF "wall_ms" \in DOMAIN rec.has THEN rec.wall_ms ELSE 0
           mid == [b EXCEPT !.seenEnd = TRUE]
           late == [mid EXCEPT !.end = who]
           nb == Add(b, rec)
<1>1. nb = [b EXCEPT !.seenEnd = TRUE, !.end = who, !.wall = took]
  BY DEF Add
<1> HIDE DEF nb, who, took
<1>2. nb = [late EXCEPT !.wall = took]
  BY <1>1
<1>3. mid = [violation |-> b.violation, seenBegin |-> b.seenBegin, seenEnd |-> TRUE,
             begin |-> b.begin, end |-> b.end, wall |-> b.wall, collections |-> b.collections]
  BY BatchMemberReplaced DEF Shape
<1> HIDE DEF mid
<1>4. /\ mid.violation = b.violation /\ mid.seenBegin = b.seenBegin /\ mid.seenEnd = TRUE
      /\ mid.begin = b.begin /\ mid.wall = b.wall /\ mid.collections = b.collections
  BY <1>3
<1>5. Whole(mid)
  BY <1>3 DEF Whole
<1>6. late = [violation |-> mid.violation, seenBegin |-> mid.seenBegin, seenEnd |-> mid.seenEnd,
              begin |-> mid.begin, end |-> who, wall |-> mid.wall,
              collections |-> mid.collections]
  BY <1>5, BatchMemberReplaced
<1> HIDE DEF late
<1>7. /\ late.violation = b.violation /\ late.seenBegin = b.seenBegin /\ late.seenEnd = TRUE
      /\ late.begin = b.begin /\ late.end = who /\ late.collections = b.collections
  BY <1>4, <1>6
<1>8. Whole(late)
  BY <1>6 DEF Whole
<1>9. nb = [violation |-> late.violation, seenBegin |-> late.seenBegin,
            seenEnd |-> late.seenEnd, begin |-> late.begin, end |-> late.end, wall |-> took,
            collections |-> late.collections]
  BY <1>2, <1>8, BatchMemberReplaced
<1>10. /\ nb.violation = b.violation /\ nb.seenBegin = b.seenBegin /\ nb.seenEnd = TRUE
       /\ nb.begin = b.begin /\ nb.end = who /\ nb.wall = took
       /\ nb.collections = b.collections
  BY <1>7, <1>9
<1>11. Whole(nb)
  BY <1>9 DEF Whole
<1>12. Shape(nb)
  BY <1>10, <1>11 DEF Shape
<1> QED
  BY <1>10, <1>12 DEF nb, who, took, SameStatements

-----------------------------------------------------------------------------
(* What the statements kept for a collection have to do with the stream.   *)

Speaks(rec) == rec.record \in Emissions \union {"decline", "commit"}

\* What the statements kept for a collection have to do with the stream.
ObjectsAgree(s, c, st) ==
  LET said == Of(s, c, "object")
  IN /\ st.objects \in Seq(Names)
     /\ Len(st.objects) = Cardinality(said)
     /\ \A i \in said : st.objects[Rank(said, i)] = s[i].name
     /\ \A i, j \in said : i < j => s[i].name # s[j].name /\ s[i].at <= s[j].at
     /\ \A i \in said : s[i].at <= st.lastAt
     /\ st.lastAt = 0 \/ \E i \in said : s[i].at = st.lastAt

CountsAgree(s, c, st) ==
  /\ st.assertions = Cardinality(Of(s, c, "relation_assertion"))
  /\ st.unobservables = Cardinality(Of(s, c, "unobservable"))

DeclineAgrees(s, c, st) ==
  \/ st.decline = None /\ \A i \in About(s, c) : s[i].record # "decline"
  \/ \E d \in About(s, c) :
       /\ s[d].record = "decline" /\ st.decline = [reason |-> s[d].reason]
       /\ s[d].reason \in Reasons
       /\ \A i \in About(s, c) : i # d => s[i].record = "commit"

CommitAgrees(s, c, st) ==
  \/ st.commit = NoCommit /\ \A i \in About(s, c) : s[i].record # "commit"
  \/ \E k \in About(s, c) :
       /\ s[k].record = "commit" /\ st.commit # NoCommit
       /\ st.commit = [objects |-> s[k].objects, assertions |-> s[k].assertions,
                       unobservable |-> s[k].unobservable]
       /\ \A i \in About(s, c) : i <= k /\ (i # k => s[i].record # "commit")

AgreesOn(s, c, st) == /\ ObjectsAgree(s, c, st) /\ CountsAgree(s, c, st)
                      /\ DeclineAgrees(s, c, st) /\ CommitAgrees(s, c, st)

-----------------------------------------------------------------------------
(* Streams.                                                                *)

\* A stream with one record more.
LEMMA Appended ==
  ASSUME NEW s \in Seq(Pool), NEW rec \in Pool
  PROVE  /\ Append(s, rec) \in Seq(Pool) /\ Len(s) \in Nat
         /\ DOMAIN s = 1..Len(s)
         /\ Len(Append(s, rec)) = Len(s) + 1
         /\ DOMAIN Append(s, rec) = DOMAIN s \cup {Len(s) + 1}
         /\ Len(s) + 1 \notin DOMAIN s
         /\ \A i \in DOMAIN s : Append(s, rec)[i] = s[i] /\ i < Len(s) + 1 /\ i \in Nat
         /\ Append(s, rec)[Len(s) + 1] = rec
<1>1. /\ Append(s, rec) \in Seq(Pool) /\ Len(s) \in Nat /\ DOMAIN s = 1..Len(s)
      /\ Len(Append(s, rec)) = Len(s) + 1
  OBVIOUS
<1>2. DOMAIN Append(s, rec) = DOMAIN s \cup {Len(s) + 1}
  BY <1>1
<1>3. Len(s) + 1 \notin DOMAIN s
  BY <1>1
<1>4. \A i \in DOMAIN s : Append(s, rec)[i] = s[i] /\ i < Len(s) + 1 /\ i \in Nat
  BY <1>1
<1>5. Append(s, rec)[Len(s) + 1] = rec
  OBVIOUS
<1> QED
  BY <1>1, <1>2, <1>3, <1>4, <1>5

\* Where a collection is spoken of is a finite set of places of the stream.
LEMMA Places ==
  ASSUME NEW s \in Seq(Pool), NEW c, NEW kind
  PROVE  /\ About(s, c) \subseteq DOMAIN s /\ Of(s, c, kind) \subseteq About(s, c)
         /\ About(s, c) \in SUBSET Nat /\ IsFiniteSet(About(s, c))
         /\ Of(s, c, kind) \in SUBSET Nat /\ IsFiniteSet(Of(s, c, kind))
         /\ Cardinality(Of(s, c, kind)) \in Nat
         /\ \A i \in About(s, c) : s[i] \in Pool /\ Speaks(s[i]) /\ s[i].collection = c
         /\ \A i \in Of(s, c, kind) : s[i].record = kind
<1>1. DOMAIN s = 1..Len(s) /\ Len(s) \in Nat
  OBVIOUS
<1>2. DOMAIN s \in SUBSET Nat
  BY <1>1
<1>3. IsFiniteSet(DOMAIN s)
  BY <1>1, FS_Interval
<1>4. About(s, c) \subseteq DOMAIN s /\ Of(s, c, kind) \subseteq About(s, c)
  BY Zenon DEF About, Of
<1>5. IsFiniteSet(About(s, c)) /\ IsFiniteSet(Of(s, c, kind))
  <2>1. About(s, c) \in SUBSET DOMAIN s /\ Of(s, c, kind) \in SUBSET DOMAIN s
    BY <1>4, Zenon
  <2> QED
    BY <1>3, <2>1, FS_Subset
<1>6. Cardinality(Of(s, c, kind)) \in Nat
  BY <1>5, FS_CardinalityType
<1>7. \A i \in About(s, c) : s[i] \in Pool
  BY <1>4
<1>8. \A i \in About(s, c) : Speaks(s[i]) /\ s[i].collection = c
  BY Zenon DEF About, Speaks
<1>9. \A i \in Of(s, c, kind) : s[i].record = kind
  BY Zenon DEF Of
<1> QED
  BY <1>2, <1>4, <1>5, <1>6, <1>7, <1>8, <1>9, Zenon

\* One more record: where a collection is spoken of grows by it or not at all.
LEMMA AboutElsewhere ==
  ASSUME NEW s \in Seq(Pool), NEW rec \in Pool, NEW c,
         ~(Speaks(rec) /\ rec.collection = c)
  PROVE  /\ About(Append(s, rec), c) = About(s, c)
         /\ \A kind : Of(Append(s, rec), c, kind) = Of(s, c, kind)
<1> DEFINE t == Append(s, rec)
           n == Len(s) + 1
<1>1. /\ DOMAIN t = DOMAIN s \cup {n} /\ n \notin DOMAIN s /\ t[n] = rec
      /\ \A i \in DOMAIN s : t[i] = s[i]
  BY Appended
<1> HIDE DEF t, n
<1>2. About(t, c) = About(s, c)
  BY <1>1, Zenon DEF About, Speaks
<1>3. About(s, c) \subseteq DOMAIN s
  BY Zenon DEF About
<1>4. \A kind : Of(t, c, kind) = Of(s, c, kind)
  BY <1>1, <1>2, <1>3, Zenon DEF Of
<1> QED
  BY <1>2, <1>4 DEF t

\* Where the record is about c, its place is the one place gained.
LEMMA AboutHere ==
  ASSUME NEW s \in Seq(Pool), NEW rec \in Pool, NEW c,
         Speaks(rec), rec.collection = c
  PROVE  /\ About(Append(s, rec), c) = About(s, c) \cup {Len(s) + 1}
         /\ Of(Append(s, rec), c, rec.record) = Of(s, c, rec.record) \cup {Len(s) + 1}
         /\ \A kind : kind # rec.record => Of(Append(s, rec), c, kind) = Of(s, c, kind)
<1> DEFINE t == Append(s, rec)
           n == Len(s) + 1
<1>1. /\ DOMAIN t = DOMAIN s \cup {n} /\ n \notin DOMAIN s /\ t[n] = rec
      /\ \A i \in DOMAIN s : t[i] = s[i]
  BY Appended
<1> HIDE DEF t, n
<1>2. About(t, c) = About(s, c) \cup {n}
  BY <1>1, Zenon DEF About, Speaks
<1>3. About(s, c) \subseteq DOMAIN s
  BY Zenon DEF About
<1>4. Of(t, c, rec.record) = Of(s, c, rec.record) \cup {n}
  BY <1>1, <1>2, <1>3, Zenon DEF Of
<1>5. \A kind : kind # rec.record => Of(t, c, kind) = Of(s, c, kind)
  BY <1>1, <1>2, <1>3, Zenon DEF Of
<1> QED
  BY <1>2, <1>4, <1>5 DEF t, n

-----------------------------------------------------------------------------
(* A record let in keeps its collection in agreement: emissions.           *)

\* A record that is no object of c leaves its objects in agreement.
LEMMA ObjectsKept ==
  ASSUME NEW s \in Seq(Pool), NEW rec \in Pool, NEW c, NEW st, NEW st2,
         Of(Append(s, rec), c, "object") = Of(s, c, "object"),
         st2.objects = st.objects, st2.lastAt = st.lastAt, ObjectsAgree(s, c, st)
  PROVE  ObjectsAgree(Append(s, rec), c, st2)
<1> DEFINE t == Append(s, rec)
           said == Of(s, c, "object")
<1>1. \A i \in said : t[i] = s[i]
  BY Appended, Places
<1>2. Of(t, c, "object") = said
  OBVIOUS
<1> HIDE DEF t, said
<1>3. /\ st.objects \in Seq(Names)
      /\ Len(st.objects) = Cardinality(said)
      /\ \A i \in said : st.objects[Rank(said, i)] = s[i].name
      /\ \A i, j \in said : i < j => s[i].name # s[j].name /\ s[i].at <= s[j].at
      /\ \A i \in said : s[i].at <= st.lastAt
      /\ st.lastAt = 0 \/ \E i \in said : s[i].at = st.lastAt
  BY DEF ObjectsAgree, said
<1>4. ObjectsAgree(t, c, st2)
  <2>1. /\ st2.objects \in Seq(Names) /\ Len(st2.objects) = Cardinality(said)
        /\ \A i \in said : st2.objects[Rank(said, i)] = t[i].name
    BY <1>1, <1>3
  <2>2. \A i, j \in said : i < j => t[i].name # t[j].name /\ t[i].at <= t[j].at
    BY <1>1, <1>3
  <2>3. \A i \in said : t[i].at <= st2.lastAt
    BY <1>1, <1>3
  <2>4. st2.lastAt = 0 \/ \E i \in said : t[i].at = st2.lastAt
    BY <1>1, <1>3
  <2> QED
    BY <1>2, <2>1, <2>2, <2>3, <2>4 DEF ObjectsAgree
<1> QED
  BY <1>4 DEF t

\* A record about another collection, or about none.
LEMMA AgreesElsewhere ==
  ASSUME NEW s \in Seq(Pool), NEW rec \in Pool, NEW c, NEW st,
         ~(Speaks(rec) /\ rec.collection = c), AgreesOn(s, c, st)
  PROVE  AgreesOn(Append(s, rec), c, st)
<1> DEFINE t == Append(s, rec)
<1>1. About(t, c) = About(s, c) /\ \A kind : Of(t, c, kind) = Of(s, c, kind)
  BY AboutElsewhere
<1>2. \A i \in About(s, c) : t[i] = s[i]
  <2>1. About(s, c) \subseteq DOMAIN s
    BY Zenon DEF About
  <2> QED
    BY <2>1, Appended
<1>3. ObjectsAgree(t, c, st)
  <2>1. Of(t, c, "object") = Of(s, c, "object") /\ ObjectsAgree(s, c, st)
    BY <1>1 DEF AgreesOn
  <2> QED
    BY <2>1, ObjectsKept
<1> HIDE DEF t
<1>4. CountsAgree(t, c, st)
  BY <1>1 DEF AgreesOn, CountsAgree
<1>5. DeclineAgrees(t, c, st)
  <2>1. DeclineAgrees(s, c, st)
    BY DEF AgreesOn
  <2>2. CASE st.decline = None /\ \A i \in About(s, c) : s[i].record # "decline"
    BY <1>1, <1>2, <2>2 DEF DeclineAgrees
  <2>3. CASE \E d \in About(s, c) :
               /\ s[d].record = "decline" /\ st.decline = [reason |-> s[d].reason]
               /\ s[d].reason \in Reasons
               /\ \A i \in About(s, c) : i # d => s[i].record = "commit"
    <3>1. PICK d \in About(s, c) :
               /\ s[d].record = "decline" /\ st.decline = [reason |-> s[d].reason]
               /\ s[d].reason \in Reasons
               /\ \A i \in About(s, c) : i # d => s[i].record = "commit"
      BY <2>3
    <3>2. t[d] = s[d] /\ d \in About(t, c)
      BY <1>1, <1>2
    <3>3. \A i \in About(t, c) : i # d => t[i].record = "commit"
      BY <1>1, <1>2, <3>1
    <3> QED
      BY <3>1, <3>2, <3>3 DEF DeclineAgrees
  <2> QED
    BY <2>1, <2>2, <2>3, Zenon DEF DeclineAgrees
<1>6. CommitAgrees(t, c, st)
  BY <1>1, <1>2 DEF AgreesOn, CommitAgrees
<1> QED
  BY <1>3, <1>4, <1>5, <1>6 DEF AgreesOn, t

\* What an open collection, and one that has not declined, have not said.
LEMMA NotCommitted ==
  ASSUME NEW s, NEW c, NEW st, CommitAgrees(s, c, st), st.commit = NoCommit
  PROVE  \A i \in About(s, c) : s[i].record # "commit"
BY DEF CommitAgrees

\* A collection without a decline has no decline record in the stream.
LEMMA NotDeclined ==
  ASSUME NEW s, NEW c, NEW st, DeclineAgrees(s, c, st), st.decline = None
  PROVE  \A i \in About(s, c) : s[i].record # "decline"
<1>1. ASSUME NEW r \in Reasons PROVE [reason |-> r] # None
  BY <1>1 DEF Reasons, None
<1> QED
  BY <1>1 DEF DeclineAgrees

\* The last time kept, and each it is compared with, is a number.
LEMMA LastAtIsNumber ==
  ASSUME NEW s \in Seq(Pool), NEW c, NEW st, ObjectsAgree(s, c, st)
  PROVE  st.lastAt \in Int /\ \A i \in Of(s, c, "object") : s[i].at \in Int
<1>1. \A i \in Of(s, c, "object") : s[i] \in Pool /\ s[i].record = "object"
  BY Places
<1>2. \A i \in Of(s, c, "object") : s[i].at \in Int
  BY <1>1, PoolAssumption
<1>3. st.lastAt = 0 \/ \E i \in Of(s, c, "object") : s[i].at = st.lastAt
  BY DEF ObjectsAgree
<1> QED
  BY <1>2, <1>3

\* Emissions leave the decline and the commit of an open collection unsaid.
LEMMA OpenStaysOpen ==
  ASSUME NEW s \in Seq(Pool), NEW rec \in Pool, NEW c, NEW st, NEW st2,
         rec.record \in Emissions, rec.collection = c, AgreesOn(s, c, st),
         st.commit = NoCommit, st.decline = None,
         st2.commit = st.commit, st2.decline = st.decline
  PROVE  DeclineAgrees(Append(s, rec), c, st2) /\ CommitAgrees(Append(s, rec), c, st2)
<1> DEFINE t == Append(s, rec)
           n == Len(s) + 1
<1>1. About(t, c) = About(s, c) \cup {n}
  BY AboutHere DEF Speaks
<1>2. t[n] = rec /\ \A i \in About(s, c) : t[i] = s[i]
  BY Appended, Places
<1>3. \A i \in About(s, c) : s[i].record # "commit" /\ s[i].record # "decline"
  BY NotCommitted, NotDeclined DEF AgreesOn
<1>4. rec.record # "commit" /\ rec.record # "decline"
  BY DEF Emissions
<1> HIDE DEF t, n
<1>5. \A i \in About(t, c) : t[i].record # "commit" /\ t[i].record # "decline"
  BY <1>1, <1>2, <1>3, <1>4
<1> QED
  BY <1>5 DEF t, DeclineAgrees, CommitAgrees

\* An object let in keeps the collection in agreement: it is the last by rank,
\* its name is new and its time is the greatest.
LEMMA ObjectAgrees ==
  ASSUME NEW s \in Seq(Pool), NEW rec \in Pool, NEW c, NEW st, Statements(st),
         rec.record = "object", rec.collection = c, AgreesOn(s, c, st),
         st.commit = NoCommit, st.decline = None, ~(rec.at < st.lastAt),
         \A i \in DOMAIN st.objects : st.objects[i] # rec.name
  PROVE  AgreesOn(Append(s, rec), c, Say(st, rec))
<1> DEFINE t == Append(s, rec)
           n == Len(s) + 1
           st2 == Say(st, rec)
           said == Of(s, c, "object")
<1>1. /\ st2.objects = Append(st.objects, rec.name) /\ st2.lastAt = rec.at
      /\ st2.assertions = st.assertions /\ st2.unobservables = st.unobservables
      /\ st2.commit = st.commit /\ st2.decline = st.decline
  BY SayObject
<1> HIDE DEF st2
<1>2. Of(t, c, "object") = said \cup {n}
  BY AboutHere DEF Speaks, Emissions
<1>3. /\ Of(t, c, "relation_assertion") = Of(s, c, "relation_assertion")
      /\ Of(t, c, "unobservable") = Of(s, c, "unobservable")
  BY AboutHere DEF Speaks, Emissions
<1>4. /\ t[n] = rec /\ n \in Nat
      /\ \A i \in said : t[i] = s[i] /\ i < n /\ i \in Nat
  BY Appended, Places
<1>5. said \in SUBSET Nat /\ IsFiniteSet(said) /\ Cardinality(said) \in Nat
  BY Places
<1>6. /\ st.lastAt \in Int /\ rec.at \in Int
      /\ \A i \in said : s[i].at \in Int
  <2>1. ObjectsAgree(s, c, st)
    BY DEF AgreesOn
  <2>2. rec.at \in Int
    BY PoolAssumption
  <2> QED
    BY <2>1, <2>2, LastAtIsNumber
<1>7. /\ st.objects \in Seq(Names) /\ Len(st.objects) = Cardinality(said)
      /\ \A i \in said : st.objects[Rank(said, i)] = s[i].name
      /\ \A i, j \in said : i < j => s[i].name # s[j].name /\ s[i].at <= s[j].at
      /\ \A i \in said : s[i].at <= st.lastAt
  BY DEF AgreesOn, ObjectsAgree
<1>8. DeclineAgrees(t, c, st2) /\ CommitAgrees(t, c, st2)
  <2>1. rec.record \in Emissions
    BY DEF Emissions
  <2> QED
    BY <1>1, <2>1, OpenStaysOpen
<1>9. CountsAgree(t, c, st2)
  BY <1>1, <1>3 DEF AgreesOn, CountsAgree
<1> HIDE DEF t, n, said
<1> DEFINE all == said \cup {n}
<1>10. /\ Cardinality(all) = Cardinality(said) + 1
       /\ \A i \in said : Rank(all, i) = Rank(said, i)
       /\ Rank(all, n) = Cardinality(said) + 1
  BY <1>4, <1>5, RankExtends
<1>11. \A i \in said : Rank(said, i) \in 1..Cardinality(said)
  BY <1>5, RankOf
<1>12. st2.objects \in Seq(Names) /\ Len(st2.objects) = Cardinality(all)
  <2>1. rec.name \in Names
    BY Zenon DEF Names
  <2> QED
    BY <1>1, <1>7, <1>10, <2>1
<1>13. ASSUME NEW i \in said PROVE st2.objects[Rank(all, i)] = t[i].name
  <2>1. Rank(said, i) \in 1..Len(st.objects)
    BY <1>7, <1>11
  <2>2. Append(st.objects, rec.name)[Rank(said, i)] = st.objects[Rank(said, i)]
    BY <1>7, <2>1
  <2> QED
    BY <1>1, <1>4, <1>7, <1>10, <2>2
<1>14. st2.objects[Rank(all, n)] = t[n].name
  <2>1. Append(st.objects, rec.name)[Len(st.objects) + 1] = rec.name
    BY <1>7
  <2> QED
    BY <1>1, <1>4, <1>7, <1>10, <2>1
<1>15. ASSUME NEW i \in said PROVE s[i].name # rec.name /\ s[i].at <= rec.at
  <2>1. Rank(said, i) \in DOMAIN st.objects
    BY <1>7, <1>11
  <2>2. s[i].name # rec.name
    BY <1>7, <2>1
  <2>3. s[i].at <= st.lastAt /\ s[i].at \in Int
    BY <1>6, <1>7
  <2> QED
    BY <1>6, <2>2, <2>3
<1>16. ASSUME NEW i \in all, NEW j \in all, i < j
       PROVE  t[i].name # t[j].name /\ t[i].at <= t[j].at
  <2>1. i \in said
    BY <1>4, <1>16
  <2>2. CASE j \in said
    BY <1>4, <1>7, <1>16, <2>1, <2>2
  <2>3. CASE j = n
    BY <1>4, <1>15, <2>1, <2>3
  <2> QED
    BY <2>2, <2>3
<1>17. \A i \in all : t[i].at <= st2.lastAt
  BY <1>1, <1>4, <1>6, <1>15
<1>18. \E i \in all : t[i].at = st2.lastAt
  BY <1>1, <1>4
<1>19. ObjectsAgree(t, c, st2)
  <2>1. Of(t, c, "object") = all
    BY <1>2
  <2>2. \A i \in all : st2.objects[Rank(all, i)] = t[i].name
    BY <1>13, <1>14
  <2> HIDE DEF all
  <2> QED
    BY <1>12, <1>16, <1>17, <1>18, <2>1, <2>2, Zenon DEF ObjectsAgree
<1> QED
  BY <1>8, <1>9, <1>19 DEF AgreesOn, t, st2

\* So does a relation assertion or an unobservable: one more of its kind.
LEMMA AsideAgrees ==
  ASSUME NEW s \in Seq(Pool), NEW rec \in Pool, NEW c, NEW st, Statements(st),
         rec.record \in {"relation_assertion", "unobservable"}, rec.collection = c,
         AgreesOn(s, c, st), st.commit = NoCommit, st.decline = None
  PROVE  AgreesOn(Append(s, rec), c, Say(st, rec))
<1> DEFINE t == Append(s, rec)
           n == Len(s) + 1
           st2 == Say(st, rec)
           R(u) == Of(u, c, "relation_assertion")
           U(u) == Of(u, c, "unobservable")
<1>1. /\ st2.objects = st.objects /\ st2.lastAt = st.lastAt
      /\ st2.commit = st.commit /\ st2.decline = st.decline
  BY SayOther
<1>2. DeclineAgrees(t, c, st2) /\ CommitAgrees(t, c, st2)
  <2>1. rec.record \in Emissions
    BY DEF Emissions
  <2> HIDE DEF st2
  <2> QED
    BY <1>1, <2>1, OpenStaysOpen
<1>3. ObjectsAgree(t, c, st2)
  <2>1. Of(t, c, "object") = Of(s, c, "object")
    BY AboutHere DEF Speaks, Emissions
  <2>2. ObjectsAgree(s, c, st)
    BY DEF AgreesOn
  <2> HIDE DEF st2
  <2> QED
    BY <1>1, <2>1, <2>2, ObjectsKept
<1>4. n \in Nat /\ n \notin R(s) /\ n \notin U(s)
  BY Appended, Places
<1>5. IsFiniteSet(R(s)) /\ IsFiniteSet(U(s))
  BY Places
<1>6. /\ Cardinality(R(s) \cup {n}) = Cardinality(R(s)) + 1
      /\ Cardinality(U(s) \cup {n}) = Cardinality(U(s)) + 1
  <2> HIDE DEF n, R, U
  <2> QED
    BY <1>4, <1>5, FS_AddElement
<1>7. st.assertions = Cardinality(R(s)) /\ st.unobservables = Cardinality(U(s))
  BY DEF AgreesOn, CountsAgree
<1>8. CASE rec.record = "relation_assertion"
  <2>1. R(t) = R(s) \cup {n} /\ U(t) = U(s)
    BY <1>8, AboutHere DEF Speaks, Emissions
  <2>2. st2.assertions = st.assertions + 1 /\ st2.unobservables = st.unobservables
    BY <1>8, SayOther
  <2> HIDE DEF st2, n
  <2>3. st2.assertions = Cardinality(R(t)) /\ st2.unobservables = Cardinality(U(t))
    BY <1>6, <1>7, <2>1, <2>2
  <2>4. CountsAgree(t, c, st2)
    BY <2>3 DEF CountsAgree
  <2> QED
    BY <1>2, <1>3, <2>4 DEF AgreesOn, st2
<1>9. CASE rec.record = "unobservable"
  <2>1. R(t) = R(s) /\ U(t) = U(s) \cup {n}
    BY <1>9, AboutHere DEF Speaks, Emissions
  <2>2. st2.assertions = st.assertions /\ st2.unobservables = st.unobservables + 1
    BY <1>9, SayOther
  <2> HIDE DEF st2, n
  <2>3. st2.assertions = Cardinality(R(t)) /\ st2.unobservables = Cardinality(U(t))
    BY <1>6, <1>7, <2>1, <2>2
  <2>4. CountsAgree(t, c, st2)
    BY <2>3 DEF CountsAgree
  <2> QED
    BY <1>2, <1>3, <2>4 DEF AgreesOn, st2
<1> QED
  BY <1>8, <1>9

-----------------------------------------------------------------------------
(* A record let in keeps its collection in agreement: declines and commits.*)

\* A collection whose counts are nought and that is open was not spoken of.
LEMMA NothingSaid ==
  ASSUME NEW s \in Seq(Pool), NEW c, NEW st, AgreesOn(s, c, st),
         st.commit = NoCommit, st.decline = None,
         st.objects = <<>>, ~(st.assertions + st.unobservables > 0)
  PROVE  About(s, c) = {}
<1>1. Cardinality(Of(s, c, "object")) = 0
  BY DEF AgreesOn, ObjectsAgree
<1>2. /\ Cardinality(Of(s, c, "relation_assertion")) = 0
      /\ Cardinality(Of(s, c, "unobservable")) = 0
  <2>1. /\ Cardinality(Of(s, c, "relation_assertion")) \in Nat
        /\ Cardinality(Of(s, c, "unobservable")) \in Nat
    BY Places
  <2> QED
    BY <2>1 DEF AgreesOn, CountsAgree
<1>3. \A kind : IsFiniteSet(Of(s, c, kind))
  BY Places
<1>4. /\ Of(s, c, "object") = {} /\ Of(s, c, "relation_assertion") = {}
      /\ Of(s, c, "unobservable") = {}
  BY <1>1, <1>2, <1>3, FS_EmptySet
<1>5. \A i \in About(s, c) : s[i].record # "commit" /\ s[i].record # "decline"
  BY NotCommitted, NotDeclined DEF AgreesOn
<1>6. \A i \in About(s, c) : s[i].record \in Emissions \union {"decline", "commit"}
  BY Zenon DEF About
<1>7. \A i \in About(s, c) : /\ s[i].record # "object" /\ s[i].record # "relation_assertion"
                             /\ s[i].record # "unobservable"
  BY <1>4, Zenon DEF Of
<1> QED
  BY <1>5, <1>6, <1>7 DEF Emissions

\* So does a decline: it is the first thing said.
LEMMA DeclineIsAdded ==
  ASSUME NEW s \in Seq(Pool), NEW rec \in Pool, NEW c, NEW st, Statements(st),
         rec.record = "decline", rec.collection = c, rec.reason \in Reasons,
         AgreesOn(s, c, st), st.commit = NoCommit, st.decline = None,
         st.objects = <<>>, ~(st.assertions + st.unobservables > 0)
  PROVE  AgreesOn(Append(s, rec), c, Say(st, rec))
<1> DEFINE t == Append(s, rec)
           n == Len(s) + 1
           st2 == Say(st, rec)
<1>1. /\ st2.objects = st.objects /\ st2.lastAt = st.lastAt
      /\ st2.assertions = st.assertions /\ st2.unobservables = st.unobservables
      /\ st2.commit = st.commit /\ st2.decline = [reason |-> rec.reason]
  BY SayOther
<1> HIDE DEF st2
<1>2. About(s, c) = {}
  BY NothingSaid
<1>3. About(t, c) = {n}
  <2>1. About(t, c) = About(s, c) \cup {n}
    BY AboutHere DEF Speaks
  <2> QED
    BY <1>2, <2>1
<1>4. \A kind : kind # "decline" => Of(t, c, kind) = Of(s, c, kind)
  BY AboutHere DEF Speaks
<1>5. t[n] = rec
  BY Appended
<1>6. ObjectsAgree(t, c, st2)
  <2>1. Of(t, c, "object") = Of(s, c, "object") /\ ObjectsAgree(s, c, st)
    BY <1>4 DEF AgreesOn
  <2> QED
    BY <1>1, <2>1, ObjectsKept
<1> HIDE DEF t, n
<1>7. CountsAgree(t, c, st2)
  BY <1>1, <1>4 DEF AgreesOn, CountsAgree
<1>8. DeclineAgrees(t, c, st2)
  BY <1>1, <1>3, <1>5 DEF DeclineAgrees
<1>9. CommitAgrees(t, c, st2)
  BY <1>1, <1>3, <1>5 DEF CommitAgrees
<1> QED
  BY <1>6, <1>7, <1>8, <1>9 DEF AgreesOn, t, st2

\* So does a commit: it is the last thing said.
LEMMA CommitIsAdded ==
  ASSUME NEW s \in Seq(Pool), NEW rec \in Pool, NEW c, NEW st, Statements(st),
         rec.record = "commit", rec.collection = c, ~(rec.objects < 0),
         AgreesOn(s, c, st), st.commit = NoCommit
  PROVE  AgreesOn(Append(s, rec), c, Say(st, rec))
<1> DEFINE t == Append(s, rec)
           n == Len(s) + 1
           st2 == Say(st, rec)
           counts == [objects |-> rec.objects, assertions |-> rec.assertions,
                      unobservable |-> rec.unobservable]
<1>1. /\ st2.objects = st.objects /\ st2.lastAt = st.lastAt
      /\ st2.assertions = st.assertions /\ st2.unobservables = st.unobservables
      /\ st2.decline = st.decline /\ st2.commit = counts
  BY SayOther
<1>2. counts # NoCommit
  <2>1. rec.objects \in Int
    BY PoolAssumption
  <2>2. counts.objects # NoCommit.objects
    BY <2>1 DEF NoCommit
  <2> HIDE DEF counts
  <2> QED
    BY <2>2
<1>3. About(t, c) = About(s, c) \cup {n}
  BY AboutHere DEF Speaks
<1>4. \A kind : kind # "commit" => Of(t, c, kind) = Of(s, c, kind)
  BY AboutHere DEF Speaks
<1>5. t[n] = rec /\ \A i \in About(s, c) : t[i] = s[i] /\ i < n /\ i \in Nat
  <2>1. About(s, c) \subseteq DOMAIN s
    BY Zenon DEF About
  <2> QED
    BY <2>1, Appended
<1>6. n \in Nat
  BY Appended
<1> HIDE DEF st2
<1>7. ObjectsAgree(t, c, st2)
  <2>1. Of(t, c, "object") = Of(s, c, "object") /\ ObjectsAgree(s, c, st)
    BY <1>4 DEF AgreesOn
  <2> QED
    BY <1>1, <2>1, ObjectsKept
<1> HIDE DEF t, n
<1>8. CountsAgree(t, c, st2)
  BY <1>1, <1>4 DEF AgreesOn, CountsAgree
<1>9. DeclineAgrees(t, c, st2)
  <2>1. DeclineAgrees(s, c, st)
    BY DEF AgreesOn
  <2>2. CASE st.decline = None /\ \A i \in About(s, c) : s[i].record # "decline"
    <3>1. \A i \in About(t, c) : t[i].record # "decline"
      BY <1>3, <1>5, <2>2
    <3> QED
      BY <1>1, <2>2, <3>1 DEF DeclineAgrees
  <2>3. CASE \E d \in About(s, c) :
               /\ s[d].record = "decline" /\ st.decline = [reason |-> s[d].reason]
               /\ s[d].reason \in Reasons
               /\ \A i \in About(s, c) : i # d => s[i].record = "commit"
    <3>1. PICK d \in About(s, c) :
               /\ s[d].record = "decline" /\ st.decline = [reason |-> s[d].reason]
               /\ s[d].reason \in Reasons
               /\ \A i \in About(s, c) : i # d => s[i].record = "commit"
      BY <2>3
    <3>2. t[d] = s[d] /\ d \in About(t, c)
      BY <1>3, <1>5
    <3>3. \A i \in About(t, c) : i # d => t[i].record = "commit"
      BY <1>3, <1>5, <3>1
    <3> QED
      BY <1>1, <3>1, <3>2, <3>3 DEF DeclineAgrees
  <2> QED
    BY <2>1, <2>2, <2>3, Zenon DEF DeclineAgrees
<1>10. CommitAgrees(t, c, st2)
  <2>1. \A i \in About(s, c) : s[i].record # "commit"
    BY NotCommitted DEF AgreesOn
  <2>2. \A i \in About(t, c) : i <= n /\ (i # n => t[i].record # "commit")
    BY <1>3, <1>5, <1>6, <2>1
  <2>3. n \in About(t, c) /\ t[n].record = "commit"
    BY <1>3, <1>5
  <2>4. st2.commit # NoCommit
        /\ st2.commit = [objects |-> t[n].objects, assertions |-> t[n].assertions,
                         unobservable |-> t[n].unobservable]
    BY <1>1, <1>2, <1>5
  <2> QED
    BY <2>2, <2>3, <2>4, Zenon DEF CommitAgrees
<1> QED
  BY <1>7, <1>8, <1>9, <1>10 DEF AgreesOn, t, st2

\* Before the first record.
LEMMA EmptyAgrees ==
  ASSUME NEW c PROVE Statements(EmptyStream) /\ AgreesOn(<<>>, c, EmptyStream)
<1>1. About(<<>>, c) = {}
  BY DEF About
<1>2. \A kind : Of(<<>>, c, kind) = {}
  BY <1>1, Zenon DEF Of
<1>3. Cardinality({}) = 0
  BY FS_EmptySet
<1>4. ObjectsAgree(<<>>, c, EmptyStream)
  <2>1. EmptyStream.objects = <<>> /\ EmptyStream.lastAt = 0
    BY DEF EmptyStream
  <2>2. <<>> \in Seq(Names) /\ Len(<<>>) = 0
    OBVIOUS
  <2> QED
    BY <1>2, <1>3, <2>1, <2>2 DEF ObjectsAgree
<1>5. CountsAgree(<<>>, c, EmptyStream)
  BY <1>2, <1>3 DEF CountsAgree, EmptyStream
<1>6. DeclineAgrees(<<>>, c, EmptyStream)
  BY <1>1 DEF DeclineAgrees, EmptyStream
<1>7. CommitAgrees(<<>>, c, EmptyStream)
  BY <1>1 DEF CommitAgrees, EmptyStream
<1>8. Statements(EmptyStream)
  BY DEF Statements, EmptyStream
<1> QED
  BY <1>4, <1>5, <1>6, <1>7, <1>8 DEF AgreesOn

-----------------------------------------------------------------------------
(* The whole batch.                                                        *)

\* What an unviolated batch has to do with the records it was read from.
Agrees(s, b) ==
  /\ Shape(b)
  /\ \A i \in DOMAIN s : s[i].sound /\ ((s[i].record = "begin") = (i = 1))
                         /\ (s[i].record = "end" => i = Len(s))
  /\ b.seenBegin = (Len(s) # 0)
  /\ b.seenEnd = (Len(s) # 0 /\ s[Len(s)].record = "end")
  /\ Len(s) # 0 => b.begin = <<s[1].request, s[1].batch>>
  /\ b.seenEnd => /\ b.end = <<s[Len(s)].request, s[Len(s)].batch>>
                  /\ b.wall = IF "wall_ms" \in DOMAIN s[Len(s)].has THEN s[Len(s)].wall_ms ELSE 0
  /\ \A c \in DOMAIN Issued : AgreesOn(s, c, b.collections[c])

\* What a record's own rules conclude, in the terms the batch rules use.
LEMMA PoolSoundness ==
  ASSUME NEW rec \in Pool, OwnRules(rec) = ""
  PROVE  /\ rec.sound
         /\ rec.record \in {"begin", "object", "relation_assertion", "unobservable",
                            "decline", "commit", "end"}
         /\ Speaks(rec) => rec.collection \in DOMAIN Issued
         /\ rec.record = "object" => rec.at \in Int /\ rec.at > 0
         /\ rec.record = "decline" => rec.reason \in Reasons
         /\ rec.record = "commit" => ~(rec.objects < 0)
<1>1. rec.sound
  BY PoolAssumption
<1>2. rec.record \in {"begin", "object", "relation_assertion", "unobservable",
                      "decline", "commit", "end"}
  BY SoundKinds
<1>3. ASSUME rec.record = "object"
      PROVE  rec.collection \in DOMAIN Issued /\ rec.at \in Int /\ rec.at > 0
  <2>1. parseObject(rec, Issued) = ""
    BY <1>3 DEF OwnRules
  <2> QED
    BY <1>3, <2>1, SoundObject, PoolAssumption
<1>4. ASSUME rec.record = "relation_assertion" PROVE rec.collection \in DOMAIN Issued
  <2>1. parseRelation(rec, Issued) = ""
    BY <1>4 DEF OwnRules
  <2> QED
    BY <2>1, SoundRelation
<1>5. ASSUME rec.record = "unobservable" PROVE rec.collection \in DOMAIN Issued
  <2>1. parseUnobservable(rec, Issued) = ""
    BY <1>5 DEF OwnRules
  <2> QED
    BY <2>1, SoundUnobservable
<1>6. ASSUME rec.record = "decline"
      PROVE  rec.collection \in DOMAIN Issued /\ rec.reason \in Reasons
  <2>1. parseDecline(rec, Issued) = ""
    BY <1>6 DEF OwnRules
  <2> QED
    BY <2>1, SoundDecline
<1>7. ASSUME rec.record = "commit"
      PROVE  rec.collection \in DOMAIN Issued /\ ~(rec.objects < 0)
  <2>1. parseCommit(rec, Issued) = ""
    BY <1>7 DEF OwnRules
  <2> QED
    BY <2>1, SoundCommit
<1> QED
  BY <1>1, <1>2, <1>3, <1>4, <1>5, <1>6, <1>7 DEF Speaks, Emissions

\* The loop's guards.
Early(b, rec) == /\ rec.record # "torn" /\ rec.record # "none"
                 /\ ~b.seenEnd /\ (b.seenBegin \/ rec.record = "begin")

\* Void is a violation whenever it is given a reason.
LEMMA VoidViolates ==
  ASSUME NEW b, Whole(b), NEW reason
  PROVE  Void(b, reason).violation = reason /\ Void(b, reason).collections = b.collections
         /\ Whole(Void(b, reason))
<1> DEFINE p == b.violation
           q == b.seenBegin
           r == b.seenEnd
           s == b.begin
           t == b.end
           u == b.wall
           v == b.collections
<1>1. b = [violation |-> p, seenBegin |-> q, seenEnd |-> r, begin |-> s, end |-> t,
           wall |-> u, collections |-> v]
  BY DEF Whole
<1> HIDE DEF p, q, r, s, t, u, v
<1>2. Void(b, reason) = [violation |-> reason, seenBegin |-> q, seenEnd |-> r, begin |-> s,
                         end |-> t, wall |-> u, collections |-> v]
  BY <1>1 DEF Void
<1>3. /\ Void(b, reason).violation = reason /\ Void(b, reason).seenBegin = q
      /\ Void(b, reason).seenEnd = r /\ Void(b, reason).begin = s
      /\ Void(b, reason).end = t /\ Void(b, reason).wall = u /\ Void(b, reason).collections = v
  BY <1>2
<1>4. Whole(Void(b, reason))
  BY <1>2, <1>3 DEF Whole
<1> QED
  BY <1>3, <1>4 DEF v

\* Receive refuses the record, or adds it.
LEMMA ReceiveCases ==
  ASSUME NEW b, Shape(b), b.violation = "", NEW rec
  PROVE  /\ Receive(b, rec, Issued).violation = "" <=>
              Early(b, rec) /\ Rejection(b, rec, Issued) = "" /\ Add(b, rec).violation = ""
         /\ Receive(b, rec, Issued).violation = "" => Receive(b, rec, Issued) = Add(b, rec)
         /\ \/ \E reason : Receive(b, rec, Issued) = Void(b, reason)
            \/ Receive(b, rec, Issued) = Add(b, rec) /\ Rejection(b, rec, Issued) = ""
<1> DEFINE p == When(rec.record = "torn", "unparseable-record")
           q == When(rec.record = "none", "missing-record-discriminator")
           r == When(b.seenEnd, "record-after-end")
           s == When(~b.seenBegin /\ rec.record # "begin", "begin-not-first")
           early == First(<<p, q, r, s>>)
           refused == Rejection(b, rec, Issued)
           nb == Receive(b, rec, Issued)
           added == Add(b, rec)
<1>1. nb = IF early # "" THEN Void(b, early)
           ELSE IF refused # "" THEN Void(b, refused) ELSE added
  BY DEF Receive, Take
<1>2. p = "" <=> rec.record # "torn"
  BY DEF When
<1>3. q = "" <=> rec.record # "none"
  BY DEF When
<1>4. r = "" <=> ~b.seenEnd
  BY DEF When
<1>5. s = "" <=> (b.seenBegin \/ rec.record = "begin")
  BY DEF When
<1> HIDE DEF p, q, r, s, refused, nb, added
<1>6. IsList(<<p, q, r, s>>) /\ (Passes(<<p, q, r, s>>) <=> p = "" /\ q = "" /\ r = "" /\ s = "")
  BY Lists
<1>7. early = "" <=> Passes(<<p, q, r, s>>)
  BY <1>6, FirstPasses
<1>8. early = "" <=> Early(b, rec)
  BY <1>2, <1>3, <1>4, <1>5, <1>6, <1>7, Zenon DEF Early
<1> HIDE DEF early
<1>9. /\ Void(b, early).violation = early /\ Void(b, refused).violation = refused
  BY VoidViolates DEF Shape
<1>10. nb.violation = "" <=> early = "" /\ refused = "" /\ added.violation = ""
  BY <1>1, <1>9
<1>11. nb.violation = "" => nb = added
  BY <1>1, <1>10
<1>12. (\E reason : nb = Void(b, reason)) \/ (nb = added /\ refused = "")
  BY <1>1, Zenon
<1> QED
  BY <1>8, <1>10, <1>11, <1>12, Zenon DEF nb, refused, added

\* Adding a record violates nothing.
LEMMA AddKeepsUnviolated ==
  ASSUME NEW b, Shape(b), NEW rec \in Pool, OwnRules(rec) = ""
  PROVE  Add(b, rec).violation = b.violation /\ Shape(Add(b, rec))
<1>1. CASE rec.record = "begin"
  BY <1>1, AddBegin DEF SameStatements
<1>2. CASE rec.record = "end"
  BY <1>2, AddEnd DEF SameStatements
<1>3. CASE Speaks(rec)
  <2>1. rec.record \in {"object", "relation_assertion", "unobservable", "decline", "commit"}
    BY <1>3 DEF Speaks, Emissions
  <2>2. rec.collection \in DOMAIN Issued
    BY <1>3, PoolSoundness
  <2> QED
    BY <2>1, <2>2, AddAbout DEF OnlyChanges
<1>4. rec.record \in {"begin", "object", "relation_assertion", "unobservable",
                      "decline", "commit", "end"}
  BY PoolSoundness
<1> QED
  BY <1>1, <1>2, <1>3, <1>4 DEF Speaks, Emissions

\* No record yet, or at least one.
LEMMA Lengths ==
  ASSUME NEW s \in Seq(Pool)
  PROVE  /\ Len(s) \in Nat /\ Len(s) + 1 \in Nat /\ (Len(s) + 1 = 1 <=> Len(s) = 0)
         /\ Len(s) + 1 # 0
         /\ (Len(s) # 0 => Len(s) \in DOMAIN s /\ 1 \in DOMAIN s)
         /\ (Len(s) = 0 => DOMAIN s = {})
<1>1. Len(s) \in Nat /\ DOMAIN s = 1..Len(s)
  OBVIOUS
<1> QED
  BY <1>1

\* Receive accepts exactly a sound record in its place; otherwise it leaves the
\* collections alone.
LEMMA ReceiveAccepts ==
  ASSUME NEW b, Shape(b), b.violation = "", NEW rec \in Pool
  PROVE  LET nb == Receive(b, rec, Issued)
         IN /\ nb.violation = "" <=> Early(b, rec) /\ Rejection(b, rec, Issued) = ""
            /\ nb.violation = "" => nb = Add(b, rec) /\ OwnRules(rec) = ""
            /\ DOMAIN nb.collections = DOMAIN Issued
<1> DEFINE nb == Receive(b, rec, Issued)
           added == Add(b, rec)
           refused == Rejection(b, rec, Issued)
<1>1. /\ nb.violation = "" <=> Early(b, rec) /\ refused = "" /\ added.violation = ""
      /\ nb.violation = "" => nb = added
      /\ (\E reason : nb = Void(b, reason)) \/ (nb = added /\ refused = "")
  BY ReceiveCases
<1>2. ASSUME refused = "" PROVE OwnRules(rec) = "" /\ added.violation = "" /\ Shape(added)
  <2>1. OwnRules(rec) = ""
    BY <1>2, NotRefusedIsSound
  <2>3. Add(b, rec).violation = b.violation /\ Shape(Add(b, rec))
    BY <2>1, AddKeepsUnviolated
  <2> QED
    BY <2>1, <2>3
<1>3. ASSUME NEW reason PROVE Void(b, reason).collections = b.collections
  BY VoidViolates DEF Shape
<1>4. DOMAIN b.collections = DOMAIN Issued
  BY DEF Shape
<1> HIDE DEF nb, added, refused
<1>5. ASSUME Shape(added) PROVE DOMAIN added.collections = DOMAIN Issued
  BY <1>5 DEF Shape
<1>6. nb.violation = "" <=> Early(b, rec) /\ refused = ""
  BY <1>1, <1>2
<1>7. nb.violation = "" => nb = added /\ OwnRules(rec) = "" /\ Shape(added)
  BY <1>1, <1>2, <1>6
<1>8. DOMAIN nb.collections = DOMAIN Issued
  <2>1. CASE \E reason : nb = Void(b, reason)
    BY <1>3, <1>4, <2>1
  <2>2. CASE nb = added /\ refused = ""
    BY <1>2, <1>5, <2>2
  <2> QED
    BY <1>1, <2>1, <2>2
<1> QED
  BY <1>6, <1>7, <1>8 DEF nb, added, refused

\* A record that is taken in keeps the batch in agreement with the stream.
LEMMA ReceiveAgrees ==
  ASSUME NEW s \in Seq(Pool), NEW b, Agrees(s, b), b.violation = "", NEW rec \in Pool,
         Receive(b, rec, Issued).violation = ""
  PROVE  Agrees(Append(s, rec), Receive(b, rec, Issued))
<1> DEFINE t == Append(s, rec)
           n == Len(s) + 1
           nb == Receive(b, rec, Issued)
           c == rec.collection
<1>1. /\ nb = Add(b, rec) /\ Early(b, rec) /\ Rejection(b, rec, Issued) = "" /\ OwnRules(rec) = ""
  BY ReceiveAccepts DEF Agrees
<1>2. /\ rec.sound
      /\ rec.record \in {"begin", "object", "relation_assertion", "unobservable",
                         "decline", "commit", "end"}
      /\ Speaks(rec) => c \in DOMAIN Issued
      /\ rec.record = "object" => rec.at \in Int /\ rec.at > 0
      /\ rec.record = "decline" => rec.reason \in Reasons
      /\ rec.record = "commit" => ~(rec.objects < 0)
  BY <1>1, PoolSoundness
<1>3. /\ t \in Seq(Pool) /\ Len(s) \in Nat /\ DOMAIN s = 1..Len(s) /\ Len(t) = n
      /\ DOMAIN t = DOMAIN s \cup {n} /\ n \notin DOMAIN s /\ t[n] = rec
      /\ \A i \in DOMAIN s : t[i] = s[i] /\ i < n /\ i \in Nat
  BY Appended
<1>4. /\ Shape(b) /\ DOMAIN b.collections = DOMAIN Issued
      /\ \A i \in DOMAIN s : s[i].sound /\ ((s[i].record = "begin") = (i = 1))
                              /\ (s[i].record = "end" => i = Len(s))
      /\ b.seenBegin = (Len(s) # 0)
      /\ b.seenEnd = (Len(s) # 0 /\ s[Len(s)].record = "end")
      /\ Len(s) # 0 => b.begin = <<s[1].request, s[1].batch>>
      /\ \A d \in DOMAIN Issued : AgreesOn(s, d, b.collections[d])
  BY DEF Agrees, Shape
<1>5. ~b.seenEnd /\ (b.seenBegin \/ rec.record = "begin")
  BY <1>1 DEF Early
<1>6. rec.record = "begin" => Len(s) = 0
  <2>1. rec.record = "begin" => ~b.seenBegin
    BY <1>1, BeginRejection
  <2> QED
    BY <1>4, <2>1
<1>7. rec.record # "begin" => Len(s) # 0
  BY <1>4, <1>5
<1>13. Len(s) \in Nat /\ n \in Nat /\ (n = 1 <=> Len(s) = 0) /\ n # 0
      /\ (Len(s) # 0 => Len(s) \in DOMAIN s /\ 1 \in DOMAIN s)
      /\ (Len(s) = 0 => DOMAIN s = {})
  BY Lengths
<1>14. Shape(b) /\ nb = Add(b, rec)
  BY <1>1, <1>4
<1> HIDE DEF t, nb, c, n
<1>8. \A i \in DOMAIN t : t[i].sound /\ ((t[i].record = "begin") = (i = 1))
                           /\ (t[i].record = "end" => i = n)
  <2> SUFFICES ASSUME NEW i \in DOMAIN t
               PROVE  /\ t[i].sound /\ ((t[i].record = "begin") = (i = 1))
                      /\ (t[i].record = "end" => i = n)
    OBVIOUS
  <2>1. CASE i = n
    BY <1>2, <1>3, <1>6, <1>7, <1>13, <2>1
  <2>2. CASE i \in DOMAIN s
    <3>1. t[i] = s[i] /\ s[i].sound /\ ((s[i].record = "begin") = (i = 1))
          /\ (s[i].record = "end" => i = Len(s))
      BY <1>3, <1>4, <2>2
    <3>2. s[i].record # "end"
      <4> SUFFICES ASSUME s[i].record = "end" PROVE FALSE
        OBVIOUS
      <4>1. i = Len(s) /\ Len(s) # 0
        BY <1>13, <2>2, <3>1
      <4> QED
        BY <1>4, <1>5, <4>1
    <3> QED
      BY <3>1, <3>2
  <2> QED
    BY <1>3, <2>1, <2>2
<1>9. Len(t) # 0 /\ t[Len(t)] = rec /\ (Len(s) # 0 => t[1] = s[1])
  BY <1>3, <1>13
<1>10. CASE rec.record = "begin"
  <2>1. /\ SameStatements(b, nb)
        /\ nb.seenBegin = TRUE /\ nb.begin = <<rec.request, rec.batch>> /\ nb.seenEnd = b.seenEnd
    BY <1>10, <1>14, AddBegin
  <2>2. t[1] = rec
    BY <1>3, <1>6, <1>10, <1>13
  <2>3. \A d \in DOMAIN Issued : AgreesOn(t, d, nb.collections[d])
    <3> SUFFICES ASSUME NEW d \in DOMAIN Issued PROVE AgreesOn(t, d, nb.collections[d])
      OBVIOUS
    <3>1. ~Speaks(rec)
      BY <1>10 DEF Speaks, Emissions
    <3>2. nb.collections[d] = b.collections[d] /\ AgreesOn(s, d, b.collections[d])
      BY <1>4, <2>1 DEF SameStatements
    <3> QED
      BY <3>1, <3>2, AgreesElsewhere DEF t
  <2>4. nb.seenEnd = FALSE
    BY <1>5, <2>1, <1>4
  <2> QED
    BY <1>3, <1>8, <1>9, <1>10, <2>1, <2>2, <2>3, <2>4 DEF Agrees, SameStatements, t, nb
<1>11. CASE rec.record = "end"
  <2>1. /\ SameStatements(b, nb)
        /\ nb.seenEnd = TRUE /\ nb.end = <<rec.request, rec.batch>>
        /\ nb.wall = IF "wall_ms" \in DOMAIN rec.has THEN rec.wall_ms ELSE 0
        /\ nb.seenBegin = b.seenBegin /\ nb.begin = b.begin
    BY <1>11, <1>14, AddEnd
  <2>2. Len(s) # 0
    BY <1>7, <1>11
  <2>3. \A d \in DOMAIN Issued : AgreesOn(t, d, nb.collections[d])
    <3> SUFFICES ASSUME NEW d \in DOMAIN Issued PROVE AgreesOn(t, d, nb.collections[d])
      OBVIOUS
    <3>1. ~Speaks(rec)
      BY <1>11 DEF Speaks, Emissions
    <3>2. nb.collections[d] = b.collections[d] /\ AgreesOn(s, d, b.collections[d])
      BY <1>4, <2>1 DEF SameStatements
    <3> QED
      BY <3>1, <3>2, AgreesElsewhere DEF t
  <2>4. nb.seenBegin = TRUE /\ nb.begin = <<t[1].request, t[1].batch>>
    BY <1>4, <1>9, <2>1, <2>2
  <2> QED
    BY <1>3, <1>8, <1>9, <1>11, <2>1, <2>3, <2>4 DEF Agrees, SameStatements, t, nb
<1>12. CASE Speaks(rec)
  <2>1. rec.record \in {"object", "relation_assertion", "unobservable", "decline", "commit"}
    BY <1>12 DEF Speaks, Emissions
  <2>2. c \in DOMAIN Issued
    BY <1>2, <1>12
  <2>3. OnlyChanges(b, nb, c) /\ nb.collections[c] = Say(b.collections[c], rec)
    BY <1>14, <2>1, <2>2, AddAbout DEF c
  <2> DEFINE st == b.collections[c]
  <2>4. Statements(st) /\ AgreesOn(s, c, st)
    BY <1>4, <2>2 DEF Shape
  <2>5. AgreesOn(t, c, Say(st, rec))
    <3>1. CASE rec.record = "object"
      <4>1. /\ st.commit = NoCommit /\ st.decline = None /\ ~(rec.at < st.lastAt)
            /\ \A i \in DOMAIN st.objects : st.objects[i] # rec.name
        BY <1>1, <1>4, <2>2, <3>1, ObjectRejection DEF c
      <4> HIDE DEF st
      <4> QED
        BY <2>4, <3>1, <4>1, ObjectAgrees DEF c, t
    <3>2. CASE rec.record \in {"relation_assertion", "unobservable"}
      <4>1. st.commit = NoCommit /\ st.decline = None
        BY <1>1, <1>4, <2>2, <3>2, AsideRejection DEF c
      <4> HIDE DEF st
      <4> QED
        BY <2>4, <3>2, <4>1, AsideAgrees DEF c, t
    <3>3. CASE rec.record = "decline"
      <4>1. /\ st.commit = NoCommit /\ st.decline = None
            /\ st.objects = <<>> /\ ~(st.assertions + st.unobservables > 0)
        BY <1>1, <1>4, <2>2, <3>3, DeclineRejection DEF c
      <4> HIDE DEF st
      <4> QED
        BY <1>2, <2>4, <3>3, <4>1, DeclineIsAdded DEF c, t
    <3>4. CASE rec.record = "commit"
      <4>1. st.commit = NoCommit
        BY <1>1, <1>4, <2>2, <3>4, CommitRejection DEF c
      <4> HIDE DEF st
      <4> QED
        BY <1>2, <2>4, <3>4, <4>1, CommitIsAdded DEF c, t
    <3> QED
      BY <2>1, <3>1, <3>2, <3>3, <3>4
  <2>6. \A d \in DOMAIN Issued : AgreesOn(t, d, nb.collections[d])
    <3> SUFFICES ASSUME NEW d \in DOMAIN Issued PROVE AgreesOn(t, d, nb.collections[d])
      OBVIOUS
    <3>1. CASE d = c
      BY <2>3, <2>5, <3>1
    <3>2. CASE d # c
      <4>1. nb.collections[d] = b.collections[d] /\ AgreesOn(s, d, b.collections[d])
        BY <1>4, <2>3, <3>2 DEF OnlyChanges
      <4> QED
        BY <3>2, <4>1, AgreesElsewhere DEF t, c
    <3> QED
      BY <3>1, <3>2
  <2>7. rec.record # "begin" /\ rec.record # "end"
    BY <2>1
  <2>8. Len(s) # 0
    BY <1>7, <2>7
  <2>9. /\ Shape(nb) /\ nb.seenBegin = b.seenBegin /\ nb.seenEnd = b.seenEnd /\ nb.begin = b.begin
    BY <2>3 DEF OnlyChanges
  <2>10. /\ nb.seenBegin = TRUE /\ nb.seenEnd = FALSE
         /\ nb.begin = <<t[1].request, t[1].batch>>
    BY <1>4, <1>5, <1>9, <2>8, <2>9
  <2> QED
    BY <1>3, <1>8, <1>9, <2>6, <2>7, <2>9, <2>10 DEF Agrees, t, nb
<1> QED
  BY <1>2, <1>10, <1>11, <1>12 DEF Speaks, Emissions

-----------------------------------------------------------------------------
(* The other way round: a record of a valid stream is never refused.       *)

\* What the three whole statements and the unfinished one have in common.
LEMMA WholeAnswerSays ==
  ASSUME NEW t, NEW c, WholeAnswer(t, c), NEW i \in About(t, c), NEW j \in About(t, c)
  PROVE  /\ t[i].record = "commit" => j <= i /\ Counted(t, c, t[i])
         /\ t[i].record = "decline" /\ j # i => t[j].record = "commit"
<1> DEFINE said == About(t, c)
           OnlyEmissions(places) == \A p \in places : t[p].record \in Emissions
           Closes(k) == /\ t[k].record = "commit" /\ Counted(t, c, t[k])
                        /\ \A p \in said : p <= k
<1>1. \/ OnlyEmissions(said)
      \/ \E k \in said : Closes(k) /\ OnlyEmissions(said \ {k})
      \/ \E d \in said : /\ said = {d}
                         /\ t[d].record = "decline" /\ t[d].reason # "absent"
      \/ \E d, k \in said : /\ said = {d, k} /\ Closes(k)
                            /\ t[d].record = "decline" /\ t[d].reason = "absent"
  BY Zenon DEF WholeAnswer
<1>2. i \in said /\ j \in said
  OBVIOUS
<1> HIDE DEF said
<1>3. CASE OnlyEmissions(said)
  BY <1>2, <1>3 DEF Emissions
<1>4. CASE \E k \in said : Closes(k) /\ OnlyEmissions(said \ {k})
  <2>1. PICK k \in said : Closes(k) /\ OnlyEmissions(said \ {k})
    BY <1>4
  <2>2. \A p \in said : p # k => t[p].record # "commit" /\ t[p].record # "decline"
    BY <2>1 DEF Emissions
  <2>3. t[k].record # "decline"
    BY <2>1
  <2> QED
    BY <1>2, <2>1, <2>2, <2>3
<1>5. CASE \E d \in said : /\ said = {d}
                           /\ t[d].record = "decline" /\ t[d].reason # "absent"
  <2>1. PICK d \in said : said = {d} /\ t[d].record = "decline"
    BY <1>5
  <2>2. i = d /\ j = d
    BY <1>2, <2>1
  <2> QED
    BY <2>1, <2>2
<1>6. CASE \E d, k \in said : /\ said = {d, k} /\ Closes(k)
                              /\ t[d].record = "decline" /\ t[d].reason = "absent"
  <2>1. PICK d \in said, k \in said : said = {d, k} /\ Closes(k) /\ t[d].record = "decline"
    BY <1>6
  <2>2. (i = d \/ i = k) /\ (j = d \/ j = k)
    BY <1>2, <2>1
  <2>3. t[k].record = "commit" /\ t[k].record # "decline"
    BY <2>1
  <2>4. t[d].record # "commit"
    BY <2>1
  <2>5. t[i].record = "commit" => i = k
    BY <2>2, <2>4
  <2>6. t[i].record = "decline" /\ j # i => j = k
    BY <2>2, <2>3
  <2> QED
    BY <1>2, <2>1, <2>3, <2>5, <2>6
<1> QED
  BY <1>1, <1>3, <1>4, <1>5, <1>6

\* s is what has been read of t so far, and rec is the next record of it.
IsNext(s, rec, t) == /\ t \in Seq(Pool) /\ Len(s) + 1 \in DOMAIN t /\ t[Len(s) + 1] = rec
                     /\ \A i \in DOMAIN s : i \in DOMAIN t /\ t[i] = s[i]

\* What has been said of a collection is a part of what will have been.
LEMMA SaidBefore ==
  ASSUME NEW s \in Seq(Pool), NEW rec \in Pool, NEW t, IsNext(s, rec, t), NEW c
  PROVE  /\ \A i \in About(s, c) : /\ i \in About(t, c) /\ t[i] = s[i]
                                   /\ i \in Nat /\ i < Len(s) + 1
         /\ Speaks(rec) /\ rec.collection = c => Len(s) + 1 \in About(t, c)
         /\ \A kind : Of(s, c, kind) \subseteq Of(t, c, kind)
         /\ Speaks(rec) /\ rec.collection = c => Len(s) + 1 \in Of(t, c, rec.record)
<1> DEFINE n == Len(s) + 1
<1>1. \A i \in DOMAIN s : i \in DOMAIN t /\ t[i] = s[i]
  BY DEF IsNext
<1>2. n \in DOMAIN t /\ t[n] = rec
  BY DEF IsNext
<1>3. \A i \in DOMAIN s : i \in Nat /\ i < n
  BY Appended
<1> HIDE DEF n
<1>4. About(s, c) \subseteq DOMAIN s
  BY Zenon DEF About
<1>5. \A i \in About(s, c) : i \in About(t, c) /\ t[i] = s[i]
  BY <1>1, <1>4, Zenon DEF About
<1>6. Speaks(rec) /\ rec.collection = c => n \in About(t, c)
  BY <1>2, Zenon DEF About, Speaks
<1>7. \A kind : Of(s, c, kind) \subseteq Of(t, c, kind)
  BY <1>5, Zenon DEF Of
<1>8. Speaks(rec) /\ rec.collection = c => n \in Of(t, c, rec.record)
  BY <1>2, <1>6, Zenon DEF Of
<1> QED
  BY <1>3, <1>4, <1>5, <1>6, <1>7, <1>8, Zenon DEF n

\* Nothing that a valid stream goes on to say of a collection is out of place.
LEMMA FitsWhatWasSaid ==
  ASSUME NEW s \in Seq(Pool), NEW rec \in Pool, NEW t, IsNext(s, rec, t), NEW c, NEW st,
         Speaks(rec), rec.collection = c, AgreesOn(s, c, st), WholeAnswer(t, c)
  PROVE  /\ st.commit = NoCommit
         /\ rec.record # "commit" => st.decline = None
         /\ rec.record = "decline" => st.objects = <<>> /\ ~(st.assertions + st.unobservables > 0)
<1> DEFINE n == Len(s) + 1
<1>1. /\ \A i \in About(s, c) : i \in About(t, c) /\ t[i] = s[i] /\ i \in Nat /\ i < n
      /\ n \in About(t, c)
  BY SaidBefore
<1>2. t[n] = rec /\ n \in Nat
  BY Appended DEF IsNext
<1> HIDE DEF n
<1>3. ASSUME NEW i \in About(s, c) PROVE
        /\ s[i].record # "commit"
        /\ s[i].record = "decline" => rec.record = "commit"
        /\ rec.record # "decline"
  <2>1. i \in About(t, c) /\ n \in About(t, c) /\ t[i] = s[i] /\ i \in Nat /\ i < n
    BY <1>1
  <2>2. t[i].record = "commit" => n <= i
    BY <2>1, WholeAnswerSays
  <2>3. t[i].record = "decline" /\ n # i => t[n].record = "commit"
    BY <2>1, WholeAnswerSays
  <2>4. t[n].record = "decline" /\ i # n => t[i].record = "commit"
    BY <2>1, WholeAnswerSays
  <2>5. ~(n <= i) /\ n # i
    BY <1>2, <2>1
  <2> QED
    BY <1>2, <2>1, <2>2, <2>3, <2>4, <2>5
<1>4. st.commit = NoCommit
  BY <1>3 DEF AgreesOn, CommitAgrees
<1>5. rec.record # "commit" => st.decline = None
  <2>1. DeclineAgrees(s, c, st)
    BY DEF AgreesOn
  <2> QED
    BY <1>3, <2>1 DEF DeclineAgrees
<1>6. ASSUME rec.record = "decline"
      PROVE  st.objects = <<>> /\ ~(st.assertions + st.unobservables > 0)
  <2>1. About(s, c) = {}
    BY <1>3, <1>6
  <2>2. \A kind : Of(s, c, kind) = {}
    BY <2>1, Zenon DEF Of
  <2>3. Cardinality({}) = 0
    BY FS_EmptySet
  <2>4. st.objects \in Seq(Names) /\ Len(st.objects) = 0
    BY <2>2, <2>3 DEF AgreesOn, ObjectsAgree
  <2>5. st.assertions = 0 /\ st.unobservables = 0
    BY <2>2, <2>3 DEF AgreesOn, CountsAgree
  <2> QED
    BY <2>4, <2>5
<1> QED
  BY <1>4, <1>5, <1>6

\* An object of a valid stream comes in time order under a new name.
LEMMA ObjectFitsWhatWasSaid ==
  ASSUME NEW s \in Seq(Pool), NEW rec \in Pool, NEW t, IsNext(s, rec, t), NEW c, NEW st,
         rec.record = "object", rec.at > 0, rec.collection = c, AgreesOn(s, c, st),
         \A i, j \in Of(t, c, "object") : i < j => t[i].name # t[j].name /\ t[i].at <= t[j].at
  PROVE  ~(rec.at < st.lastAt) /\ \A k \in DOMAIN st.objects : st.objects[k] # rec.name
<1> DEFINE n == Len(s) + 1
           said == Of(s, c, "object")
<1>1. /\ \A i \in About(s, c) : t[i] = s[i] /\ i < n
      /\ said \subseteq Of(t, c, "object") /\ n \in Of(t, c, "object")
  BY SaidBefore DEF Speaks, Emissions
<1>2. said \subseteq About(s, c) /\ said \in SUBSET Nat /\ IsFiniteSet(said)
  BY Places
<1>3. t[n] = rec
  BY DEF IsNext
<1>4. ObjectsAgree(s, c, st)
  BY DEF AgreesOn
<1>5. st.lastAt \in Int /\ rec.at \in Int /\ \A i \in said : s[i].at \in Int
  BY <1>4, LastAtIsNumber, PoolAssumption
<1>6. /\ st.objects \in Seq(Names) /\ Len(st.objects) = Cardinality(said)
      /\ \A i \in said : st.objects[Rank(said, i)] = s[i].name
      /\ st.lastAt = 0 \/ \E i \in said : s[i].at = st.lastAt
  BY <1>4 DEF ObjectsAgree
<1> HIDE DEF n, said
<1>7. \A i \in said : s[i].name # rec.name /\ s[i].at <= rec.at
  BY <1>1, <1>2, <1>3
<1>8. ~(rec.at < st.lastAt)
  BY <1>5, <1>6, <1>7
<1>9. ASSUME NEW k \in DOMAIN st.objects PROVE st.objects[k] # rec.name
  <2>1. k \in 1..Cardinality(said)
    BY <1>6
  <2>2. PICK i \in said : Rank(said, i) = k
    BY <1>2, <2>1, RankIsOnto
  <2> QED
    BY <1>6, <1>7, <2>2
<1> QED
  BY <1>8, <1>9

\* The next record of a stream is one of its records, at its place.
LEMMA NextIsWithin ==
  ASSUME NEW s \in Seq(Pool), NEW rec, NEW t, IsNext(s, rec, t)
  PROVE  Len(s) # Len(t)
<1>1. t \in Seq(Pool) /\ Len(s) + 1 \in DOMAIN t
  BY DEF IsNext
<1>2. DOMAIN t = 1..Len(t) /\ Len(t) \in Nat /\ Len(s) \in Nat
  BY <1>1
<1> QED
  BY <1>1, <1>2

\* No record of a valid stream is refused.
LEMMA ValidIsTakenIn ==
  ASSUME NEW s \in Seq(Pool), NEW b, Agrees(s, b), b.violation = "", NEW rec \in Pool,
         NEW t, IsNext(s, rec, t), ValidStream(t)
  PROVE  Receive(b, rec, Issued).violation = ""
<1> DEFINE n == Len(s) + 1
           c == rec.collection
           st == b.collections[c]
<1>1. /\ t \in Seq(Pool) /\ n \in DOMAIN t /\ t[n] = rec
      /\ \A i \in DOMAIN s : i \in DOMAIN t /\ t[i] = s[i]
  BY DEF IsNext
<1>2. /\ Len(s) \in Nat /\ n \in Nat /\ (n = 1 <=> Len(s) = 0)
      /\ Len(s) # 0 => Len(s) \in DOMAIN s
  BY Lengths
<1>3. Len(s) # Len(t)
  BY NextIsWithin
<1>4. /\ \A i \in DOMAIN t : t[i].sound
      /\ \A i \in DOMAIN t : (t[i].record = "begin") = (i = 1)
      /\ \A i \in DOMAIN t : (t[i].record = "end") = (i = Len(t))
      /\ \A d \in DOMAIN Issued : WholeAnswer(t, d)
      /\ \A d \in DOMAIN Issued : \A i, j \in Of(t, d, "object") :
           i < j => t[i].name # t[j].name /\ t[i].at <= t[j].at
  BY Zenon DEF ValidStream
<1>5. /\ Shape(b) /\ DOMAIN b.collections = DOMAIN Issued
      /\ b.seenBegin = (Len(s) # 0)
      /\ b.seenEnd = (Len(s) # 0 /\ s[Len(s)].record = "end")
      /\ \A d \in DOMAIN Issued : AgreesOn(s, d, b.collections[d])
  BY DEF Agrees, Shape
<1> HIDE DEF n
<1>6. OwnRules(rec) = ""
  <2>1. rec.sound
    BY <1>1, <1>4
  <2> QED
    BY <2>1, PoolAssumption
<1>7. /\ rec.record \in {"begin", "object", "relation_assertion", "unobservable",
                         "decline", "commit", "end"}
      /\ Speaks(rec) => c \in DOMAIN Issued
      /\ rec.record = "object" => rec.at \in Int /\ rec.at > 0
  BY <1>6, PoolSoundness
<1>8. rec.record = "begin" <=> Len(s) = 0
  BY <1>1, <1>2, <1>4
<1>9. ~b.seenEnd
  <2> SUFFICES ASSUME Len(s) # 0, s[Len(s)].record = "end" PROVE FALSE
    BY <1>5
  <2>1. Len(s) \in DOMAIN t /\ t[Len(s)] = s[Len(s)]
    BY <1>1, <1>2
  <2>2. Len(s) = Len(t)
    BY <1>4, <2>1
  <2> QED
    BY <1>3, <2>2
<1>10. Early(b, rec)
  <2>1. b.seenBegin \/ rec.record = "begin"
    BY <1>5, <1>8
  <2>2. rec.record # "torn" /\ rec.record # "none"
    BY <1>7
  <2> QED
    BY <1>9, <2>1, <2>2 DEF Early
<1>11. Rejection(b, rec, Issued) = ""
  <2>1. CASE rec.record = "begin"
    <3>1. ~b.seenBegin /\ parseBegin(rec, Issued) = ""
      BY <1>5, <1>6, <1>8, <2>1 DEF OwnRules
    <3> QED
      BY <2>1, <3>1, BeginRejection
  <2>2. CASE rec.record = "end"
    BY <1>6, <2>2 DEF Rejection, OwnRules
  <2>3. CASE Speaks(rec)
    <3>1. c \in DOMAIN Issued /\ AgreesOn(s, c, st) /\ WholeAnswer(t, c)
      BY <1>4, <1>5, <1>7, <2>3
    <3>2. c \in DOMAIN b.collections
      BY <1>5, <3>1
    <3>3. \A i, j \in Of(t, c, "object") : i < j => t[i].name # t[j].name /\ t[i].at <= t[j].at
      BY <1>4, <3>1
    <3>4. /\ st.commit = NoCommit
          /\ rec.record # "commit" => st.decline = None
          /\ rec.record = "decline" =>
               st.objects = <<>> /\ ~(st.assertions + st.unobservables > 0)
      <4> HIDE DEF st
      <4> QED
        BY <2>3, <3>1, FitsWhatWasSaid
    <3>5. rec.record \in {"object", "relation_assertion", "unobservable", "decline", "commit"}
      BY <2>3 DEF Speaks, Emissions
    <3>6. CASE rec.record = "object"
      <4>1. ~(rec.at < st.lastAt) /\ \A k \in DOMAIN st.objects : st.objects[k] # rec.name
        <5> HIDE DEF st
        <5> QED
          BY <1>7, <3>1, <3>3, <3>6, ObjectFitsWhatWasSaid
      <4>2. parseObject(rec, Issued) = ""
        BY <1>6, <3>6 DEF OwnRules
      <4>3. st.commit = NoCommit /\ st.decline = None
        BY <3>4, <3>6
      <4> QED
        BY <3>2, <3>6, <4>1, <4>2, <4>3, ObjectRejection
    <3>7. CASE rec.record \in {"relation_assertion", "unobservable"}
      <4>1. st.commit = NoCommit /\ st.decline = None
        BY <3>4, <3>7
      <4> QED
        BY <1>6, <3>2, <3>7, <4>1, AsideRejection
    <3>8. CASE rec.record = "decline"
      <4>1. parseDecline(rec, Issued) = ""
        BY <1>6, <3>8 DEF OwnRules
      <4>2. /\ st.commit = NoCommit /\ st.decline = None
            /\ st.objects = <<>> /\ ~(st.assertions + st.unobservables > 0)
        BY <3>4, <3>8
      <4> QED
        BY <3>2, <3>8, <4>1, <4>2, DeclineRejection
    <3>9. CASE rec.record = "commit"
      <4>1. parseCommit(rec, Issued) = ""
        BY <1>6, <3>9 DEF OwnRules
      <4> QED
        BY <3>2, <3>4, <3>9, <4>1, CommitRejection
    <3> QED
      BY <3>5, <3>6, <3>7, <3>8, <3>9
  <2> QED
    BY <1>7, <2>1, <2>2, <2>3 DEF Speaks, Emissions
<1> QED
  BY <1>5, <1>10, <1>11, ReceiveAccepts

-----------------------------------------------------------------------------
(* The end of the stream.                                                  *)

\* One collection's part of the whole-batch check.
Settled(st) ==
  /\ st.decline.reason = "absent" =>
       st.commit = [objects |-> 0, assertions |-> 0, unobservable |-> 0]
  /\ st.commit # NoCommit =>
       /\ st.decline.reason \notin Reasons \ {"absent"}
       /\ st.commit = [objects |-> Len(st.objects), assertions |-> st.assertions,
                       unobservable |-> st.unobservables]

\* A collection the whole-batch check passes is a whole answer in the stream.
LEMMA SettledIsWhole ==
  ASSUME NEW s \in Seq(Pool), NEW c, NEW st, AgreesOn(s, c, st)
  PROVE  Settled(st) <=> WholeAnswer(s, c)
<1> DEFINE said == About(s, c)
           OnlyEmissions(places) == \A p \in places : s[p].record \in Emissions
           Closes(k) == /\ s[k].record = "commit" /\ Counted(s, c, s[k])
                        /\ \A p \in said : p <= k
           Zero == [objects |-> 0, assertions |-> 0, unobservable |-> 0]
           counts == [objects |-> Len(st.objects), assertions |-> st.assertions,
                      unobservable |-> st.unobservables]
<1>1. WholeAnswer(s, c) <=>
      \/ OnlyEmissions(said)
      \/ \E k \in said : Closes(k) /\ OnlyEmissions(said \ {k})
      \/ \E d \in said : /\ said = {d}
                         /\ s[d].record = "decline" /\ s[d].reason # "absent"
      \/ \E d, k \in said : /\ said = {d, k} /\ Closes(k)
                            /\ s[d].record = "decline" /\ s[d].reason = "absent"
  BY Zenon DEF WholeAnswer
<1>2. /\ Len(st.objects) = Cardinality(Of(s, c, "object"))
      /\ st.assertions = Cardinality(Of(s, c, "relation_assertion"))
      /\ st.unobservables = Cardinality(Of(s, c, "unobservable"))
  BY DEF AgreesOn, ObjectsAgree, CountsAgree
<1>3. \A i \in said : s[i].record \in Emissions \union {"decline", "commit"}
  BY Zenon DEF About
<1>4. DeclineAgrees(s, c, st) /\ CommitAgrees(s, c, st)
  BY DEF AgreesOn
<1>5. ASSUME NEW k \in said,
             st.commit = [objects |-> s[k].objects, assertions |-> s[k].assertions,
                          unobservable |-> s[k].unobservable]
      PROVE  st.commit = counts <=> Counted(s, c, s[k])
  BY <1>2, <1>5 DEF Counted
<1>6. None.reason = "none" /\ "none" \notin Reasons /\ None.reason # "absent"
  BY DEF None, Reasons
<1>7. Zero # NoCommit
  BY DEF NoCommit
<1> HIDE DEF said, counts, Zero
<1>8. CASE st.decline = None /\ st.commit = NoCommit
  <2>1. \A i \in said : s[i].record # "commit" /\ s[i].record # "decline"
    BY <1>4, <1>8, NotCommitted, NotDeclined DEF said
  <2>2. OnlyEmissions(said)
    BY <1>3, <2>1
  <2>3. Settled(st)
    BY <1>6, <1>8 DEF Settled
  <2> QED
    BY <1>1, <2>2, <2>3
<1>9. CASE st.decline = None /\ st.commit # NoCommit
  <2>1. PICK k \in said :
          /\ s[k].record = "commit"
          /\ st.commit = [objects |-> s[k].objects, assertions |-> s[k].assertions,
                          unobservable |-> s[k].unobservable]
          /\ \A i \in said : i <= k /\ (i # k => s[i].record # "commit")
    BY <1>4, <1>9 DEF CommitAgrees, said
  <2>2. \A i \in said : s[i].record # "decline"
    BY <1>4, <1>9, NotDeclined DEF said
  <2>3. OnlyEmissions(said \ {k})
    BY <1>3, <2>1, <2>2
  <2>4. Settled(st) <=> Counted(s, c, s[k])
    BY <1>5, <1>6, <1>9, <2>1 DEF Settled, counts
  <2>5. Counted(s, c, s[k]) => WholeAnswer(s, c)
    BY <1>1, <2>1, <2>3
  <2>6. WholeAnswer(s, c) => Counted(s, c, s[k])
    BY <2>1, WholeAnswerSays DEF said
  <2> QED
    BY <2>4, <2>5, <2>6
<1>10. CASE st.decline # None
  <2>1. PICK d \in said :
          /\ s[d].record = "decline" /\ st.decline = [reason |-> s[d].reason]
          /\ s[d].reason \in Reasons
          /\ \A i \in said : i # d => s[i].record = "commit"
    BY <1>4, <1>10 DEF DeclineAgrees, said
  <2>2. st.decline.reason = s[d].reason
    BY <2>1
  <2>3. ~OnlyEmissions(said)
    BY <2>1 DEF Emissions
  <2>4. CASE st.commit = NoCommit
    <3>1. \A i \in said : s[i].record # "commit"
      BY <1>4, <2>4, NotCommitted DEF said
    <3>2. said = {d}
      BY <2>1, <3>1
    <3>3. Settled(st) <=> s[d].reason # "absent"
      BY <1>7, <2>2, <2>4 DEF Settled, Zero
    <3>4. WholeAnswer(s, c) <=> s[d].reason # "absent"
      <4>1. ~ \E k \in said : Closes(k)
        BY <3>1
      <4> QED
        BY <1>1, <2>1, <2>3, <3>2, <4>1
    <3> QED
      BY <3>3, <3>4
  <2>5. CASE st.commit # NoCommit
    <3>1. PICK k \in said :
            /\ s[k].record = "commit"
            /\ st.commit = [objects |-> s[k].objects, assertions |-> s[k].assertions,
                            unobservable |-> s[k].unobservable]
            /\ \A i \in said : i <= k /\ (i # k => s[i].record # "commit")
      BY <1>4, <2>5 DEF CommitAgrees, said
    <3>2. d # k
      BY <2>1, <3>1
    <3>3. said = {d, k}
      BY <2>1, <3>1
    <3>4. ~ \E e \in said : said = {e}
      BY <3>2, <3>3
    <3>5. ASSUME NEW e \in said PROVE ~OnlyEmissions(said \ {e})
      BY <2>1, <3>1, <3>2, <3>3 DEF Emissions
    <3>6. \A i \in said : s[i].record # "object" /\ s[i].record # "relation_assertion"
                          /\ s[i].record # "unobservable"
      BY <2>1, <3>1, <3>3
    <3>7. counts = Zero
      <4>1. /\ Of(s, c, "object") = {} /\ Of(s, c, "relation_assertion") = {}
            /\ Of(s, c, "unobservable") = {}
        BY <3>6, Zenon DEF Of, said
      <4>2. Len(st.objects) = 0 /\ st.assertions = 0 /\ st.unobservables = 0
        BY <1>2, <4>1, FS_EmptySet
      <4> QED
        BY <4>2 DEF counts, Zero
    <3>8. Settled(st) <=> s[d].reason = "absent" /\ Counted(s, c, s[k])
      <4>1. st.commit = counts <=> Counted(s, c, s[k])
        BY <1>5, <3>1
      <4>2. s[d].reason \notin Reasons \ {"absent"} <=> s[d].reason = "absent"
        BY <2>1
      <4>3. Settled(st) <=> /\ (s[d].reason = "absent" => st.commit = Zero)
                            /\ s[d].reason \notin Reasons \ {"absent"}
                            /\ st.commit = counts
        BY <2>2, <2>5, Zenon DEF Settled, Zero, counts
      <4> QED
        BY <3>7, <4>1, <4>2, <4>3
    <3>9. WholeAnswer(s, c) => s[d].reason = "absent" /\ Counted(s, c, s[k])
      <4> SUFFICES ASSUME WholeAnswer(s, c)
                   PROVE s[d].reason = "absent" /\ Counted(s, c, s[k])
        OBVIOUS
      <4>1. PICK e \in said, f \in said :
              /\ said = {e, f} /\ Closes(f)
              /\ s[e].record = "decline" /\ s[e].reason = "absent"
        BY <1>1, <2>3, <3>4, <3>5
      <4>2. e = d
        BY <2>1, <3>1, <3>3, <4>1
      <4>3. f = k
        BY <2>1, <3>1, <3>3, <4>1
      <4> QED
        BY <4>1, <4>2, <4>3
    <3>10. s[d].reason = "absent" /\ Counted(s, c, s[k]) => WholeAnswer(s, c)
      <4> SUFFICES ASSUME s[d].reason = "absent", Counted(s, c, s[k]) PROVE WholeAnswer(s, c)
        OBVIOUS
      <4>1. Closes(k)
        BY <3>1
      <4> QED
        BY <1>1, <2>1, <3>3, <4>1
    <3> QED
      BY <3>8, <3>9, <3>10
  <2> QED
    BY <2>4, <2>5
<1> QED
  BY <1>8, <1>9, <1>10

-----------------------------------------------------------------------------
(* The end of the stream.                                                  *)

\* Between begin and end every record is about an issued collection.
LEMMA InnerRecords ==
  ASSUME NEW rec \in Pool, rec.sound, rec.record # "begin", rec.record # "end"
  PROVE  rec.collection \in DOMAIN Issued
<1>1. OwnRules(rec) = ""
  BY PoolAssumption
<1> QED
  BY <1>1, PoolSoundness DEF Speaks, Emissions

\* Begin first, end last, and every record between them about a collection.
LEMMA BetweenFirstAndLast ==
  ASSUME NEW l \in Nat, NEW i \in 2..(l - 1)
  PROVE  i \in 1..l /\ i # 1 /\ i # l
OBVIOUS

\* The end of file: a stream read without a violation is accepted exactly
\* when it is a whole one.
LEMMA FinishAgrees ==
  ASSUME NEW s \in Seq(Pool), NEW b, Agrees(s, b), Accepted(b)
  PROVE  LET f == Finish(b, Len(s))
         IN /\ f.violation = "" <=> ValidStream(s)
            /\ f.violation = "" => f = b
            /\ f.collections = b.collections
<1> DEFINE f == Finish(b, Len(s))
           l == Len(s)
<1>1. /\ f.violation = "" <=> l # 0 /\ b.seenEnd /\ check(b) = ""
      /\ f.collections = b.collections
      /\ f.violation = "" => f = b
  BY FinishPasses DEF Agrees, Shape, Whole, Accepted
<1> HIDE DEF f
<1>2. /\ l \in Nat /\ (l # 0 => l \in DOMAIN s /\ 1 \in DOMAIN s)
      /\ DOMAIN s = 1..l
  <2>1. DOMAIN s = 1..Len(s)
    OBVIOUS
  <2> QED
    BY <2>1, Lengths
<1>3. DOMAIN b.collections = DOMAIN Issued
  BY DEF Agrees, Shape
<1>4. /\ \A i \in DOMAIN s : s[i].sound
      /\ \A i \in DOMAIN s : (s[i].record = "begin") = (i = 1)
      /\ \A i \in DOMAIN s : s[i].record = "end" => i = l
      /\ b.seenEnd = (l # 0 /\ s[l].record = "end")
      /\ l # 0 => b.begin = <<s[1].request, s[1].batch>>
      /\ b.seenEnd => /\ b.end = <<s[l].request, s[l].batch>>
                      /\ b.wall = IF "wall_ms" \in DOMAIN s[l].has THEN s[l].wall_ms ELSE 0
      /\ \A c \in DOMAIN Issued : AgreesOn(s, c, b.collections[c])
  BY DEF Agrees
<1> DEFINE Timed == \A c \in DOMAIN Issued : b.collections[c].objects # <<>> => b.wall > 0
<1>5. check(b) = "" <=> /\ b.end = b.begin
                        /\ \A c \in DOMAIN Issued : Settled(b.collections[c])
                        /\ Timed
  <2> DEFINE P(c) == LET st == b.collections[c]
                     IN /\ st.decline.reason = "absent" =>
                             st.commit = [objects |-> 0, assertions |-> 0, unobservable |-> 0]
                        /\ st.commit # NoCommit =>
                             /\ st.decline.reason \notin Reasons \ {"absent"}
                             /\ st.commit = [objects |-> Len(st.objects),
                                             assertions |-> st.assertions,
                                             unobservable |-> st.unobservables]
                        /\ st.objects # <<>> => b.wall > 0
  <2>1. check(b) = "" <=> b.end = b.begin /\ \A c \in DOMAIN b.collections : P(c)
    BY CheckPasses
  <2>2. \A c : P(c) <=> Settled(b.collections[c]) /\ (b.collections[c].objects # <<>> => b.wall > 0)
    BY DEF Settled
  <2> HIDE DEF P
  <2> QED
    BY <1>3, <2>1, <2>2
<1>6. \A c \in DOMAIN Issued : Settled(b.collections[c]) <=> WholeAnswer(s, c)
  BY <1>4, SettledIsWhole
<1>7. ASSUME NEW c \in DOMAIN Issued
      PROVE  /\ b.collections[c].objects # <<>> <=> Of(s, c, "object") # {}
             /\ \A i, j \in Of(s, c, "object") :
                  i < j => s[i].name # s[j].name /\ s[i].at <= s[j].at
  <2> DEFINE o == b.collections[c].objects
             said == Of(s, c, "object")
  <2>1. o \in Seq(Names) /\ Len(o) = Cardinality(said)
    BY <1>4 DEF AgreesOn, ObjectsAgree
  <2>2. \A i, j \in said : i < j => s[i].name # s[j].name /\ s[i].at <= s[j].at
    BY <1>4 DEF AgreesOn, ObjectsAgree
  <2>3. IsFiniteSet(said)
    BY Places
  <2> HIDE DEF o, said
  <2>4. Cardinality(said) = 0 <=> said = {}
    BY <2>3, FS_EmptySet
  <2>5. Len(o) = 0 <=> o = <<>>
    BY <2>1
  <2> QED
    BY <2>1, <2>2, <2>4, <2>5 DEF o, said
<1>8. ASSUME l # 0, b.seenEnd
      PROVE  /\ l >= 2
             /\ \A i \in DOMAIN s : (s[i].record = "end") = (i = l)
             /\ (b.end = b.begin) <=> (s[l].request = s[1].request /\ s[l].batch = s[1].batch)
             /\ b.wall > 0 <=> ("wall_ms" \in DOMAIN s[l].has /\ s[l].wall_ms > 0)
  <2>1. s[l].record = "end" /\ l \in DOMAIN s /\ 1 \in DOMAIN s /\ s[1].record = "begin"
    BY <1>2, <1>4, <1>8
  <2>2. l # 1
    BY <2>1
  <2>3. l >= 2
    BY <1>2, <1>8, <2>2
  <2>4. \A i \in DOMAIN s : (s[i].record = "end") = (i = l)
    BY <1>4, <2>1
  <2>5. (b.end = b.begin) <=> (s[l].request = s[1].request /\ s[l].batch = s[1].batch)
    BY <1>4, <1>8
  <2>6. b.wall > 0 <=> ("wall_ms" \in DOMAIN s[l].has /\ s[l].wall_ms > 0)
    BY <1>4, <1>8
  <2> QED
    BY <2>3, <2>4, <2>5, <2>6
<1>9. \A i \in 2..(l - 1) : s[i].collection \in DOMAIN Issued
  <2> SUFFICES ASSUME NEW i \in 2..(l - 1) PROVE s[i].collection \in DOMAIN Issued
    OBVIOUS
  <2>1. i \in DOMAIN s /\ i # 1 /\ i # l
    BY <1>2, BetweenFirstAndLast
  <2>2. s[i] \in Pool /\ s[i].sound /\ s[i].record # "begin" /\ s[i].record # "end"
    BY <1>4, <2>1
  <2> QED
    BY <2>2, InnerRecords
<1>10. ASSUME ValidStream(s) PROVE l # 0 /\ b.seenEnd /\ check(b) = ""
  <2>1. /\ l >= 2
        /\ \A i \in DOMAIN s : (s[i].record = "end") = (i = l)
        /\ s[l].request = s[1].request /\ s[l].batch = s[1].batch
        /\ \A c \in DOMAIN Issued : WholeAnswer(s, c)
        /\ (\E c \in DOMAIN Issued : Of(s, c, "object") # {}) =>
             "wall_ms" \in DOMAIN s[l].has /\ s[l].wall_ms > 0
    BY <1>10, Zenon DEF ValidStream
  <2>2. l # 0 /\ l \in DOMAIN s
    BY <1>2, <2>1
  <2>3. b.seenEnd
    BY <1>4, <2>1, <2>2
  <2>4. b.end = b.begin
    BY <1>8, <2>1, <2>2, <2>3
  <2>5. Timed
    BY <1>7, <1>8, <2>1, <2>2, <2>3
  <2>6. \A c \in DOMAIN Issued : Settled(b.collections[c])
    BY <1>6, <2>1
  <2> HIDE DEF Timed
  <2> QED
    BY <1>5, <2>2, <2>3, <2>4, <2>5, <2>6
<1>11. ASSUME l # 0, b.seenEnd, check(b) = "" PROVE ValidStream(s)
  <2>1. /\ l >= 2
        /\ \A i \in DOMAIN s : (s[i].record = "end") = (i = l)
        /\ s[l].request = s[1].request /\ s[l].batch = s[1].batch
    BY <1>5, <1>8, <1>11
  <2>2. \A c \in DOMAIN Issued : WholeAnswer(s, c)
    BY <1>5, <1>6, <1>11
  <2>3. (\E c \in DOMAIN Issued : Of(s, c, "object") # {}) =>
             "wall_ms" \in DOMAIN s[l].has /\ s[l].wall_ms > 0
    BY <1>5, <1>7, <1>8, <1>11
  <2>4. \A c \in DOMAIN Issued : \A i, j \in Of(s, c, "object") :
          i < j => s[i].name # s[j].name /\ s[i].at <= s[j].at
    BY <1>7
  <2> QED
    BY <1>4, <1>9, <2>1, <2>2, <2>3, <2>4, Zenon DEF ValidStream
<1> QED
  BY <1>1, <1>10, <1>11 DEF f

-----------------------------------------------------------------------------
(* The inductive invariant and the theorems.                               *)

\* The inductive invariant: an unviolated batch agrees with what was read,
\* and a returned one was accepted exactly when the whole stream is valid.
IInv ==
  /\ stream \in Seq(Pool) /\ closed \in BOOLEAN
  /\ DOMAIN batch.collections = DOMAIN Issued
  /\ Accepted(batch) => Agrees(stream, batch)
  /\ ~closed => Accepted(batch)
  /\ closed => (Accepted(batch) <=> ValidStream(stream))

\* A batch nothing was read into agrees with the empty stream.
LEMMA EmptyBatchAgrees ==
  Agrees(<<>>, EmptyBatch(Issued)) /\ Accepted(EmptyBatch(Issued))
<1> DEFINE b == EmptyBatch(Issued)
           cols == [c \in DOMAIN Issued |-> EmptyStream]
<1>1. b = [violation |-> "", seenBegin |-> FALSE, seenEnd |-> FALSE, begin |-> <<>>,
           end |-> <<>>, wall |-> 0, collections |-> cols]
  BY DEF EmptyBatch
<1>4. cols = [c \in DOMAIN Issued |-> cols[c]] /\ \A c \in DOMAIN Issued : cols[c] = EmptyStream
  OBVIOUS
<1> HIDE DEF cols, b
<1>2. /\ b.violation = "" /\ b.seenBegin = FALSE /\ b.seenEnd = FALSE /\ b.begin = <<>>
      /\ b.end = <<>> /\ b.wall = 0 /\ b.collections = cols
  BY <1>1
<1>3. Whole(b)
  BY <1>1, <1>2 DEF Whole
<1>5. Shape(b)
  BY <1>2, <1>3, <1>4, EmptyAgrees DEF Shape
<1>6. \A c \in DOMAIN Issued : AgreesOn(<<>>, c, b.collections[c])
  BY <1>2, <1>4, EmptyAgrees
<1>7. DOMAIN <<>> = {} /\ Len(<<>>) = 0
  OBVIOUS
<1>8. Agrees(<<>>, b)
  BY <1>2, <1>5, <1>6, <1>7 DEF Agrees
<1> QED
  BY <1>2, <1>8 DEF b, Accepted

\* The invariant holds before the first record.
LEMMA InitIInv == Init => IInv
<1> SUFFICES ASSUME Init PROVE IInv
  OBVIOUS
<1>1. stream = <<>> /\ batch = EmptyBatch(Issued) /\ closed = FALSE
  BY DEF Init
<1>2. Agrees(stream, batch) /\ Accepted(batch)
  BY <1>1, EmptyBatchAgrees
<1>3. DOMAIN batch.collections = DOMAIN Issued
  BY <1>2 DEF Agrees, Shape
<1>4. <<>> \in Seq(Pool)
  OBVIOUS
<1> QED
  BY <1>1, <1>2, <1>3, <1>4, Zenon DEF IInv

\* A record refused is the next one of the stream that was written.
LEMMA NextInExtension ==
  ASSUME NEW s \in Seq(Pool), NEW rec \in Pool, NEW rest \in Seq(Pool)
  PROVE  /\ Append(s, rec) \o rest \in Seq(Pool)
         /\ IsNext(s, rec, Append(s, rec) \o rest)
<1> DEFINE t == Append(s, rec) \o rest
           a == Append(s, rec)
<1>1. /\ a \in Seq(Pool) /\ Len(a) = Len(s) + 1 /\ a[Len(s) + 1] = rec
      /\ DOMAIN a = DOMAIN s \cup {Len(s) + 1} /\ \A i \in DOMAIN s : a[i] = s[i]
  BY Appended
<1> HIDE DEF a
<1>2. /\ a \o rest \in Seq(Pool)
      /\ \A i \in DOMAIN a : i \in DOMAIN (a \o rest) /\ (a \o rest)[i] = a[i]
  BY <1>1
<1>3. t \in Seq(Pool) /\ \A i \in DOMAIN a : i \in DOMAIN t /\ t[i] = a[i]
  BY <1>2 DEF a
<1> HIDE DEF t
<1>4. t \in Seq(Pool) /\ IsNext(s, rec, t)
  BY <1>1, <1>3 DEF IsNext
<1> QED
  BY <1>4 DEF t

\* A record taken in keeps the invariant: ReceiveAgrees.
LEMMA RecordIInv ==
  ASSUME IInv, NEW rec \in Pool, Record(rec) PROVE IInv'
<1>1. /\ ~closed /\ batch' = Receive(batch, rec, Issued) /\ batch'.violation = ""
      /\ stream' = Append(stream, rec) /\ closed' = closed
  BY DEF Record
<1>2. stream \in Seq(Pool) /\ Agrees(stream, batch) /\ batch.violation = ""
  BY <1>1 DEF IInv, Accepted
<1>3. Agrees(stream', batch')
  BY <1>1, <1>2, ReceiveAgrees
<1>4. stream' \in Seq(Pool)
  BY <1>1, <1>2, Appended
<1>5. DOMAIN batch'.collections = DOMAIN Issued
  BY <1>3 DEF Agrees, Shape
<1> QED
  BY <1>1, <1>3, <1>4, <1>5 DEF IInv, Accepted

\* A record refused keeps it: no valid stream goes on with this record.
LEMMA RefuseIInv ==
  ASSUME IInv, NEW rec \in Pool, Refuse(rec) PROVE IInv'
<1>1. /\ ~closed /\ batch' = Receive(batch, rec, Issued) /\ batch'.violation # ""
      /\ closed' = TRUE
  BY DEF Refuse
<1>2. PICK rest \in Tails : stream' = Append(stream, rec) \o rest
  BY DEF Refuse
<1>3. stream \in Seq(Pool) /\ Agrees(stream, batch) /\ batch.violation = ""
  BY <1>1 DEF IInv, Accepted
<1>4. rest \in Seq(Pool)
  BY PoolAssumption
<1>5. stream' \in Seq(Pool) /\ IsNext(stream, rec, stream')
  BY <1>2, <1>3, <1>4, NextInExtension
<1>6. ~ValidStream(stream')
  BY <1>1, <1>3, <1>5, ValidIsTakenIn
<1>7. DOMAIN batch'.collections = DOMAIN Issued
  BY <1>1, <1>3, ReceiveAccepts DEF Agrees
<1> QED
  BY <1>1, <1>5, <1>6, <1>7 DEF IInv, Accepted

\* End of file keeps it: the whole-batch check decides validity.
LEMMA CloseIInv ==
  ASSUME IInv, Close PROVE IInv'
<1>1. /\ ~closed /\ closed' = TRUE /\ batch' = Finish(batch, Len(stream)) /\ stream' = stream
  BY DEF Close
<1>2. stream \in Seq(Pool) /\ Agrees(stream, batch) /\ Accepted(batch)
  BY <1>1 DEF IInv
<1>3. /\ batch'.violation = "" <=> ValidStream(stream)
      /\ batch'.violation = "" => batch' = batch
      /\ batch'.collections = batch.collections
  BY <1>1, <1>2, FinishAgrees
<1>4. DOMAIN batch.collections = DOMAIN Issued
  BY DEF IInv
<1>5. Accepted(batch') <=> ValidStream(stream')
  BY <1>1, <1>3 DEF Accepted
<1>6. Accepted(batch') => Agrees(stream', batch')
  BY <1>1, <1>2, <1>3 DEF Accepted
<1> QED
  BY <1>1, <1>2, <1>3, <1>4, <1>5, <1>6 DEF IInv

\* Every step keeps it.
LEMMA NextIInv == IInv /\ [Next]_vars => IInv'
<1> SUFFICES ASSUME IInv, [Next]_vars PROVE IInv'
  OBVIOUS
<1>1. CASE Close
  BY <1>1, CloseIInv
<1>2. CASE \E rec \in Pool : Record(rec) \/ Refuse(rec)
  BY <1>2, RecordIInv, RefuseIInv
<1>3. CASE UNCHANGED vars
  BY <1>3 DEF vars, IInv
<1> QED
  BY <1>1, <1>2, <1>3 DEF Next

\* ParseBatch's batch agrees with what was read, in every reachable state.
THEOREM BatchAgrees == Spec => []IInv
<1> QED
  BY InitIInv, NextIInv, PTL DEF Spec

\* An agreement includes the counts that TypeOK speaks of.
LEMMA TypeStep == IInv => TypeOK
<1> SUFFICES ASSUME IInv PROVE TypeOK
  OBVIOUS
<1>1. ASSUME Accepted(batch), NEW c \in DOMAIN Issued
      PROVE  /\ Len(batch.collections[c].objects) = Cardinality(Of(stream, c, "object"))
             /\ batch.collections[c].assertions = Cardinality(Of(stream, c, "relation_assertion"))
  BY <1>1 DEF IInv, Agrees, AgreesOn, ObjectsAgree, CountsAgree
<1> QED
  BY <1>1 DEF IInv, TypeOK, Accepted

\* Every issued collection has its statements, and an unviolated batch counted
\* every object and assertion it received (wire.go:163-296).
THEOREM StreamTypes == Spec => []TypeOK
<1> QED
  BY BatchAgrees, TypeStep, PTL

\* ParseBatch accepts exactly the streams the contract describes, whatever the
\* request, the records a sender can write, their order and where it stops, and
\* refuses no record that a valid stream could go on with (wire.go:163-296).
THEOREM ParserAcceptsExactly == Spec => []AcceptsExactlyValidStreams
<1>1. IInv => AcceptsExactlyValidStreams
  BY DEF IInv, AcceptsExactlyValidStreams
<1> QED
  BY BatchAgrees, <1>1, PTL

-----------------------------------------------------------------------------
(* A whole stream parsed at once, as a reading of its prefixes.            *)

Prefix(t, n) == [i \in 1..n |-> t[i]]

\* Each prefix of a stream is the one before it and one record.
LEMMA Prefixes ==
  ASSUME NEW t \in Seq(Pool)
  PROVE  /\ Prefix(t, 0) = <<>> /\ Prefix(t, Len(t)) = t
         /\ \A n \in 1..Len(t) : /\ Prefix(t, n - 1) \in Seq(Pool) /\ t[n] \in Pool
                                 /\ Prefix(t, n) = Append(Prefix(t, n - 1), t[n])
<1>1. Prefix(t, 0) = <<>>
  <2>1. 1..0 = {}
    OBVIOUS
  <2>2. Prefix(t, 0) \in Seq({}) /\ Len(Prefix(t, 0)) = 0
    BY DEF Prefix
  <2> QED
    BY <2>2
<1>2. Prefix(t, Len(t)) = t
  BY DEF Prefix
<1>3. ASSUME NEW n \in 1..Len(t)
      PROVE  /\ Prefix(t, n - 1) \in Seq(Pool) /\ t[n] \in Pool
             /\ Prefix(t, n) = Append(Prefix(t, n - 1), t[n])
  <2> DEFINE a == Prefix(t, n - 1)
  <2>1. a \in Seq(Pool) /\ Len(a) = n - 1 /\ t[n] \in Pool /\ n \in Nat
    BY DEF Prefix
  <2>2. \A i \in 1..(n - 1) : a[i] = t[i]
    BY DEF Prefix
  <2> HIDE DEF a
  <2>3. /\ Append(a, t[n]) \in Seq(Pool) /\ DOMAIN Append(a, t[n]) = 1..n
        /\ \A i \in 1..(n - 1) : Append(a, t[n])[i] = a[i]
        /\ Append(a, t[n])[n] = t[n]
    BY <2>1
  <2>4. \A i \in 1..n : Append(a, t[n])[i] = t[i]
    BY <2>1, <2>2, <2>3
  <2>5. Append(a, t[n]) = [i \in 1..n |-> Append(a, t[n])[i]]
    BY <2>3
  <2>6. Append(a, t[n]) = Prefix(t, n)
    BY <2>4, <2>5 DEF Prefix
  <2> QED
    BY <2>1, <2>6 DEF a
<1> QED
  BY <1>1, <1>2, <1>3

\* f[n] is the batch after the first n records of t.
Reading(f, t, last) ==
  f = [n \in 0..last |-> IF n = 0 THEN EmptyBatch(Issued)
                         ELSE Receive(f[n - 1], t[n], Issued)]

\* A reading of m records is continued by one more record.
LEMMA ReadingExtends ==
  ASSUME NEW t, NEW m \in Nat, NEW f, Reading(f, t, m)
  PROVE  \E g : Reading(g, t, m + 1)
<1> DEFINE next == Receive(f[m], t[m + 1], Issued)
           g == [n \in 0..(m + 1) |-> IF n = m + 1 THEN next ELSE f[n]]
           E == EmptyBatch(Issued)
           R(b, n) == Receive(b, t[n], Issued)
<1>1. f = [n \in 0..m |-> IF n = 0 THEN E ELSE R(f[n - 1], n)]
  BY DEF Reading
<1>2. next = R(f[m], m + 1)
  OBVIOUS
<1> HIDE DEF R, E, next
<1>3. \A n \in 0..m : f[n] = IF n = 0 THEN E ELSE R(f[n - 1], n)
  BY <1>1
<1>4. ASSUME NEW n \in 0..(m + 1) PROVE g[n] = IF n = 0 THEN E ELSE R(g[n - 1], n)
  <2>1. CASE n = m + 1
    <3>1. g[n] = next /\ g[n - 1] = f[m] /\ n # 0
      BY <2>1
    <3> QED
      BY <1>2, <2>1, <3>1
  <2>2. CASE n = 0
    BY <1>3, <2>2
  <2>3. CASE n # 0 /\ n # m + 1
    <3>1. n \in 0..m /\ g[n] = f[n] /\ g[n - 1] = f[n - 1]
      BY <2>3
    <3> QED
      BY <1>3, <2>3, <3>1
  <2> QED
    BY <2>1, <2>2, <2>3
<1>5. g = [n \in 0..(m + 1) |-> g[n]]
  OBVIOUS
<1> HIDE DEF g
<1>6. g = [n \in 0..(m + 1) |-> IF n = 0 THEN E ELSE R(g[n - 1], n)]
  BY <1>4, <1>5
<1> QED
  BY <1>6 DEF Reading, R, E

\* So every stream has a reading: ParseBatch's loop is a function of it.
LEMMA ReadingExists ==
  ASSUME NEW t, NEW last \in Nat
  PROVE  \E f : Reading(f, t, last)
<1> DEFINE Missing == {m \in Nat : ~ \E f : Reading(f, t, m)}
<1> SUFFICES ASSUME Missing # {} PROVE FALSE
  OBVIOUS
<1>1. Missing \in SUBSET Nat
  OBVIOUS
<1>2. PICK m \in Missing : \A k \in Missing : m <= k
  BY <1>1, LeastElement
<1>3. m \in Nat /\ ~ \E f : Reading(f, t, m)
  BY <1>2
<1>4. m # 0
  <2> DEFINE E == EmptyBatch(Issued)
             f == [n \in 0..0 |-> E]
  <2>1. \A n \in 0..0 : n = 0
    OBVIOUS
  <2> HIDE DEF E
  <2>2. f = [n \in 0..0 |-> IF n = 0 THEN E ELSE Receive(f[n - 1], t[n], Issued)]
    BY <2>1
  <2>3. Reading(f, t, 0)
    BY <2>2 DEF Reading, E
  <2> QED
    BY <1>3, <2>3
<1>5. m - 1 \in Nat /\ (m - 1) + 1 = m /\ ~(m <= m - 1)
  BY <1>3, <1>4
<1>6. m - 1 \notin Missing
  BY <1>2, <1>5
<1> HIDE DEF Missing
<1>7. \E f : Reading(f, t, m - 1)
  BY <1>5, <1>6 DEF Missing
<1>8. \E g : Reading(g, t, (m - 1) + 1)
  BY <1>5, <1>7, ReadingExtends
<1> QED
  BY <1>3, <1>5, <1>8

\* As long as nothing is refused, each batch of a reading agrees with what was
\* read into it.
LEMMA ReadingAgrees ==
  ASSUME NEW t \in Seq(Pool), NEW f, Reading(f, t, Len(t)), NEW n \in 0..Len(t), Accepted(f[n])
  PROVE  Agrees(Prefix(t, n), f[n])
<1> DEFINE Wrong == {k \in 0..Len(t) : Accepted(f[k]) /\ ~Agrees(Prefix(t, k), f[k])}
<1> SUFFICES ASSUME Wrong # {} PROVE FALSE
  OBVIOUS
<1>0. Len(t) \in Nat
  OBVIOUS
<1>1. Wrong \in SUBSET Nat
  BY <1>0
<1>2. PICK m \in Wrong : \A k \in Wrong : m <= k
  BY <1>1, LeastElement
<1>3. m \in 0..Len(t) /\ Accepted(f[m]) /\ ~Agrees(Prefix(t, m), f[m])
  BY <1>2
<1>4. \A k \in 0..Len(t) : f[k] = IF k = 0 THEN EmptyBatch(Issued)
                                  ELSE Receive(f[k - 1], t[k], Issued)
  BY Zenon DEF Reading
<1>5. m # 0
  <2> SUFFICES ASSUME m = 0 PROVE FALSE
    OBVIOUS
  <2>1. f[m] = EmptyBatch(Issued) /\ Prefix(t, m) = <<>>
    BY <1>3, <1>4, Prefixes
  <2> QED
    BY <1>3, <2>1, EmptyBatchAgrees
<1>6. m \in 1..Len(t) /\ m - 1 \in 0..Len(t) /\ ~(m <= m - 1)
  BY <1>0, <1>3, <1>5
<1>7. f[m] = Receive(f[m - 1], t[m], Issued)
  BY <1>3, <1>4, <1>5
<1>8. f[m - 1].violation = ""
  BY <1>3, <1>7 DEF Receive, Accepted
<1>9. Agrees(Prefix(t, m - 1), f[m - 1])
  BY <1>2, <1>6, <1>8 DEF Accepted
<1>10. /\ Prefix(t, m - 1) \in Seq(Pool) /\ t[m] \in Pool
       /\ Prefix(t, m) = Append(Prefix(t, m - 1), t[m])
  BY <1>6, Prefixes
<1>11. Agrees(Append(Prefix(t, m - 1), t[m]), Receive(f[m - 1], t[m], Issued))
  BY <1>3, <1>7, <1>8, <1>9, <1>10, ReceiveAgrees DEF Accepted
<1> QED
  BY <1>3, <1>7, <1>10, <1>11

\* ParseBatch of a whole stream: what it accepts is valid and agrees with it.
LEMMA ParsedAgrees ==
  ASSUME NEW t \in Seq(Pool), Accepted(ParseBatch(t, Issued))
  PROVE  ValidStream(t) /\ Agrees(t, ParseBatch(t, Issued))
<1> DEFINE read == CHOOSE f : Reading(f, t, Len(t))
           b == read[Len(t)]
<1>1. Len(t) \in Nat
  OBVIOUS
<1>2. \E f : Reading(f, t, Len(t))
  BY <1>1, ReadingExists
<1>3. Reading(read, t, Len(t))
  BY <1>2
<1>4. ParseBatch(t, Issued) = Finish(b, Len(t))
  BY DEF ParseBatch, Reading
<1>5. Accepted(b)
  BY <1>4 DEF Accepted, Finish
<1>6. Len(t) \in 0..Len(t)
  BY <1>1
<1> HIDE DEF read
<1>7. Agrees(Prefix(t, Len(t)), b)
  BY <1>3, <1>5, <1>6, ReadingAgrees
<1>8. Agrees(t, b)
  BY <1>7, Prefixes
<1> HIDE DEF b
<1>9. /\ Finish(b, Len(t)).violation = "" <=> ValidStream(t)
      /\ Finish(b, Len(t)).violation = "" => Finish(b, Len(t)) = b
  BY <1>5, <1>8, FinishAgrees
<1> QED
  BY <1>4, <1>8, <1>9 DEF Accepted

-----------------------------------------------------------------------------
(* Loss.                                                                   *)

\* t is what is left of s: g says where each of its records stood.
IsLeft(t, s, g) ==
  /\ t \in Seq(Pool) /\ g \in [DOMAIN t -> DOMAIN s]
  /\ \A i \in DOMAIN t : t[i] = s[g[i]]
  /\ \A i, j \in DOMAIN t : i < j => g[i] < g[j]

\* What a loss leaves keeps its order.
LEMMA LeftIsLeft ==
  ASSUME NEW s \in Seq(Pool), NEW kept \in SUBSET (DOMAIN s)
  PROVE  \E g : IsLeft(Left(s, kept), s, g)
<1> DEFINE D == DOMAIN s
           m == Cardinality(kept)
           g == [n \in 1..m |-> CHOOSE k \in kept : Rank(kept, k) = n]
           t == Left(s, kept)
<1>1. D \in SUBSET Nat /\ IsFiniteSet(D)
  <2>1. D = 1..Len(s) /\ Len(s) \in Nat
    OBVIOUS
  <2> QED
    BY <2>1, FS_Interval
<1>2. kept \in SUBSET Nat /\ IsFiniteSet(kept)
  BY <1>1, FS_Subset
<1>3. m \in Nat
  BY <1>2, FS_CardinalityType
<1>4. \A n \in 1..m : \E k \in kept : Rank(kept, k) = n
  BY <1>2, RankIsOnto
<1>5. \A n \in 1..m : g[n] \in kept /\ Rank(kept, g[n]) = n
  BY <1>4, Zenon
<1>6. t = [n \in 1..m |-> s[CHOOSE k \in kept : Rank(kept, k) = n]]
  BY Zenon DEF Left, Rank
<1>7. t = [n \in 1..m |-> s[g[n]]]
  BY <1>6, Zenon
<1>8. DOMAIN g = 1..m
  OBVIOUS
<1>13. g = [n \in 1..m |-> g[n]]
  OBVIOUS
<1> HIDE DEF g, t, m
<1>9. g \in [1..m -> D]
  BY <1>5, <1>13
<1>10. \A n \in 1..m : s[g[n]] \in Pool
  BY <1>9
<1>11. t \in Seq(Pool) /\ DOMAIN t = 1..m /\ \A n \in 1..m : t[n] = s[g[n]]
  BY <1>3, <1>7, <1>10
<1>12. ASSUME NEW i \in 1..m, NEW j \in 1..m, i < j PROVE g[i] < g[j]
  <2>1. g[i] \in kept /\ g[j] \in kept /\ Rank(kept, g[i]) = i /\ Rank(kept, g[j]) = j
    BY <1>5
  <2>2. g[i] \in Nat /\ g[j] \in Nat /\ i \in Int /\ j \in Int
    BY <1>2, <1>3, <2>1
  <2>3. g[i] # g[j]
    BY <1>12, <2>1, <2>2
  <2>4. ~(g[j] < g[i])
    <3> SUFFICES ASSUME g[j] < g[i] PROVE FALSE
      OBVIOUS
    <3>1. Rank(kept, g[j]) < Rank(kept, g[i])
      BY <1>2, <2>1, RankIncreases
    <3> QED
      BY <1>12, <2>1, <2>2, <3>1
  <2> QED
    BY <2>2, <2>3, <2>4
<1>14. IsLeft(t, s, g)
  BY <1>9, <1>11, <1>12 DEF IsLeft
<1> QED
  BY <1>14 DEF t

\* What is left about a collection was said about it.
LEMMA LeftSaysLess ==
  ASSUME NEW s \in Seq(Pool), NEW t, NEW g, IsLeft(t, s, g), NEW c
  PROVE  /\ \A i \in About(t, c) : g[i] \in About(s, c) /\ t[i] = s[g[i]]
         /\ \A kind : \A i \in Of(t, c, kind) : g[i] \in Of(s, c, kind)
<1>1. \A i \in DOMAIN t : g[i] \in DOMAIN s /\ t[i] = s[g[i]]
  BY DEF IsLeft
<1>2. \A i \in About(t, c) : i \in DOMAIN t /\ g[i] \in About(s, c)
  BY <1>1, Zenon DEF About
<1>3. \A kind : \A i \in Of(t, c, kind) : g[i] \in Of(s, c, kind)
  BY <1>1, <1>2, Zenon DEF Of
<1> QED
  BY <1>1, <1>2, <1>3

\* As many objects as before are the same objects, in the same order.
LEMMA SameObjects ==
  ASSUME NEW s \in Seq(Pool), NEW t, NEW g, IsLeft(t, s, g), NEW c,
         NEW st, ObjectsAgree(s, c, st), NEW su, ObjectsAgree(t, c, su),
         Cardinality(Of(t, c, "object")) = Cardinality(Of(s, c, "object"))
  PROVE  su.objects = st.objects
<1> DEFINE S == Of(s, c, "object")
           T == Of(t, c, "object")
           m == Cardinality(S)
           h == [i \in T |-> g[i]]
<1>1. t \in Seq(Pool) /\ \A i, j \in DOMAIN t : i < j => g[i] < g[j]
  BY DEF IsLeft
<1>2. /\ S \in SUBSET Nat /\ IsFiniteSet(S) /\ m \in Nat
      /\ T \in SUBSET Nat /\ IsFiniteSet(T)
  BY <1>1, Places
<1>3. \A i \in T : i \in DOMAIN t /\ g[i] \in S /\ t[i] = s[g[i]]
  <2>1. \A i \in T : i \in About(t, c)
    BY Zenon DEF Of
  <2>2. About(t, c) \subseteq DOMAIN t
    BY Zenon DEF About
  <2> QED
    BY <2>1, <2>2, LeftSaysLess
<1>4. /\ st.objects \in Seq(Names) /\ Len(st.objects) = m
      /\ \A i \in S : st.objects[Rank(S, i)] = s[i].name
  BY DEF ObjectsAgree
<1>5. /\ su.objects \in Seq(Names) /\ Len(su.objects) = m
      /\ \A i \in T : su.objects[Rank(T, i)] = t[i].name
  BY DEF ObjectsAgree
<1>6. h \in [T -> S] /\ \A i \in T : h[i] = g[i]
  BY <1>3
<1>7. Cardinality(T) = Cardinality(S)
  OBVIOUS
<1> HIDE DEF S, T, h
<1>8. \A i, j \in T : i < j => h[i] < h[j]
  BY <1>1, <1>3, <1>6
<1>9. \A i \in T : Rank(T, i) = Rank(S, h[i])
  BY <1>2, <1>6, <1>7, <1>8, RankIsKept
<1>10. ASSUME NEW n \in 1..m PROVE su.objects[n] = st.objects[n]
  <2>1. PICK i \in T : Rank(T, i) = n
    BY <1>2, <1>7, RankIsOnto
  <2>2. Rank(S, g[i]) = n /\ g[i] \in S
    BY <1>3, <1>6, <1>9, <2>1
  <2>3. su.objects[n] = t[i].name
    BY <1>5, <2>1
  <2>4. st.objects[n] = s[g[i]].name
    BY <1>4, <2>2
  <2> QED
    BY <1>3, <2>3, <2>4
<1> HIDE DEF m
<1> QED
  BY <1>2, <1>4, <1>5, <1>10

\* A commit that is left is the commit there was: it counts what is left, as
\* it counted the whole.
LEMMA SameAnswer ==
  ASSUME NEW s \in Seq(Pool), NEW t, NEW g, IsLeft(t, s, g),
         NEW c, NEW st, AgreesOn(s, c, st), WholeAnswer(s, c),
         NEW su, AgreesOn(t, c, su), WholeAnswer(t, c),
         su.commit # NoCommit
  PROVE  st.commit = su.commit /\ su.objects = st.objects
<1>1. PICK k \in About(t, c) :
        /\ t[k].record = "commit"
        /\ su.commit = [objects |-> t[k].objects, assertions |-> t[k].assertions,
                        unobservable |-> t[k].unobservable]
  BY DEF AgreesOn, CommitAgrees
<1>2. g[k] \in About(s, c) /\ s[g[k]] = t[k]
  BY LeftSaysLess
<1>3. Counted(t, c, t[k])
  BY <1>1, WholeAnswerSays
<1>4. Counted(s, c, s[g[k]])
  BY <1>1, <1>2, WholeAnswerSays
<1>5. Cardinality(Of(t, c, "object")) = Cardinality(Of(s, c, "object"))
  BY <1>2, <1>3, <1>4 DEF Counted
<1>6. st.commit # NoCommit
  BY <1>1, <1>2, NotCommitted DEF AgreesOn
<1>7. PICK m \in About(s, c) :
        /\ s[m].record = "commit"
        /\ st.commit = [objects |-> s[m].objects, assertions |-> s[m].assertions,
                        unobservable |-> s[m].unobservable]
        /\ \A i \in About(s, c) : i # m => s[i].record # "commit"
  BY <1>6 DEF AgreesOn, CommitAgrees
<1>8. m = g[k]
  BY <1>1, <1>2, <1>7
<1>9. st.commit = su.commit
  BY <1>1, <1>2, <1>7, <1>8
<1> QED
  BY <1>5, <1>9, SameObjects DEF AgreesOn

\* A decline that is left is the decline there was.
LEMMA SameDecline ==
  ASSUME NEW s \in Seq(Pool), NEW t, NEW g, IsLeft(t, s, g),
         NEW c, NEW st, AgreesOn(s, c, st), NEW su, AgreesOn(t, c, su),
         su.decline # None
  PROVE  st.decline = su.decline
<1>1. PICK d \in About(t, c) :
        t[d].record = "decline" /\ su.decline = [reason |-> t[d].reason]
  BY DEF AgreesOn, DeclineAgrees
<1>2. g[d] \in About(s, c) /\ s[g[d]] = t[d]
  BY LeftSaysLess
<1>3. st.decline # None
  BY <1>1, <1>2, NotDeclined DEF AgreesOn
<1>4. PICK m \in About(s, c) :
        /\ s[m].record = "decline" /\ st.decline = [reason |-> s[m].reason]
        /\ \A i \in About(s, c) : i # m => s[i].record = "commit"
  BY <1>3 DEF AgreesOn, DeclineAgrees
<1>5. m = g[d]
  BY <1>1, <1>2, <1>4
<1> QED
  BY <1>1, <1>2, <1>4, <1>5

\* A decline of another kind than "absent" comes without a commit, and one
\* that says "absent" with one.
LEMMA DeclinedAnswer ==
  ASSUME NEW s \in Seq(Pool), NEW c, NEW st, AgreesOn(s, c, st), WholeAnswer(s, c),
         st.decline # None
  PROVE  st.commit # NoCommit <=> st.decline.reason = "absent"
<1>1. PICK d \in About(s, c) :
        s[d].record = "decline" /\ st.decline = [reason |-> s[d].reason]
  BY DEF AgreesOn, DeclineAgrees
<1>2. \A i \in About(s, c) : i # d => s[i].record = "commit"
  BY <1>1, WholeAnswerSays
<1>3. CASE s[d].reason = "absent"
  <2>1. \E k \in About(s, c) : s[k].record = "commit"
    BY <1>1, <1>3, Zenon DEF WholeAnswer, Emissions
  <2> QED
    BY <1>1, <1>3, <2>1, NotCommitted DEF AgreesOn
<1>4. CASE s[d].reason # "absent"
  <2>1. \A i \in About(s, c) : s[i].record # "commit"
    BY <1>1, <1>2, <1>4, Zenon DEF WholeAnswer, Emissions
  <2>2. CommitAgrees(s, c, st)
    BY DEF AgreesOn
  <2>3. st.commit = NoCommit
    BY <2>1, <2>2, Zenon DEF CommitAgrees
  <2>4. st.decline.reason # "absent"
    BY <1>1, <1>4
  <2> QED
    BY <2>3, <2>4
<1> QED
  BY <1>3, <1>4

\* A loss the parser does not notice establishes the same, nothing, or an
\* absence told as an empty collection.
LEMMA LossStep == IInv => LossOnlyEmptiesAnAbsence
<1> SUFFICES ASSUME IInv, closed, Accepted(batch), NEW kept \in SUBSET (DOMAIN stream),
                    Accepted(ParseBatch(Left(stream, kept), Issued)), NEW c \in DOMAIN Issued
             PROVE  LET told == Establishes(ParseBatch(Left(stream, kept), Issued), c)
                        said == Establishes(batch, c)
                    IN told \in {said, Nothing} \/ AbsenceToldAsEmpty(said, told)
  BY DEF LossOnlyEmptiesAnAbsence
<1> DEFINE t == Left(stream, kept)
           b == ParseBatch(t, Issued)
<1>1. stream \in Seq(Pool) /\ Agrees(stream, batch) /\ ValidStream(stream)
  BY DEF IInv
<1>2. PICK g : IsLeft(t, stream, g)
  BY <1>1, LeftIsLeft
<1>3. t \in Seq(Pool)
  BY <1>2 DEF IsLeft
<1>4. Accepted(b)
  OBVIOUS
<1> HIDE DEF t
<1>5. ValidStream(t) /\ Agrees(t, b)
  BY <1>3, <1>4, ParsedAgrees
<1> HIDE DEF b
<1> DEFINE st == batch.collections[c]
           su == b.collections[c]
           said == Establishes(batch, c)
           told == Establishes(b, c)
           Fits == told \in {said, Nothing} \/ AbsenceToldAsEmpty(said, told)
<1>6. /\ AgreesOn(stream, c, st) /\ WholeAnswer(stream, c)
      /\ AgreesOn(t, c, su) /\ WholeAnswer(t, c)
  BY <1>1, <1>5 DEF Agrees, ValidStream
<1>7. su.commit # NoCommit => st.commit = su.commit /\ su.objects = st.objects
  BY <1>1, <1>2, <1>6, SameAnswer
<1>8. su.decline # None => st.decline = su.decline
  BY <1>1, <1>2, <1>6, SameDecline
<1>9. su.decline # None => (su.commit # NoCommit <=> su.decline.reason = "absent")
  BY <1>3, <1>6, DeclinedAnswer
<1>10. st.decline # None => (st.commit # NoCommit <=> st.decline.reason = "absent")
  BY <1>1, <1>6, DeclinedAnswer
<1>11. /\ said = [decline |-> st.decline, commit |-> st.commit,
                  holds |-> IF st.commit = NoCommit THEN <<>> ELSE st.objects]
       /\ told = [decline |-> su.decline, commit |-> su.commit,
                  holds |-> IF su.commit = NoCommit THEN <<>> ELSE su.objects]
  BY DEF Establishes
<1> HIDE DEF st, su, said, told
<1>12. ASSUME su.decline # None PROVE Fits
  <2>1. st.decline = su.decline /\ (st.commit # NoCommit <=> su.commit # NoCommit)
    BY <1>8, <1>9, <1>10, <1>12
  <2>2. told = said
    BY <1>7, <1>11, <2>1
  <2> QED
    BY <2>2
<1>13. ASSUME su.decline = None, su.commit = NoCommit PROVE Fits
  <2>1. told = Nothing
    BY <1>11, <1>13 DEF Nothing
  <2> QED
    BY <2>1
<1>14. ASSUME su.decline = None, su.commit # NoCommit, st.decline = None PROVE Fits
  <2>1. told = said
    BY <1>7, <1>11, <1>14
  <2> QED
    BY <2>1
<1>15. ASSUME su.decline = None, su.commit # NoCommit, st.decline # None PROVE Fits
  <2>1. st.commit = su.commit /\ su.objects = st.objects /\ st.decline.reason = "absent"
    BY <1>7, <1>10, <1>15
  <2>2. told = [said EXCEPT !.decline = None]
    BY <1>11, <1>15, <2>1
  <2>3. said.decline.reason = "absent"
    BY <1>11, <2>1
  <2> QED
    BY <2>2, <2>3 DEF AbsenceToldAsEmpty
<1>16. Fits
  BY <1>12, <1>13, <1>14, <1>15
<1> QED
  BY <1>16 DEF said, told, b, t

\* A transport that loses any records of an accepted stream leaves one that is
\* void, or that says of each collection what the whole stream did, or nothing;
\* but that an absence, its decline record lost, is told as an empty collection.
\* The counts a commit states, the end record and the begin echo are enough for
\* that and for no more (wire.go:352-382).
THEOREM LossOnlyEmptiesAbsences == Spec => []LossOnlyEmptiesAnAbsence
<1> QED
  BY BatchAgrees, LossStep, PTL
=============================================================================
