--------------------------- MODULE CollectProtection ---------------------------
(* se-collect-protection: the backup targets and destinations the manifest    *)
(* declares, and the jobs the staleness checker graded.                       *)
EXTENDS CollectorKit

Served == {"targets", "jobs", "destinations"}
Verbs == {"declare", "probe", "collect", "object", "evidence"}

-----------------------------------------------------------------------------
(* The world: the documents, each ok, missing, unreadable or not an object,  *)
(* and what they state.  A hop is <<destination, host, job>>.                *)

Target == [class |-> "backup", owner |-> "here", cadence |-> TRUE, destinations |-> <<"nas", "cloud">>,
           hops |-> {<<"nas", "here", "nightly">>}, proven |-> [r \in {"nas"} |-> 5], proofs |-> {}]
Proof(rung, at, result) == [rung |-> rung, at |-> at, result |-> result]
Job(name, target) == [job |-> name, target |-> target, state |-> "fresh", last |-> "unknown"]

Fine == [replay |-> FALSE, clock |-> TRUE, staged |-> "all", hostname |-> TRUE, manifest |-> "ok",
         status |-> "ok", receipts |-> "ok", checked |-> 3, now |-> 9,
         targets |-> [t \in {"photos"} |-> Target],
         destinations |-> [d \in {"nas", "cloud"} |-> [independent |-> d = "cloud"]],
         jobs |-> <<Job("nightly", Unstated)>>]

Bad == {"missing", "unreadable", "not an object"}

Worlds ==
  {Fine, [Fine EXCEPT !.clock = FALSE], [Fine EXCEPT !.now = 1], [Fine EXCEPT !.checked = Unstated]}
  \union {[Fine EXCEPT !.manifest = m] : m \in Bad} \union {[Fine EXCEPT !.status = s] : s \in Bad}
  \union {[Fine EXCEPT !.receipts = r] : r \in Bad}
  \union {[Fine EXCEPT !.targets = [t \in {"photos"} |-> [Target EXCEPT !.proofs = p, !.proven = v]]] :
            p \in {{Proof("nas", 7, "fail")}, {Proof("nas", 4, "fail")}, {Proof("nas", 5, "pass")},
                   {Proof("cloud", 6, "fail"), Proof("cloud", 8, "fail")}},
            v \in {[r \in {"nas"} |-> 5], <<>>}}
  \union {[Fine EXCEPT !.targets = [t \in {"photos", "films"} |->
             IF t = "photos" THEN Target ELSE [Target EXCEPT !.class = c, !.hops = h]]] :
            c \in {"recreate", Unstated}, h \in {{}, {<<"nas", "here", "nightly">>}, {<<"nas", "there", "nightly">>}}}
  \union {[Fine EXCEPT !.jobs = <<j>>] :
            j \in {Job(Unstated, Unstated), Job("weekly", Unstated), Job("weekly", "photos"),
                   Job("weekly", "null"), [Job("nightly", "gone") EXCEPT !.state = "none", !.last = "success"]}}
  \union {[Fine EXCEPT !.replay = TRUE, !.staged = s, !.hostname = h] :
            s \in {"none", "some", "all"}, h \in BOOLEAN}

-----------------------------------------------------------------------------
(* source.go, documents.go                                                  *)

\* load: a document, nothing (there is no file), or why it cannot be read; in
\* replay a path the capture does not hold is an error.
load(w, met) == CASE w.replay /\ w.staged = "some" -> Error
                  [] OTHER -> Doc(met)

interfaceAbsent(w) == IF w.replay THEN w.staged = "none" ELSE w.manifest = "missing"

\* readManifest: one that is there and will not open must retire nothing; one
\* that is no mapping declares no inventory, as no file does.
readManifest(w) ==
  LET got == load(w, w.manifest)
  IN CASE interfaceAbsent(w) -> Declined("absent")
       [] ~interfaceAbsent(w) /\ ~IsDoc(got) -> Error
       [] OTHER -> CASE got.doc = "unreadable" -> Declined("unavailable")
                     [] got.doc \in {"missing", "not an object"} -> Declined("absent")
                     [] got.doc = "ok" -> Doc("manifest")

\* hostname: a capture pins it.
hostname(w) == IF w.replay /\ ~w.hostname THEN Error ELSE Doc("here")

\* readStatus: no verdict is an inability to say, never absence.
readStatus(w) == LET got == load(w, w.status)
                 IN IF IsDoc(got) /\ got.doc # "ok" THEN Declined("unavailable") ELSE got

\* receipts: what a job's own receipts say, or why one could not be read; a
\* receipt that was never written is silence.
receipts(w) == [result |-> IF w.receipts = "ok" THEN "success" ELSE Unstated,
                fault |-> IF w.receipts \in {"unreadable", "not an object"} THEN w.receipts ELSE Unstated]

probe(w) == IsDoc(readManifest(w))

-----------------------------------------------------------------------------
(* targets.go, destinations.go                                              *)

NonEmpty(s) == IF s = {} THEN Unstated ELSE s

\* A failed proof stands until a later pass on the same rung: one older than
\* the rung's last proof is answered.
Failed(t) == {p \in t.proofs : p.result = "fail" /\ (p.rung \in DOMAIN t.proven => p.at > t.proven[p.rung])}

targetFacts(w, t) ==
  LET declared == Range(t.destinations)
      covered == {h[1] : h \in t.hops} \intersect declared
  IN Facts([Class |-> t.class, Destinations |-> NonEmpty(declared),
            IndependentDestinations |-> NonEmpty({d \in declared \intersect DOMAIN w.destinations :
                                                     w.destinations[d].independent}),
            ImplementedHops |-> NonEmpty(covered), UnimplementedHops |-> NonEmpty(declared \ covered),
            ProvenRungs |-> NonEmpty(DOMAIN t.proven),
            UnprovenRungs |-> NonEmpty(declared \ DOMAIN t.proven),
            FailedProofRungs |-> NonEmpty({p.rung : p \in Failed(t)}),
            LastFailedProofAt |-> IF Failed(t) = {} THEN Unstated
                                  ELSE CHOOSE n \in {p.at : p \in Failed(t)} :
                                         \A p \in Failed(t) : p.at <= n])

targetRows(w) == LET names == SetToSeq(DOMAIN w.targets)
                 IN [i \in DOMAIN names |-> Row(names[i], targetFacts(w, w.targets[names[i]]))]

destinationFacts(d) == [Independent |-> d.independent]
destinationRows(w) == LET names == SetToSeq(DOMAIN w.destinations)
                      IN [i \in DOMAIN names |-> Row(names[i], destinationFacts(w.destinations[names[i]]))]

-----------------------------------------------------------------------------
(* jobs.go                                                                  *)

classRank(class) == CASE class = "recreate" -> 0 [] class = "replicate" -> 1 [] class = "backup" -> 2
                      [] OTHER -> -1

\* jobJoins: a job stands for every target of its own name or with a hop it
\* implements on this host, and takes the gravest class among them.
Joined(w, job) ==
  {t \in DOMAIN w.targets : t = job \/ \E h \in w.targets[t].hops : h[2] = "here" /\ h[3] = job}
jobJoins(w, job) ==
  LET classes == {w.targets[t].class : t \in Joined(w, job)} \ {Unstated}
  IN IF classes = {} THEN Unstated
     ELSE CHOOSE c \in classes : \A d \in classes : classRank(d) <= classRank(c)

\* jobFacts: the checker's verdict ("none" is its filler), its age never below
\* zero, the receipts, and the class or why there is none.
jobFacts(w, j) ==
  LET declared == IF j.target \in DOMAIN w.targets THEN w.targets[j.target].class ELSE Unstated
      class == IF declared # Unstated THEN declared ELSE jobJoins(w, j.job)
      result == IF receipts(w).result # Unstated THEN receipts(w).result ELSE j.last
  IN Facts([Job |-> j.job, State |-> IF j.state = "none" THEN Unstated ELSE j.state,
            CheckedAgeSeconds |-> IF w.checked = Unstated THEN Unstated
                                  ELSE IF w.now < w.checked THEN 0 ELSE w.now - w.checked,
            LastResult |-> IF result \in {"none", "unknown"} THEN Unstated ELSE result,
            ReceiptsUnobservable |-> receipts(w).fault, TargetClass |-> class,
            TargetNotScoped |-> IF class = Unstated /\ j.target = "null" THEN TRUE ELSE Unstated,
            TargetClassUnjoined |-> IF class = Unstated /\ j.target # "null" THEN TRUE ELSE Unstated])

jobRows(w) == LET named == SelectSeq(w.jobs, LAMBDA j : j.job # Unstated)
              IN [i \in DOMAIN named |-> Row(named[i].job, jobFacts(w, named[i]))]

-----------------------------------------------------------------------------
(* collect.go, verbs.go                                                     *)

rows(c, w) ==
  LET read == IF c = "jobs" THEN <<readManifest(w), hostname(w), readStatus(w)>> ELSE <<readManifest(w)>>
  IN IF ~IsDoc(FirstFailure(read)) THEN FirstFailure(read)
     ELSE Plain(CASE c = "targets" -> targetRows(w) [] c = "destinations" -> destinationRows(w)
                  [] c = "jobs" -> jobRows(w))

\* collectOne: mark reads the clock, and keeps the reading before when it cannot.
collectOne(c, w) == LET got == rows(c, w)
                    IN IF got.is = "rows" THEN [got EXCEPT !.stamped = w.clock] ELSE got

Opening(w) == Doc("nothing")
Collect(c, held, w) == IF c \in Served THEN collectOne(c, w) ELSE NotServed

serveObject(c, name, w) ==
  IF c \notin Served THEN Refusal("unsupported")
  ELSE Opened(rows(c, w), name, LAMBDA row : Response(<<ObjectRecord(row)>>))

\* evidenceCanonical: the manifest; or the verdict with the job's receipts.
evidenceCanonical(c, w) == IF c = "jobs" THEN {<<"status", "document">>, <<"receipts", receipts(w).fault>>}
                           ELSE {<<"manifest", "document">>}

serveEvidence(c, name, w) ==
  IF c \notin Served THEN Refusal("unsupported")
  ELSE Opened(rows(c, w), name, LAMBDA row : Response(<<EvidenceRecord(evidenceCanonical(c, w), 1, 8)>>))

\* What the manifest declares and the checker knows, readable or not.
Holds(c, w) ==
  IF interfaceAbsent(w) \/ w.manifest \in {"missing", "not an object"} THEN {}
  ELSE CASE c = "targets" -> DOMAIN w.targets
         [] c = "destinations" -> DOMAIN w.destinations
         [] c = "jobs" -> {w.jobs[i].job : i \in DOMAIN w.jobs} \ {Unstated}
=============================================================================
