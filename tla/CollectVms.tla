------------------------------ MODULE CollectVms ------------------------------
(* se-collect-vms: the libvirt domains of the host, walked with virsh.       *)
EXTENDS CollectorKit

Served == {"domains"}
Verbs == {"declare", "probe", "collect", "object", "evidence"}

-----------------------------------------------------------------------------
(* The world: the read-only socket - there, missing, or behind a directory   *)
(* whose traversal is denied -, each virsh invocation of the walk, the       *)
(* domains, the lease files, and what a capture stages.                      *)

\* undefined: the domain goes away after the list and before its own calls.
Domain(name) == [name |-> name, state |-> "1", kib |-> 2048, macs |-> {"m1"}, taps |-> <<"vnet0">>,
                 xml |-> "ok", undefined |-> FALSE]
A == Domain("a")

Fine == [replay |-> FALSE, socket |-> "there", clock |-> TRUE, virsh |-> "ok", domains |-> <<A>>,
         leased |-> {"m1"}, persistent |-> {"a"}, staged |-> "list", shape |-> "right"]

Worlds ==
  {Fine, [Fine EXCEPT !.socket = "missing"], [Fine EXCEPT !.socket = "denied"], [Fine EXCEPT !.clock = FALSE], [Fine EXCEPT !.leased = {}],
   [Fine EXCEPT !.domains = <<>>, !.clock = FALSE], [Fine EXCEPT !.persistent = {}]}
  \union {[Fine EXCEPT !.virsh = v] : v \in {"missing", "list", "persistent", "autostart"}}
  \union {[Fine EXCEPT !.domains = <<A, d>>] :
            d \in {Domain("b"), [Domain("b") EXCEPT !.undefined = TRUE], [Domain("b") EXCEPT !.state = "5"],
                   [Domain("b") EXCEPT !.state = "9"], [Domain("b") EXCEPT !.macs = {}],
                   [Domain("b") EXCEPT !.xml = "garbage"]}}
  \union {[Fine EXCEPT !.replay = TRUE, !.staged = s, !.shape = x] :
            s \in {"none", "unreadable", "garbage", "list"}, x \in {"right", "no xml", "not a list", "addresses"}}

-----------------------------------------------------------------------------
(* live.go                                                                  *)

domainStates == [s \in {"1", "5"} |-> IF s = "1" THEN "running" ELSE "shutoff"]

\* kibToMiB rounds to the nearest.
kibToMiB(kib) == (kib + 512) \div 1024

\* leaseAddresses: the interfaces libvirt's own lease files hold an address for.
leaseAddresses(w) == w.leased

\* domainIdentity: the interfaces the definition names, read as far as it parses.
domainIdentity(d) == IF d.xml = "ok" THEN d.macs ELSE {}

\* An entry of the document: a state libvirt has no word for keeps its number;
\* only a running domain is given addresses.
Entry(w, d) ==
  LET state == IF d.state \in DOMAIN domainStates THEN domainStates[d.state] ELSE d.state
  IN [name |-> d.name, state |-> state, memory |-> kibToMiB(d.kib), taps |-> d.taps, xml |-> d.xml,
      persistent |-> d.name \in w.persistent,
      ips |-> IF state = "running" THEN domainIdentity(d) \intersect leaseAddresses(w) ELSE {}]

\* liveDomains: three lists, then two calls per domain; one that fails - the
\* domain was undefined in between - fails the walk.
liveDomains(w) ==
  IF w.virsh # "ok" \/ \E i \in DOMAIN w.domains : w.domains[i].undefined THEN Error
  ELSE Doc([i \in DOMAIN w.domains |-> Entry(w, w.domains[i])])

-----------------------------------------------------------------------------
(* source.go                                                                *)

replayDomains(w) == CASE w.staged = "none" -> Declined("absent")
                      [] w.staged = "list" -> Doc([i \in DOMAIN w.domains |-> Entry(w, w.domains[i])])
                      [] OTHER -> Error

\* Any failure to stat the socket is its absence.
domains(w) == CASE w.replay -> replayDomains(w)
                [] ~w.replay /\ w.socket # "there" -> Declined("absent")
                [] OTHER -> liveDomains(w)

\* Mutant: a host is asked for the domains only when it collects.
probeAlways(w) == TRUE

probe(w) == IsDoc(domains(w))

-----------------------------------------------------------------------------
(* domains.go, domainxml.go                                                 *)

\* hostTaps: the host side of each interface; a definition that does not
\* parse names none.
hostTaps(d) == IF d.xml = "ok" THEN d.taps ELSE <<>>

\* buildDomain: no address for a running domain is a stated inability.
buildDomain(d) ==
  Row(d.name, Facts([State |-> d.state, MemoryMiB |-> d.memory, Persistent |-> d.persistent,
                     HostTaps |-> hostTaps(d),
                     IPAddresses |-> IF d.ips = {} THEN Unstated ELSE d.ips,
                     IPAddressesUnobservable |-> IF d.ips = {} /\ d.state = "running"
                                                 THEN "no address source" ELSE Unstated]))

\* domainRows: one misshapen domain refuses the whole document.
domainRows(w) ==
  LET got == domains(w)
  IN CASE ~IsDoc(got) -> got
       [] IsDoc(got) /\ w.replay /\ w.shape # "right" -> Error
       [] OTHER -> Doc([i \in DOMAIN got.doc |-> buildDomain(got.doc[i])])

\* The clock is read with the first row.
collectDomains(w) ==
  LET rows == domainRows(w)
  IN CASE ~IsDoc(rows) -> rows
       [] IsDoc(rows) /\ rows.doc # <<>> /\ ~w.replay /\ ~w.clock -> Error
       [] OTHER -> Plain(rows.doc)

Opening(w) == Doc("nothing")
Collect(c, held, w) == IF c \in Served THEN collectDomains(w) ELSE NotServed

-----------------------------------------------------------------------------
(* verbs.go                                                                 *)

Taps(row) == [i \in DOMAIN row.facts.HostTaps |->
                [record |-> "relation_assertion", edge |-> Edge("owns", "link", row.facts.HostTaps[i])]]

\* serveObject: the row, and the links the domain's interfaces own.
serveObject(c, name, w) ==
  IF c \notin Served THEN Refusal("unsupported")
  ELSE LET rows == domainRows(w)
       IN Opened(IF IsDoc(rows) THEN Plain(rows.doc) ELSE rows, name, LAMBDA row :
            IF ~w.replay /\ ~w.clock THEN NoResponse ELSE Response(<<ObjectRecord(row)>> \o Taps(row)))

\* serveEvidence: the walk's own entry, whatever its shape.
serveEvidence(c, name, w) ==
  IF c \notin Served THEN Refusal("unsupported")
  ELSE LET got == domains(w)
           listed == IF IsDoc(got) /\ ~(w.replay /\ w.shape = "not a list")
                     THEN Plain([i \in DOMAIN got.doc |-> Row(got.doc[i].name, <<>>)])
                     ELSE IF IsDoc(got) THEN Plain(<<>>) ELSE got
       IN Opened(listed, name, LAMBDA row :
            Response(<<EvidenceRecord({<<"info", "document">>, <<"domain_xml", "document">>}, 1, 8)>>))

\* A socket that is there, and whose stat is refused all the same.
Unlooked(w) == ~w.replay /\ w.socket = "denied"

\* What libvirt lists, to whoever may ask it.
Holds(c, w) == IF (w.replay /\ w.staged = "none") \/ (~w.replay /\ w.socket = "missing") THEN {}
               ELSE {w.domains[i].name : i \in DOMAIN w.domains}
=============================================================================
