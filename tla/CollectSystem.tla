---------------------------- MODULE CollectSystem ----------------------------
(* se-collect-system: what this machine is, its time service, its load and    *)
(* its boot.  One row per collection.                                         *)
EXTENDS CollectorKit

Served == {"identity", "time", "overview", "boot"}
Verbs == {"declare", "probe", "collect", "object", "evidence"}
Buses == {"hostname1", "timedate1", "timesync1", "systemd1"}

-----------------------------------------------------------------------------
(* The world: the boot clock, the files, what each bus answers, the kernel's  *)
(* counters, the nix pointers and the EFI variables.                          *)

Entry(id, uuid) == [id |-> id, uuid |-> uuid]
Efi == [order |-> <<1, 2>>, current |-> 1, entries |-> <<Entry(1, "here"), Entry(2, "gone"), Entry(3, "gone"),
                                                         Entry(4, Unstated)>>]
Memory == [total |-> 200, available |-> 100, arc |-> 20, swap |-> 8, swapFree |-> 4]

Fine == [replay |-> FALSE, clock |-> TRUE, osRelease |-> "ok", id |-> "debian", hostname |-> "ok", machineID |-> "ok",
         tool |-> TRUE, bus |-> [b \in Buses |-> "ok"], uptime |-> "ok", cpus |-> 4, now |-> TRUE, mem |-> Memory,
         nix |-> "system-7-link", efi |-> Efi]

Worlds ==
  {Fine, [Fine EXCEPT !.clock = FALSE], [Fine EXCEPT !.id = Unstated], [Fine EXCEPT !.tool = FALSE],
   [Fine EXCEPT !.cpus = 0], [Fine EXCEPT !.now = FALSE], [Fine EXCEPT !.uptime = "garbage"],
   [Fine EXCEPT !.machineID = "missing"], [Fine EXCEPT !.nix = Unstated], [Fine EXCEPT !.nix = "other"],
   [Fine EXCEPT !.efi = Unstated], [Fine EXCEPT !.efi.order = <<>>],
   [Fine EXCEPT !.osRelease = "missing", !.tool = FALSE]}
  \union {[Fine EXCEPT !.osRelease = x] : x \in {"missing", "unreadable"}}
  \union {[Fine EXCEPT !.hostname = "failed"]}
  \union {[Fine EXCEPT !.bus[b] = x] : b \in Buses, x \in {"failed", "garbage"}}
  \union {[Fine EXCEPT !.mem = m] :
            m \in {Unstated, [Memory EXCEPT !.arc = 150], [Memory EXCEPT !.arc = Unstated],
                   [Memory EXCEPT !.swap = 0, !.swapFree = 0], [Memory EXCEPT !.available = 199]}}
  \union {[Fine EXCEPT !.replay = TRUE, !.bus[b] = "uncaptured"] : b \in Buses}
  \union {[Fine EXCEPT !.replay = TRUE], [Fine EXCEPT !.replay = TRUE, !.hostname = "uncaptured"],
          [Fine EXCEPT !.replay = TRUE, !.machineID = "uncaptured"],
          [Fine EXCEPT !.replay = TRUE, !.osRelease = "missing"],
          [Fine EXCEPT !.replay = TRUE, !.bus["timesync1"] = "failed"]}

-----------------------------------------------------------------------------
(* source.go                                                                *)

\* busCall: no busctl is no systemd; a call that fails is the service's silence.
busCall(w, b) == CASE ~w.tool -> Declined("absent")
                   [] w.tool /\ w.bus[b] = "failed" -> Declined("unavailable")
                   [] OTHER -> Doc(w.bus[b])

\* bus: a request the capture does not stage is a broken capture, and one
\* staged as false failed when it was captured.
bus(w, b) == CASE w.bus[b] = "uncaptured" -> Error
               [] w.bus[b] = "failed" -> Declined("unavailable")
               [] OTHER -> Doc(w.bus[b])

Ask(w, b) == IF w.replay THEN bus(w, b) ELSE busCall(w, b)

\* propertiesOf: a document of another signature is one this cannot read.
propertiesOf(got) == IF IsDoc(got) THEN IF got.doc = "garbage" THEN Declined("unavailable") ELSE got ELSE got

osRelease(w) == CASE w.osRelease = "missing" -> Declined("absent")
                  [] w.osRelease = "unreadable" -> Declined("unavailable")
                  [] OTHER -> Doc("read")

hostname(w) == CASE w.hostname = "ok" -> Doc("h")
                 [] w.hostname = "uncaptured" -> Error
                 [] OTHER -> Declined("unavailable")

stamp(w) == IF w.replay \/ w.clock THEN Doc(1) ELSE Error

\* probe: the hostname and the boot id; the bus is not asked.
probe(w) == IsDoc(hostname(w))

-----------------------------------------------------------------------------
(* collect.go                                                               *)

One(name, facts) == <<Row(name, facts)>>

hostname1Facts == [Chassis |-> "vm"]
systemd1IdentityFacts == [Architecture |-> "x86-64"]

\* A service that did not answer, or not in its own shape, leaves its facts
\* unobservable, and the record carries the sentence as its reason.
FactsOr(got, facts) == IF IsDoc(propertiesOf(got)) THEN facts ELSE <<>>
Unreadable(got, facts) == IF IsDoc(propertiesOf(got)) THEN {} ELSE {<<f, "a sentence">> : f \in DOMAIN facts}

\* collectIdentity: its could-not-reads are written and not counted.
collectIdentity(w) ==
  LET host1 == Ask(w, "hostname1")
      manager == Ask(w, "systemd1")
      first == FirstFailure(<<stamp(w), osRelease(w), hostname(w)>>)
  IN CASE ~IsDoc(first) -> first
       [] IsDoc(first) /\ (host1.is = "error" \/ manager.is = "error" \/ w.machineID = "uncaptured") -> Error
       [] OTHER ->
            Answer(<<[Row("h", Facts([Hostname |-> "h", OsId |-> w.id,
                                      MachineID |-> IF w.machineID = "ok" THEN "id" ELSE Unstated])
                               @@ FactsOr(host1, hostname1Facts) @@ FactsOr(manager, systemd1IdentityFacts))
                      EXCEPT !.unobservable = Unreadable(host1, hostname1Facts) \union
                                              Unreadable(manager, systemd1IdentityFacts)]>>, 0, 0)

timesyncFacts == [CurrentNTPServer |-> "s", PollIntervalSeconds |-> <<32, 2048>>]

\* collectTime: a silent timesyncd costs its own facts, said and counted.
collectTime(w) ==
  LET first == FirstFailure(<<stamp(w), propertiesOf(Ask(w, "timedate1")), hostname(w)>>)
      sync == Ask(w, "timesync1")
      dark == {<<f, "unavailable">> : f \in DOMAIN timesyncFacts}
  IN CASE ~IsDoc(first) -> first
       [] IsDoc(first) /\ sync.is = "error" -> Error
       [] OTHER ->
            LET read == IsDoc(propertiesOf(sync))
            IN WithAll(<<[Row("h", [Timezone |-> "utc"] @@ (IF read THEN timesyncFacts ELSE <<>>))
                          EXCEPT !.unobservable = IF read THEN {} ELSE dark]>>)

-----------------------------------------------------------------------------
(* overview.go                                                              *)

\* roundEven(n * 100 / d)
roundEven(n, d) ==
  LET q == (n * 100) \div d
      r == 2 * ((n * 100) % d)
  IN IF r > d \/ (r = d /\ q % 2 = 1) THEN q + 1 ELSE q

arcFacts(m) == IF m.arc = Unstated THEN 0 ELSE m.arc

\* meminfoBytes and what is derived of them: the cache a filesystem would give
\* back is not used memory, and no more of it than is used is taken off.
meminfoBytes(m) ==
  LET used == m.total - m.available
      adjusted == IF used > arcFacts(m) THEN used - arcFacts(m) ELSE 0
  IN [MemUsedBytes |-> used, MemUsedPercent |-> roundEven(used, m.total),
      MemUsedPercentAdjusted |-> roundEven(adjusted, m.total), SwapUsedBytes |-> m.swap - m.swapFree,
      SwapUsedPercent |-> IF m.swap > 0 THEN roundEven(m.swap - m.swapFree, m.swap) ELSE Unstated,
      ArcSizeBytes |-> m.arc]

\* Each counter is there or is listed absent; the row is published regardless.
collectOverview(w) ==
  IF stamp(w).is = "error" THEN Error
  ELSE Plain(One("host",
         Facts([UptimeSeconds |-> IF w.uptime = "ok" THEN 60 ELSE Unstated,
                BootedAt |-> IF w.uptime = "ok" /\ w.now THEN "a time" ELSE Unstated,
                LoadPerCpu1 |-> IF w.cpus > 0 THEN 100 \div w.cpus ELSE Unstated])
         @@ Facts(IF w.mem = Unstated THEN <<>> ELSE meminfoBytes(w.mem))))

-----------------------------------------------------------------------------
(* boot.go                                                                  *)

Position(efi, id) == LET at == {k \in DOMAIN efi.order : efi.order[k] = id}
                     IN IF at = {} THEN Unstated ELSE CHOOSE k \in at : \A j \in at : k <= j

\* emitEFI: an entry whose partition no device has is stale; those the
\* firmware would still try are named.
emitEFI(efi) ==
  LET entry(e) == Facts([ID |-> e.id, Current |-> e.id = efi.current, OrderPosition |-> Position(efi, e.id),
                         Device |-> IF e.uuid = "here" THEN "block-device" ELSE Unstated,
                         Stale |-> IF e.uuid = Unstated THEN Unstated ELSE e.uuid = "gone"])
      stale == SelectSeq(efi.entries, LAMBDA e : e.uuid = "gone" /\ Position(efi, e.id) # Unstated)
  IN [Firmware |-> "uefi", BootOrder |-> efi.order, BootCurrent |-> efi.current,
      BootEntries |-> [i \in DOMAIN efi.entries |-> entry(efi.entries[i])],
      StaleOrderedBootEntries |-> [i \in DOMAIN stale |-> stale[i].id]]

nixFacts(w) == IF w.nix = Unstated THEN <<>>
               ELSE Facts([CurrentSystem |-> "path", SystemProfileGeneration |-> IF w.nix = "system-7-link" THEN 7
                                                                                 ELSE Unstated])

collectBoot(w) ==
  LET first == FirstFailure(<<stamp(w), propertiesOf(Ask(w, "systemd1"))>>)
  IN IF ~IsDoc(first) THEN first
     ELSE Plain(One("boot", [SystemState |-> "running"] @@ nixFacts(w) @@
                            (IF w.efi = Unstated THEN [Firmware |-> "bios"] ELSE emitEFI(w.efi))))

-----------------------------------------------------------------------------
serve(c, w) == CASE c = "identity" -> collectIdentity(w) [] c = "time" -> collectTime(w)
                 [] c = "overview" -> collectOverview(w) [] c = "boot" -> collectBoot(w)

Opening(w) == Doc("nothing")
Collect(c, held, w) == IF c \in Served THEN serve(c, w) ELSE NotServed

-----------------------------------------------------------------------------
(* verbs.go                                                                 *)

\* captureCollection and serveObject: the collection's own lines about the name.
serveObject(c, name, w) ==
  IF c \notin Served THEN Refusal("unsupported")
  ELSE Opened(serve(c, w), name, LAMBDA row :
         Response(<<ObjectRecord(row)>> \o SetToSeq({[record |-> "unobservable", fact |-> u[1]] : u \in row.unobservable})))

\* redactEnvironment: the values of the manager's environment are withheld.
redactEnvironment(got) == IF got.doc = "ok" THEN {<<"Environment", "withheld">>} ELSE {<<"answer", "document">>}

\* evidenceCanonical: the sources the row is read from, read again.
evidenceCanonical(c, w) ==
  LET host == hostname(w)
      read == CASE c = "overview" -> Doc({<<"proc", "document">>})
                [] c = "identity" -> IF IsDoc(osRelease(w)) THEN Doc({<<"os-release", "document">>})
                                     ELSE IF osRelease(w).reason = "absent" THEN osRelease(w) ELSE Error
                [] c = "time" -> IF IsDoc(Ask(w, "timedate1")) THEN Doc({<<"timedate1", "document">>}) ELSE Error
                [] c = "boot" -> LET got == Ask(w, "systemd1")
                                 IN CASE IsDoc(got) -> Doc(redactEnvironment(got))
                                      [] got.is = "declined" /\ got = Declined("absent") -> got
                                      [] OTHER -> Error
  IN IF IsDoc(host) THEN read ELSE Error

\* serveEvidence: a collection that declined matches any name, and its
\* sources are read again to say so.
serveEvidence(c, name, w) ==
  IF c \notin Served THEN Refusal("unsupported")
  ELSE LET listing == serve(c, w)
           got == evidenceCanonical(c, w)
           matched == listing.is = "declined" \/ (listing.is = "rows" /\ name \in NamesOf(listing.rows))
       IN CASE listing.is = "error" -> NoResponse
            [] listing.is # "error" /\ ~matched -> Refusal("unavailable")
            [] matched /\ got.is = "declined" -> Refusal(got.reason)
            [] matched /\ got.is = "error" -> NoResponse
            [] OTHER -> Response(<<EvidenceRecord(got.doc, 1, 8)>>)

\* The host is always something; its os-release and its systemd may not be there.
Holds(c, w) == CASE c = "identity" -> IF w.osRelease = "missing" THEN {} ELSE {"h"}
                 [] c = "time" -> IF w.replay \/ w.tool THEN {"h"} ELSE {}
                 [] c = "overview" -> {"host"}
                 [] c = "boot" -> IF w.replay \/ w.tool THEN {"boot"} ELSE {}
=============================================================================
