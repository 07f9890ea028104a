---------------------------- MODULE CollectHardware ----------------------------
(* se-collect-hardware: the machine's own account of itself in sysfs - the     *)
(* platform, the PCI and USB devices, the SCSI topology and the NVMe           *)
(* controllers - with each drive's health from udisks2, smartctl and hwmon.    *)
EXTENDS CollectorKit

Served == {"platform", "pci", "usb", "scsi", "nvme"}
Verbs == {"declare", "probe", "collect", "object", "evidence"}

-----------------------------------------------------------------------------
(* The world.  `sysfs` is there, missing, or such that no tree of it may be    *)
(* looked at; `unlisted` names the directory the kernel would not list, and   *)
(* `missing` the collection a capture lacks a primitive of.  A node of the    *)
(* SCSI topology has the nodes above it (chain) as its path names them, and a *)
(* rank: its place in the natural order of names.                             *)

\* What smartctl and its snapshots hold for one device, and udisks2's object.
Smart == [snapshot |-> Declined("none"), age |-> 5, reason |-> Unstated, usable |-> FALSE, answer |-> Error]
Ata == [supported |-> TRUE, failing |-> FALSE, badSectors |-> 0, kelvin |-> 300, powerOnSeconds |-> 5400,
        warnings |-> {}]
unsetU64 == -1           \* 2^64 - 1 in the code: "not set"
Link == [speed |-> "6.0", max |-> "6.0", slot |-> Unstated]

Node(name, rank, kind, chain) ==
  [name |-> name, rank |-> rank, kind |-> kind, chain |-> chain, vendor |-> "ATA", sas |-> Unstated,
   block |-> Unstated, serial |-> "s", slot |-> Unstated, link |-> Link, pci |-> Unstated,
   smart |-> Smart, udisks |-> Unstated, hwmon |-> Unstated]
Host == [Node("host0", 1, "scsi-host", <<>>) EXCEPT !.pci = "0000:00:1f.2"]
Expander == Node("expander-0:0", 2, "expander", <<"host0">>)
Disk == [Node("0:0:0:0", 3, "disk", <<"host0">>) EXCEPT !.block = "sda"]
Deep == [Disk EXCEPT !.name = "0:0:1:0", !.rank = 4, !.chain = <<"host0", "expander-0:0">>, !.sas = "5000",
                     !.vendor = "SEAGATE", !.block = "sdb", !.slot = "0:0:2:0"]
Ses == [Node("0:0:2:0", 5, "enclosure", <<"host0">>) EXCEPT !.vendor = Unstated]

Nvme == [Node("nvme0", 1, "nvme-controller", <<>>) EXCEPT !.pci = "0000:01:00.0", !.link.slot = "8.0"]
Controller(node, namespaces, wwids) == [node |-> node, namespaces |-> namespaces, wwids |-> wwids]

Fine == [replay |-> FALSE, clock |-> TRUE, sysfs |-> "there", payload |-> "staged", missing |-> "none",
         unlisted |-> "none", lscpu |-> "ok", cores |-> "4", meminfo |-> "ok",
         pci |-> <<"0000:00:1f.2", "0000:01:00.0">>, usb |-> <<"1-0:1.0", "1-1", "usb1">>, udev |-> TRUE,
         scsi |-> <<Host, Disk>>, nvme |-> <<Controller(Nvme, <<"nvme0n1">>, <<"w">>)>>, udisks |-> TRUE]

Smarts ==
  {[Smart EXCEPT !.snapshot = Doc([SmartTemperatureC |-> 41, SmartAvailableSparePct |-> s,
                                   SmartSpareThresholdPct |-> 10])] : s \in {9, 10, 11}}
  \union {[Smart EXCEPT !.snapshot = Doc(<<>>), !.reason = r] : r \in {Unstated, "standby"}}
  \union {[Smart EXCEPT !.usable = TRUE, !.answer = a, !.reason = r] :
            a \in {Error, Doc(<<>>), Doc([SmartOverallPassed |-> TRUE])}, r \in {Unstated, "other"}}
  \union {[Smart EXCEPT !.snapshot = Error], [Smart EXCEPT !.snapshot = Doc(<<>>), !.age = -1]}

Drives == {[Disk EXCEPT !.smart = s] : s \in Smarts}
          \union {[Disk EXCEPT !.udisks = u, !.hwmon = h] :
                    u \in {Ata, [Ata EXCEPT !.supported = FALSE], [Ata EXCEPT !.badSectors = unsetU64, !.kelvin = 0]},
                    h \in {38, Unstated}}
          \union {[Disk EXCEPT !.link = [speed |-> s, max |-> m, slot |-> Unstated]] :
                    s \in {"3.0", Unstated}, m \in {"6.0", Unstated}}
          \union {[Disk EXCEPT !.block = Unstated], [Disk EXCEPT !.chain = <<"host9">>]}

Worlds ==
  {Fine, [Fine EXCEPT !.clock = FALSE], [Fine EXCEPT !.sysfs = "missing"], [Fine EXCEPT !.sysfs = "denied"], [Fine EXCEPT !.udev = FALSE],
   [Fine EXCEPT !.udisks = FALSE], [Fine EXCEPT !.lscpu = "failed"], [Fine EXCEPT !.cores = "four"]}
  \union {[Fine EXCEPT !.meminfo = m] : m \in {"odd", "none"}}
  \union {[Fine EXCEPT !.unlisted = c] : c \in Served \ {"platform"}}
  \union {[Fine EXCEPT !.scsi = <<Host, d>>] : d \in Drives}
  \union {[Fine EXCEPT !.scsi = <<Host, Expander, Disk, Deep, Ses>>]}
  \union {[Fine EXCEPT !.nvme = <<Controller([Nvme EXCEPT !.smart = s], <<"nvme0n1">>, <<"w">>)>>] : s \in Smarts}
  \union {[Fine EXCEPT !.nvme = <<Controller([Nvme EXCEPT !.link.max = "8.0", !.link.speed = s], ns, ws)>>] :
            s \in {"6.0", "8.0"}, ns \in {<<>>, <<"nvme0n1", "nvme0n2">>},
            ws \in {<<"w", "w">>, <<"w", "v">>, <<"w", Unstated>>}}
  \union {[Fine EXCEPT !.replay = TRUE, !.payload = p] : p \in {"staged", "none", "broken"}}
  \union {[Fine EXCEPT !.replay = TRUE, !.missing = c] : c \in Served}

-----------------------------------------------------------------------------
(* source.go                                                                *)

\* Live, none of five trees shows as a directory, whatever kept it from it; in
\* a capture, no tree document.
sysfsAbsent(w) == IF w.replay THEN w.payload = "none" ELSE w.sysfs # "there"

\* failure: the first primitive a capture does not have, or cannot decode,
\* fails the collection that needed it rather than read the replaying machine.
failure(c, w) == w.replay /\ (w.payload = "broken" \/ w.missing = c)

\* A directory that cannot be listed lists nothing.
listdir(c, s, w) == IF w.unlisted = c THEN <<>> ELSE s

\* lscpu: no tool, a timeout or an unusable document; platformItems goes on without.
lscpu(w) == IF w.lscpu = "ok" THEN [Cores |-> w.cores] ELSE <<>>

\* udev: without it the identity the database gives is not stated.
udev(w) == IF w.udev THEN [Vendor |-> "vendor"] ELSE <<>>

\* drives: udisks2 asked once for every drive it manages; none in a capture.
drives(w) == w.udisks /\ ~w.replay

probe(w) == ~sysfsAbsent(w)

-----------------------------------------------------------------------------
(* inventory.go                                                             *)

intOrNone(text) == IF text = "4" THEN 4 ELSE Unstated
memTotalBytes(w) == IF w.meminfo = "ok" THEN 1024 ELSE Unstated

platformItems(w) ==
  <<Row("hostname", Facts([CPUs |-> IF lscpu(w) = <<>> THEN Unstated ELSE intOrNone(lscpu(w).Cores),
                           MemoryTotalBytes |-> memTotalBytes(w), SysVendor |-> "vendor"]))>>

pciItems(w) == LET at == listdir("pci", w.pci, w) IN [i \in DOMAIN at |-> Row(at[i], udev(w))]

\* Ports and hubs by name: an interface directory is not a device.
usbDeviceName(n) == n # "1-0:1.0"
usbItems(w) ==
  LET at == SelectSeq(listdir("usb", w.usb, w), usbDeviceName)
  IN [i \in DOMAIN at |-> Row(at[i], udev(w) @@ [Vendor |-> "manufacturer", Hub |-> at[i] = "usb1"])]

-----------------------------------------------------------------------------
(* smart.go, udisks.go                                                      *)

\* roundEven of a/b, for kelvinToCelsius and the hours of SmartPowerOnSeconds.
roundEven(n, d) ==
  LET q == n \div d
      r == 2 * (n % d)
  IN IF r > d \/ (r = d /\ q % 2 = 1) THEN q + 1 ELSE q
kelvinToCelsius(k) == IF k <= 0 THEN Unstated ELSE roundEven(100 * k - 27315, 100)

\* driveHealthByBlock: ATA health only from a drive that supports SMART.
driveHealth(n, w) ==
  CASE n.udisks = Unstated -> <<>>
    [] n.udisks # Unstated /\ (~drives(w) \/ n.block = Unstated) -> <<>>
    [] OTHER -> LET u == n.udisks
                    ata == Facts([SmartFailing |-> u.failing,
                                  SmartBadSectors |-> IF u.badSectors = unsetU64 THEN Unstated ELSE u.badSectors,
                                  SmartTemperatureC |-> kelvinToCelsius(u.kelvin),
                                  SmartPowerOnHours |-> IF u.powerOnSeconds > 0
                                                        THEN roundEven(u.powerOnSeconds, 3600) ELSE Unstated])
                IN [Firmware |-> "revision"] @@ (IF u.supported THEN ata ELSE <<>>)

\* smartDeep: the root snapshot of the device, else the first usable node
\* asked once; a recorded reason is stated with or without either.
smartDeep(n, w) ==
  LET s == n.smart
      said == Facts([SmartSnapshotReason |-> s.reason])
      asked == IF s.usable \/ w.replay THEN s.answer ELSE Error
  IN CASE IsDoc(s.snapshot) -> s.snapshot.doc @@ said @@ [SmartSnapshotAgeSeconds |-> IF s.age < 0 THEN 0 ELSE s.age]
       [] ~IsDoc(s.snapshot) /\ IsDoc(asked) -> asked.doc @@ said
       [] OTHER -> said

\* linkStatus: at its own maximum, held back by the slot, or degraded.
linkStatus(l) == CASE Unstated \in {l.speed, l.max} -> Unstated
                   [] Unstated \notin {l.speed, l.max} /\ l.speed = l.max -> "at-maximum"
                   [] Unstated \notin {l.speed, l.max} /\ l.speed # l.max /\ l.speed = l.slot -> "capped-by-slot"
                   [] OTHER -> "degraded"

judgementFacts(f, l) ==
  Facts([SmartSpareBelowThreshold |->
           IF {"SmartAvailableSparePct", "SmartSpareThresholdPct"} \subseteq DOMAIN f
           THEN f.SmartAvailableSparePct <= f.SmartSpareThresholdPct ELSE Unstated,
         SmartSnapshotAsleep |-> IF "SmartSnapshotReason" \in DOMAIN f THEN f.SmartSnapshotReason = "standby" ELSE Unstated,
         LinkSpeedStatus |-> linkStatus(l)])

smartHealthFacts == {"SmartFailing", "SmartOverallPassed", "SmartCriticalWarning", "SmartSelftestStatus",
                     "SmartPercentUsed", "SmartAvailableSparePct", "SmartMediaErrors", "SmartBadSectors",
                     "SmartTemperatureC", "SmartPowerOnHours"}

noReadingReason(f) == CASE "SmartSnapshotReason" \in DOMAIN f -> "recorded"
                        [] "SmartSnapshotAgeSeconds" \in DOMAIN f -> "empty snapshot"
                        [] OTHER -> "no snapshot"

\* applyUnobservable: a drive with no reading says so, and why.
applyUnobservable(n, f) ==
  IF n.kind \in {"disk", "nvme-controller"} /\ DOMAIN f \intersect smartHealthFacts = {}
  THEN f @@ [SmartUnobservable |-> noReadingReason(f)] ELSE f

\* mergeHealth: udisks2 over the row, hwmon where neither says, smartctl over all.
mergeHealth(n, row, w) ==
  LET found == (IF n.block # Unstated \/ n.kind = "nvme-controller"
                THEN smartDeep(n, w) @@ driveHealth(n, w) @@ Facts([SmartTemperatureC |-> n.hwmon]) ELSE <<>>) @@ row.facts
  IN [row EXCEPT !.facts = applyUnobservable(n, judgementFacts(found, n.link) @@ found)]

-----------------------------------------------------------------------------
(* scsi.go                                                                  *)

transports == {"ATA", "USB", "SATA", "NVMe"}

\* A vendor that names a transport is one; the maker is then in the model name.
Identity(n) ==
  Facts([Transport |-> IF n.vendor \in transports THEN n.vendor ELSE IF n.sas # Unstated THEN "SAS" ELSE Unstated,
         Vendor |-> IF n.vendor \in transports THEN "Seagate" ELSE n.vendor])

\* chainOf: the nearest node above, by the path; published or not.
parentOf(n) == IF n.chain = <<>> THEN Unstated ELSE n.chain[Len(n.chain)]

\* enclosureSlots: which device sits in which slot of which enclosure.
enclosureSlots(e, nodes) == {nodes[i].name : i \in {j \in DOMAIN nodes : nodes[j].slot = e.name}}

rowAssertions(n, namespaces) ==
  (IF parentOf(n) = Unstated THEN <<>> ELSE <<Edge("attached-to", "scsi", parentOf(n))>>) \o
  (IF n.pci = Unstated THEN <<>> ELSE <<Edge("attached-to", "pci", n.pci)>>) \o
  (IF n.block = Unstated THEN <<>> ELSE <<Edge("backs", "block-device", n.block)>>) \o
  [i \in DOMAIN namespaces |-> Edge("backs", "block-device", namespaces[i])] \o
  (IF n.slot = Unstated THEN <<>> ELSE <<Edge("member-of", "scsi", n.slot)>>)

scsiRow(n, nodes) ==
  LET below == {i \in DOMAIN nodes : parentOf(nodes[i]) = n.name}
      own == CASE n.kind = "scsi-host" -> [Devices |-> Cardinality(below)]
               [] n.kind = "expander" -> [Transport |-> "SAS"]
               [] n.kind = "enclosure" -> Identity(n) @@ [Slots |-> enclosureSlots(n, nodes)]
               [] OTHER -> Identity(n) @@ Facts([Block |-> n.block, Serial |-> n.serial, LinkSpeed |-> n.link.speed,
                                                 LinkSpeedMax |-> n.link.max, Enclosure |-> n.slot])
  IN [Row(n.name, own) EXCEPT !.edges = rowAssertions(n, <<>>)]

\* scsiItems: depth first from the roots, a node whose parent is not published
\* being one; siblings in the natural order of their names.
RECURSIVE Below(_, _)
Below(parent, nodes) ==
  LET names == {nodes[i].name : i \in DOMAIN nodes}
      Up(n) == IF parentOf(n) \in names THEN parentOf(n) ELSE Unstated
      children == SortSeq(SelectSeq(nodes, LAMBDA n : Up(n) = parent), LAMBDA a, b : a.rank < b.rank)
  IN FlattenSeq([i \in DOMAIN children |-> <<children[i]>> \o Below(children[i].name, nodes)])

scsiItems(w) ==
  LET nodes == Below(Unstated, listdir("scsi", w.scsi, w))
  IN [i \in DOMAIN nodes |-> mergeHealth(nodes[i], scsiRow(nodes[i], nodes), w)]

-----------------------------------------------------------------------------
(* nvme.go                                                                  *)

\* nvmeWWN: one namespace's own, or the one they all share; otherwise it is
\* said that no name identifies the controller.
nvmeWWN(k) ==
  LET present == {k.wwids[i] : i \in DOMAIN k.namespaces} \ {Unstated}
  IN CASE k.namespaces = <<>> -> <<>>
       [] Len(k.namespaces) = 1 -> Facts([WWN |-> k.wwids[1]])
       [] Len(k.namespaces) > 1 /\ Cardinality(present) = 1 -> [WWN |-> CHOOSE x \in present : TRUE]
       [] OTHER -> [WWNUnobservable |-> "no single name"]

nvmeLinkFacts(n) == Facts([LinkSpeed |-> n.link.speed, LinkSpeedMax |-> n.link.max, SlotLinkSpeedMax |-> n.link.slot])

nvmeItems(w) ==
  LET at == listdir("nvme", w.nvme, w)
  IN [i \in DOMAIN at |->
        LET k == at[i]
        IN mergeHealth(k.node, [Row(k.node.name, nvmeLinkFacts(k.node) @@ nvmeWWN(k) @@ [Namespaces |-> k.namespaces])
                                EXCEPT !.edges = rowAssertions(k.node, k.namespaces)], w)]

-----------------------------------------------------------------------------
(* collect.go, verbs.go                                                     *)

acquire(c, w) == CASE c = "platform" -> platformItems(w) [] c = "pci" -> pciItems(w) [] c = "usb" -> usbItems(w)
                   [] c = "scsi" -> scsiItems(w) [] c = "nvme" -> nvmeItems(w)

\* Whether there is a sysfs is asked once, before the first collection.
Opening(w) == Doc(sysfsAbsent(w))

Collect(c, held, w) ==
  CASE c \notin Served -> NotServed
    [] c \in Served /\ held.doc -> Declined("absent")
    [] c \in Served /\ ~held.doc /\ ((~w.replay /\ ~w.clock) \/ failure(c, w)) -> Error
    [] OTHER -> WithEdges(acquire(c, w))

\* The verbs never read the clock.
serveObject(c, name, w) ==
  CASE c \notin Served -> Refusal("unsupported")
    [] c \in Served /\ sysfsAbsent(w) -> Refusal("absent")
    [] c \in Served /\ ~sysfsAbsent(w) /\ failure(c, w) -> NoResponse
    [] OTHER -> Opened(WithEdges(acquire(c, w)), name, LAMBDA row :
                  Response(<<ObjectRecord(row)>> \o [i \in DOMAIN row.edges |-> [record |-> "relation_assertion"]]))

\* withheld: the serial numbers and the UUID a board carries never leave it.
withheldDMI == {"product_serial", "chassis_serial", "board_serial", "product_uuid"}
withheld(attributes) == {a \in attributes : a[1] \notin withheldDMI}
DMI == {<<s, "secret">> : s \in withheldDMI} \union {<<"sys_vendor", "text">>}

\* deviceDirectory: by the name alone, so it also opens what no row is about;
\* a directory is there even when the one above it cannot be listed.
deviceDirectory(c, name, w) ==
  name \in CASE c = "pci" -> {w.pci[i] : i \in DOMAIN w.pci} [] c = "usb" -> {w.usb[i] : i \in DOMAIN w.usb}
             [] c = "scsi" -> NamesOf(w.scsi) [] c = "nvme" -> {w.nvme[i].node.name : i \in DOMAIN w.nvme}

evidencePayload(c, name, w) == IF c = "platform" THEN withheld(DMI) ELSE {<<"attributes", "text">>}

serveEvidence(c, name, w) ==
  CASE c \notin Served -> Refusal("unsupported")
    [] c \in Served /\ sysfsAbsent(w) -> Refusal("absent")
    [] c \in Served /\ ~sysfsAbsent(w) /\ failure(c, w) -> NoResponse
    [] OTHER -> IF c = "platform" \/ deviceDirectory(c, name, w)
                THEN Response(<<EvidenceRecord(evidencePayload(c, name, w), 1, 8)>>) ELSE Refusal("unavailable")

\* A sysfs that is there and whose stats are refused.
Unlooked(w) == ~w.replay /\ w.sysfs = "denied"

\* The devices there are where their directory can be listed.
Holds(c, w) ==
  IF (IF w.replay THEN w.payload = "none" ELSE w.sysfs = "missing") \/ w.unlisted = c THEN {}
  ELSE CASE c = "platform" -> {"hostname"} [] c = "pci" -> {w.pci[i] : i \in DOMAIN w.pci}
         [] c = "usb" -> {w.usb[i] : i \in DOMAIN w.usb} \ {"1-0:1.0"}
         [] c = "scsi" -> NamesOf(w.scsi) [] c = "nvme" -> {w.nvme[i].node.name : i \in DOMAIN w.nvme}

\* A listing that failed is committed as an empty one.
Unread(c, w) == IF w.unlisted = c THEN Holds(c, [w EXCEPT !.unlisted = "none"]) ELSE {}
=============================================================================
