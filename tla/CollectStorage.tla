---------------------------- MODULE CollectStorage ----------------------------
(* se-collect-storage: ZFS pools and datasets, block devices, mounts, md      *)
(* arrays, and the snapshots of one dataset on request.                       *)
EXTENDS CollectorKit

Served == {"pools", "block-devices", "mounts", "datasets", "arrays"}
Verbs == {"declare", "probe", "collect", "object", "evidence", "lookup"}
Lookups == {"snapshots-of"}

\* snapshotDisplayCap is 100 in the code, scaled down here.
snapshotDisplayCap == 2

-----------------------------------------------------------------------------
(* The world: what each command meets ("no tool", "failed", "ok", and in a    *)
(* capture "unstaged"), and the state it would answer with.                   *)

Vdev(name, depth, kind) == [name |-> name, depth |-> depth, kind |-> kind, group |-> "data", state |-> "ONLINE",
                            errors |-> 0, alias |-> "sda", parity |-> 0]
D1 == Vdev("d1", 2, "disk")
D2 == Vdev("d2", 2, "disk")
Mirror == <<Vdev("mirror-0", 1, "mirror"), D1, D2>>
Raid(n) == <<[Vdev("raidz-0", 1, "raidz") EXCEPT !.parity = n], D1, D2>>
Scan == [function |-> "SCRUB", end |-> "epoch"]
Pool(vdevs) == [name |-> "tank", vdevs |-> vdevs, scan |-> Scan, status |-> "text"]

Dataset(name) == [name |-> name, used |-> 30, avail |-> 70, readonly |-> "local"]
Array(name) == [name |-> name, listed |-> TRUE, state |-> "clean", action |-> "idle", done |-> 0, total |-> 0,
                members |-> <<[dev |-> "sda", errors |-> 0]>>]
Snapshot(name, created, used) == [name |-> name, created |-> created, used |-> used]

Fine == [replay |-> FALSE, clock |-> TRUE, zpool |-> "ok", list |-> "ok", links |-> TRUE, zfs |-> "ok",
         lsblk |-> "ok", findmnt |-> "ok", sysBlock |-> TRUE, pools |-> <<Pool(Mirror)>>,
         devices |-> <<<<"sda", Unstated>>, <<"sda1", "sda">>>>, mounts |-> <<"/", "/home">>,
         datasets |-> <<Dataset("tank")>>, arrays |-> <<Array("md0")>>, snapshots |-> <<Snapshot("s1", 1, 5)>>]

Worlds ==
  {Fine, [Fine EXCEPT !.clock = FALSE], [Fine EXCEPT !.links = FALSE], [Fine EXCEPT !.list = "failed"],
   [Fine EXCEPT !.sysBlock = FALSE], [Fine EXCEPT !.pools = <<>>, !.datasets = <<>>]}
  \union {[Fine EXCEPT !.zpool = m, !.zfs = m] : m \in {"no tool", "failed"}}
  \union {[Fine EXCEPT !.zpool = "plain"]}
  \union {[Fine EXCEPT !.lsblk = "failed"]} \union {[Fine EXCEPT !.findmnt = m] : m \in {"failed", "own view"}}
  \union {[Fine EXCEPT !.pools = <<Pool(v)>>] :
            v \in {Raid(1), Raid(2), <<Vdev("d0", 1, "disk")>> \o Mirror, <<Vdev("mirror-0", 1, "mirror"), D1>>,
                   <<Vdev("odd", 1, "odd")>>, Mirror \o <<[Vdev("d9", 1, "disk") EXCEPT !.group = "logs"]>>,
                   <<Vdev("d0", 1, "disk")>>, Mirror \o Raid(1), <<[Vdev("d0", 1, "disk") EXCEPT !.alias = Unstated]>>}}
  \union {[Fine EXCEPT !.pools[1].vdevs[2].state = "FAULTED", !.pools[1].vdevs[3].errors = 3],
          [Fine EXCEPT !.pools[1].vdevs[2].state = "AVAIL"], [Fine EXCEPT !.pools[1].status = "odd"]}
  \union {[Fine EXCEPT !.pools[1].scan = [function |-> f, end |-> e]] :
            f \in {"SCRUB", "RESILVER", Unstated}, e \in {"none", "prose", "outside"}}
  \union {[Fine EXCEPT !.devices = @ \o more] :
            more \in {<<<<"md0", "sda1">>, <<"md0", "sdb1">>>>, <<<<Unstated, "sda">>>>}}
  \union {[Fine EXCEPT !.mounts = <<"/", Unstated>>], [Fine EXCEPT !.mounts = <<"/", "/mnt", "/mnt">>]}
  \union {[Fine EXCEPT !.datasets = <<Dataset("tank"), d>>] :
            d \in {[Dataset("b") EXCEPT !.readonly = "temporary"], [Dataset("b") EXCEPT !.used = 0, !.avail = 0],
                   [Dataset("b") EXCEPT !.used = Unstated], [Dataset("b") EXCEPT !.used = 25, !.avail = 15]}}
  \union {[Fine EXCEPT !.arrays = <<a>>] :
            a \in {[Array("md0") EXCEPT !.listed = FALSE], [Array("md0") EXCEPT !.members[1].errors = 2],
                   [Array("md0") EXCEPT !.action = "check", !.done = 1, !.total = 3],
                   [Array("md0") EXCEPT !.done = 1], [Array("md0") EXCEPT !.state = Unstated]}}
  \union {[Fine EXCEPT !.snapshots = s] :
            s \in {<<>>, <<Snapshot("s1", 1, 5), Snapshot("s2", 9, 1), Snapshot("s3", 4, Unstated)>>}}
  \union {[Fine EXCEPT !.replay = TRUE], [Fine EXCEPT !.replay = TRUE, !.zpool = "unstaged"],
          [Fine EXCEPT !.replay = TRUE, !.zpool = "unstaged", !.list = "unstaged"],
          [Fine EXCEPT !.replay = TRUE, !.list = "unstaged"], [Fine EXCEPT !.replay = TRUE, !.zfs = "unstaged"],
          [Fine EXCEPT !.replay = TRUE, !.lsblk = "unstaged"], [Fine EXCEPT !.replay = TRUE, !.findmnt = "unstaged"]}

-----------------------------------------------------------------------------
(* source.go                                                                *)

\* zpool: the integer form, then the plain one; a zpool with neither is too
\* old.  The listing may fail on its own.
liveZpool(w) == CASE w.zpool = "no tool" -> Declined("absent")
                  [] w.zpool = "failed" -> Declined("unsupported")
                  [] OTHER -> Doc([pools |-> w.pools, list |-> w.list = "ok"])
replayZpool(w) == CASE w.zpool = "unstaged" /\ w.list = "unstaged" -> Declined("absent")
                    [] w.zpool = "unstaged" /\ w.list # "unstaged" -> Error
                    [] OTHER -> Doc([pools |-> w.pools, list |-> w.list = "ok"])
zpool(w) == IF w.replay THEN replayZpool(w) ELSE liveZpool(w)

\* A zfs list that fails ends the process; no zfs, or none staged, is absence.
zfsList(w) == CASE w.zfs \in {"no tool", "unstaged"} -> Declined("absent")
                [] w.zfs = "failed" -> Error
                [] OTHER -> Doc(w.datasets)

lsblk(w) == CASE w.lsblk = "unstaged" -> Error [] w.lsblk = "failed" -> Declined("unavailable")
              [] OTHER -> Doc(w.devices)

\* findmnt: PID 1's mounts, or this process's own view of them.
findmnt(w) == CASE w.findmnt = "unstaged" -> Error [] w.findmnt = "failed" -> Declined("unavailable")
                [] OTHER -> Doc(w.mounts)

\* mdTree: a directory that cannot be listed lists nothing.
mdTree(w) == IF w.sysBlock THEN SelectSeq(w.arrays, LAMBDA a : a.listed) ELSE <<>>

stamp(w) == w.replay \/ w.clock
probe(w) == IsDoc(zpool(w))

-----------------------------------------------------------------------------
(* vdevs.go                                                                 *)

Healthy == {"ONLINE", "AVAIL", "INUSE"}
unhealthyVdevs(vdevs) == SelectSeq(vdevs, LAMBDA v : v.state \notin Healthy)
vdevsWithErrors(vdevs) == SelectSeq(vdevs, LAMBDA v : v.errors # 0)

\* resolveKname: through the alias tree, when one could be read.
resolveKname(v, links) == IF links THEN v.alias ELSE Unstated

\* redundancy: each data vdev's layout and the failures it survives, mirrors
\* by counting their members; the pool survives what its weakest does.  A
\* shape the walk does not know makes no claim.
Walked == [layouts |-> <<>>, tolerance |-> <<>>, members |-> Unstated, ok |-> TRUE]
Close(s) ==
  CASE s.members = Unstated -> s
    [] s.members # Unstated /\ s.members < 2 -> [s EXCEPT !.ok = FALSE]
    [] OTHER -> [s EXCEPT !.layouts = Append(@, <<"mirror", 0>>), !.tolerance = Append(@, s.members - 1),
                          !.members = Unstated]
redundancy(vdevs) ==
  LET Step(s, v) ==
        CASE ~s.ok \/ v.group # "data" -> s
          [] s.ok /\ v.group = "data" /\ v.depth = 1 ->
               LET c == Close(s)
               IN CASE ~c.ok -> c
                    [] c.ok /\ v.kind = "disk" -> [c EXCEPT !.layouts = Append(@, <<"stripe", 0>>),
                                                            !.tolerance = Append(@, 0)]
                    [] c.ok /\ v.kind = "mirror" -> [c EXCEPT !.members = 0]
                    [] c.ok /\ v.kind = "raidz" -> [c EXCEPT !.layouts = Append(@, <<"raidz", v.parity>>),
                                                             !.tolerance = Append(@, v.parity)]
                    [] OTHER -> [c EXCEPT !.ok = FALSE]
          [] OTHER -> IF s.members # Unstated /\ v.depth = 2 /\ v.kind = "disk"
                      THEN [s EXCEPT !.members = @ + 1] ELSE s
      end == Close(FoldLeft(Step, Walked, vdevs))
      distinct == {end.layouts[i] : i \in DOMAIN end.layouts}
      least == CHOOSE n \in {end.tolerance[i] : i \in DOMAIN end.tolerance} :
                 \A i \in DOMAIN end.tolerance : n <= end.tolerance[i]
  IN IF ~end.ok \/ end.layouts = <<>> THEN <<>>
     ELSE [Redundancy |-> IF Cardinality(distinct) = 1 THEN <<end.layouts[1]>> ELSE end.layouts,
           DeviceFailuresTolerated |-> least]

-----------------------------------------------------------------------------
(* scan.go, pools.go                                                        *)

\* computeScanFacts: an end time outside the calendar ends the process; one in
\* prose gives no age; only the most recent scan is recorded, and when that is
\* not a scrub the last scrub's time cannot be read.
computeScanFacts(scan) ==
  [facts |-> Facts([ScanFunction |-> scan.function, ScanEndTime |-> IF scan.end = "none" THEN Unstated ELSE scan.end,
                    ScanAgeDays |-> IF scan.end = "epoch" THEN 3 ELSE Unstated]),
   unobservable |-> (IF scan.end = "prose" THEN {<<"ScanAgeDays", "unsupported">>} ELSE {}) \union
                    (IF scan.function \in {Unstated, "SCRUB"} THEN {} ELSE {<<"LastScrubEndTime", "unavailable">>})]

capacityFacts == {"SizeBytes", "CapacityPercent"}

backedBy(vdevs) ==
  LET disks == SelectSeq(vdevs, LAMBDA v : v.kind = "disk")
  IN [i \in DOMAIN disks |-> Edge("backed-by", "block-device", disks[i].name)]

buildPool(p, list, links) ==
  LET scan == computeScanFacts(p.scan)
      disks == {v \in {p.vdevs[i] : i \in DOMAIN p.vdevs} : v.kind = "disk"}
      layout == redundancy(p.vdevs)
      Names(vs) == [i \in DOMAIN vs |-> vs[i].name]
  IN [name |-> p.name,
      facts |-> scan.facts @@ layout @@ (IF list THEN [f \in capacityFacts |-> 1] ELSE <<>>) @@
                [UnhealthyVdevs |-> Names(unhealthyVdevs(p.vdevs)), VdevsWithErrors |-> Names(vdevsWithErrors(p.vdevs)),
                 Devices |-> {<<v.name, resolveKname(v, links)>> : v \in disks}],
      edges |-> backedBy(p.vdevs),
      unobservable |-> scan.unobservable \union
                       (IF links THEN {} ELSE {<<<<v.name, "Device">>, "unavailable">> : v \in disks}) \union
                       (IF list THEN {} ELSE {<<f, "unavailable">> : f \in capacityFacts}) \union
                       (IF layout # <<>> THEN {} ELSE {<<f, "unsupported">> : f \in {"Redundancy",
                                                                                    "DeviceFailuresTolerated"}})]

\* A pool whose status is not text, or whose last scan is outside the calendar.
Unreadable(p) == p.status = "odd" \/ p.scan.end = "outside"

collectPools(w) ==
  LET got == zpool(w)
  IN CASE ~IsDoc(got) -> got
       [] IsDoc(got) /\ got.doc.pools # <<>> /\ (~stamp(w) \/ Unreadable(got.doc.pools[1])) -> Error
       [] OTHER -> WithAll([i \in DOMAIN got.doc.pools |-> buildPool(got.doc.pools[i], got.doc.list, w.links)])

-----------------------------------------------------------------------------
(* blockdev.go, mounts.go, datasets.go, arrays.go                           *)

\* flattenDevices: a device under several parents is one row that names them.
flattenDevices(nodes) ==
  LET named == SelectSeq(nodes, LAMBDA d : d[1] # Unstated)
      first == SelectSeq([i \in DOMAIN named |-> <<i, named[i]>>],
                         LAMBDA e : \A j \in 1..(e[1] - 1) : named[j][1] # e[2][1])
  IN [i \in DOMAIN first |->
        Row(first[i][2][1],
            [Parents |-> {named[j][2] : j \in {k \in DOMAIN named : named[k][1] = first[i][2][1]}} \ {Unstated}])]

collectBlockDevices(w) ==
  CASE ~stamp(w) -> Error
    [] stamp(w) /\ ~IsDoc(lsblk(w)) -> lsblk(w)
    [] OTHER -> Plain(flattenDevices(lsblk(w).doc))

\* One row per mount, in the order of the tree: a target mounted over appears twice.
collectMounts(w) ==
  CASE ~stamp(w) -> Error
    [] stamp(w) /\ ~IsDoc(findmnt(w)) -> findmnt(w)
    [] OTHER -> LET named == SelectSeq(findmnt(w).doc, LAMBDA t : t # Unstated)
                IN Plain([i \in DOMAIN named |-> Row(named[i], [FsType |-> "ext4"])])

\* usePercent, rounded to even.
roundEven(n, d) ==
  LET q == n \div d
      r == 2 * (n % d)
  IN IF r > d \/ (r = d /\ q % 2 = 1) THEN q + 1 ELSE q

\* A read-only state masked by this process's own namespace is not the dataset's.
datasetRow(d) ==
  [Row(d.name, Facts([UsedBytes |-> d.used, AvailBytes |-> d.avail,
                      UsePercent |-> IF d.used = Unstated THEN Unstated
                                     ELSE IF d.used + d.avail = 0 THEN Unstated
                                     ELSE roundEven(d.used * 100, d.used + d.avail),
                      ReadOnly |-> IF d.readonly = "temporary" THEN Unstated ELSE "off",
                      ReadOnlySource |-> d.readonly]))
   EXCEPT !.unobservable = IF d.readonly = "temporary" THEN {<<"ReadOnly", "unavailable">>} ELSE {}]

collectDatasets(w) ==
  LET got == zfsList(w)
  IN CASE ~IsDoc(got) -> got
       [] IsDoc(got) /\ got.doc # <<>> /\ ~stamp(w) -> Error
       [] OTHER -> WithAll([i \in DOMAIN got.doc |-> datasetRow(got.doc[i])])

mdActiveSync == {"resync", "recover", "check", "repair", "reshape"}

\* A running synchronisation is the array's status; its share is in tenths of a percent.
arrayRow(a) ==
  Row(a.name, Facts([Status |-> IF a.action \in mdActiveSync THEN a.action ELSE a.state, ArrayState |-> a.state,
                     SyncPercent |-> IF a.total = 0 THEN Unstated ELSE roundEven(a.done * 1000, a.total),
                     MembersWithErrors |-> SelectSeq(a.members, LAMBDA m : m.errors # 0)]))

collectArrays(w) ==
  LET arrays == mdTree(w)
  IN IF arrays # <<>> /\ ~stamp(w) THEN Error ELSE Plain([i \in DOMAIN arrays |-> arrayRow(arrays[i])])

serve(c, w) == CASE c = "pools" -> collectPools(w) [] c = "block-devices" -> collectBlockDevices(w)
                 [] c = "mounts" -> collectMounts(w) [] c = "datasets" -> collectDatasets(w)
                 [] c = "arrays" -> collectArrays(w)

Opening(w) == Doc("nothing")
Collect(c, held, w) == IF c \in Served THEN serve(c, w) ELSE NotServed

-----------------------------------------------------------------------------
(* verbs.go, lookup.go                                                      *)

\* captureCollection and serveObject: the collection's own lines about the name.
serveObject(c, name, w) ==
  IF c \notin Served THEN Refusal("unsupported")
  ELSE Opened(serve(c, w), name, LAMBDA row :
         Response(<<ObjectRecord(row)>> \o [i \in DOMAIN row.edges |-> [record |-> "relation_assertion",
                                                                       edge |-> row.edges[i]]]))

\* evidenceCanonical: the command's whole answer; only zpool and zfs decline.
evidenceCanonical(c, w) == CASE c = "pools" -> zpool(w) [] c = "datasets" -> zfsList(w)
                             [] c = "block-devices" -> IF IsDoc(lsblk(w)) THEN lsblk(w) ELSE Error
                             [] c = "mounts" -> IF IsDoc(findmnt(w)) THEN findmnt(w) ELSE Error
                             [] c = "arrays" -> Doc(mdTree(w))

serveEvidence(c, name, w) ==
  IF c \notin Served THEN Refusal("unsupported")
  ELSE LET listing == serve(c, w)
           got == evidenceCanonical(c, w)
       IN CASE listing.is = "error" \/ (listing.is = "declined" /\ got.is = "error") -> NoResponse
            [] listing.is = "declined" /\ got.is = "declined" -> Refusal(got.reason)
            [] OTHER -> IF listing.is = "rows" /\ name \in NamesOf(listing.rows)
                        THEN Response(<<EvidenceRecord({<<c, "document">>}, 1, 8)>>)
                        ELSE Refusal("unavailable")

\* The inputs of a lookup: a dataset, everything below it, or no such name.
Inputs(c) == {"tank", "tank/*", "not a name"}

\* serveLookup: every snapshot is counted and summed, and the newest are shown.
serveLookup(c, input, w) ==
  LET newest == SortSeq(w.snapshots, LAMBDA a, b : a.created > b.created)
      shown == SubSeq(newest, 1, IF Len(newest) > snapshotDisplayCap THEN snapshotDisplayCap ELSE Len(newest))
      known == SelectSeq(newest, LAMBDA s : s.used # Unstated)
  IN CASE c \notin Lookups \/ input \notin {"tank", "tank/*"} -> Refusal("unsupported")
       [] w.zfs \in {"no tool", "unstaged"} -> Refusal("absent")
       [] w.zfs = "failed" \/ ~stamp(w) -> NoResponse
       [] OTHER -> Response(<<ObjectRecord(Row(input,
                      Facts([Recursive |-> input = "tank/*", Count |-> Len(newest),
                             TotalUsedBytes |-> Total(known, LAMBDA s : s.used),
                             Newest |-> [i \in DOMAIN shown |-> shown[i].name],
                             Omitted |-> IF Len(newest) > Len(shown) THEN Len(newest) - Len(shown) ELSE Unstated]))),
                     [record |-> "relation_assertion", edge |-> Edge("member-of", "dataset", "tank")]>>)

\* What the host has: by the tools' own account, and the arrays of the kernel.
Holds(c, w) ==
  CASE c = "pools" -> IF w.zpool \in {"no tool", "unstaged"} THEN {} ELSE NamesOf(w.pools)
    [] c = "datasets" -> IF w.zfs \in {"no tool", "unstaged"} THEN {} ELSE NamesOf(w.datasets)
    [] c = "block-devices" -> {w.devices[i][1] : i \in DOMAIN w.devices} \ {Unstated}
    [] c = "mounts" -> {w.mounts[i] : i \in DOMAIN w.mounts} \ {Unstated}
    [] c = "arrays" -> NamesOf(mdTree(w))

\* Arrays whose directory could not be listed: not read, and committed without.
Unread(c, w) == IF c = "arrays" THEN NamesOf(w.arrays) \ Holds(c, w) ELSE {}
=============================================================================
