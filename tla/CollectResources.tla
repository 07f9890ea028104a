--------------------------- MODULE CollectResources ---------------------------
(* se-collect-resources: the cgroup tree as workloads, with the unit a        *)
(* slice's stall is explained by.                                             *)
EXTENDS CollectorKit

Served == {"workloads"}
Verbs == {"declare", "probe", "collect", "object", "evidence"}
cgroupMaxDepth == 6

-----------------------------------------------------------------------------
(* The world: the hierarchy's root, and its directories in the order they are *)
(* walked.  A directory's pressure is in hundredths of a percent.             *)

rootSlice == "-.slice"
Slices == {rootSlice, "a.slice", "b.slice", "c.slice", "d.slice"}
Units == Slices \union {"x.service", "y.service"}

Dir(path, psi, cpu) == [path |-> path, psi |-> psi, cpu |-> cpu, listable |-> TRUE]
Root == Dir(<<>>, 40, Unstated)
A == Dir(<<"a.slice">>, 200, 7)
X == Dir(<<"a.slice", "x.service">>, 195, 3)
B == Dir(<<"a.slice", "b.slice">>, 195, 3)
Y == Dir(<<"a.slice", "b.slice", "y.service">>, 195, 2)
Inner == Dir(<<"a.slice", "x.service", "y.service">>, 300, 1)       \* named inside a container
Foreign == Dir(<<"a.slice", "payload">>, 300, 1)
Deep == <<Dir(<<"a.slice", "b.slice", "c.slice">>, 1, 1),
          Dir(<<"a.slice", "b.slice", "c.slice", "d.slice">>, 1, 1),
          Dir(<<"a.slice", "b.slice", "c.slice", "d.slice", "p">>, 1, 1),
          Dir(<<"a.slice", "b.slice", "c.slice", "d.slice", "p", "q">>, 1, 1)>>

Fine == [replay |-> FALSE, controllers |-> "ok", clock |-> TRUE, staged |-> "walk", dirs |-> <<Root, A, X>>,
         stat |-> "ok", busy |-> 9, stolen |-> 0, uncaptured |-> FALSE]

Worlds ==
  {Fine, [Fine EXCEPT !.clock = FALSE], [Fine EXCEPT !.busy = 1], [Fine EXCEPT !.stolen = 2],
   [Fine EXCEPT !.dirs[1].listable = FALSE], [Fine EXCEPT !.dirs[2].listable = FALSE]}
  \union {[Fine EXCEPT !.controllers = c] : c \in {"missing", "refused"}}
  \union {[Fine EXCEPT !.stat = s] : s \in {"missing", "odd"}}
  \union {[Fine EXCEPT !.dirs = <<Root, A>> \o more] :
            more \in {<<>>, <<X, Inner>>, <<Foreign>>, <<[X EXCEPT !.psi = 189], Foreign>>, <<B, Y>>, <<B, Y, X>>,
                      <<[X EXCEPT !.psi = 189]>>, <<[X EXCEPT !.psi = Unstated]>>, <<[X EXCEPT !.listable = FALSE]>>,
                      <<[X EXCEPT !.psi = Unstated, !.cpu = Unstated]>>, <<[B EXCEPT !.psi = 1]>> \o Deep,
                      <<Inner, X>>, <<[B EXCEPT !.psi = 1], [Y EXCEPT !.psi = 1], Dir(<<"y.service">>, 1, 1)>>}}
  \union {[Fine EXCEPT !.replay = TRUE, !.staged = s] : s \in {"none", "walk", "garbage"}}
  \union {[Fine EXCEPT !.replay = TRUE, !.uncaptured = TRUE]}

-----------------------------------------------------------------------------
(* source.go                                                                *)

\* What descending reaches: below a directory that cannot be listed, or that
\* is at the bound, nothing.
Reached(w) == SelectSeq(w.dirs, LAMBDA d : \A i \in DOMAIN w.dirs :
                 (w.dirs[i] # d /\ IsPrefix(w.dirs[i].path, d.path)) =>
                   w.dirs[i].listable /\ Len(w.dirs[i].path) < cgroupMaxDepth)

liveWalk(w) == CASE w.controllers = "refused" -> Declined("unauthorised")
                 [] w.controllers = "missing" -> Declined("absent")
                 [] w.controllers = "ok" /\ ~w.clock -> Error
                 [] OTHER -> Doc(Reached(w))

replayWalk(w) == CASE w.staged = "none" -> Declined("absent") [] w.staged = "garbage" -> Error
                   [] OTHER -> Doc(w.dirs)

walk(w) == IF w.replay THEN replayWalk(w) ELSE liveWalk(w)

-----------------------------------------------------------------------------
(* nodes.go: the nodes by key - a unit by its name, anything else by path.    *)

KeyOf(path) == IF path = <<>> THEN <<rootSlice>>
               ELSE IF Last(path) \in Units THEN <<Last(path)>> ELSE <<"/">> \o path
IsUnit(key) == Head(key) \in Units
IsSlice(key) == Head(key) \in Slices

\* readPressure and readCounters: a file that is not there gives no fact.
readPressure(d) == [PsiIoFullAvg60 |-> d.psi]
readCounters(d) == [CpuUsageUsec |-> d.cpu]

\* A name already held at the same depth or shallower keeps its node.
place(found, d, node) ==
  LET key == KeyOf(d.path)
  IN IF key \in DOMAIN found /\ Len(found[key].path) <= Len(d.path) THEN found
     ELSE (key :> node) @@ found

NoReading == [facts |-> <<>>, psi |-> Unstated, cpu |-> Unstated, pruned |-> FALSE]

\* unlistableAt: a member that yielded no reading; the root is never one.
unlistableAt(found, d) ==
  IF d.path = <<>> \/ Len(d.path) >= cgroupMaxDepth THEN found
  ELSE place(found, d, [path |-> d.path] @@ NoReading)

\* readTree: one pass; a node at the last depth read is pruned when it has children.
readTree(w) ==
  LET got == walk(w)
      HasBelow(d) == \E i \in DOMAIN w.dirs : Len(w.dirs[i].path) = Len(d.path) + 1 /\ IsPrefix(d.path, w.dirs[i].path)
      Read(found, d) ==
        CASE ~d.listable -> unlistableAt(found, d)
          [] d.listable /\ Len(d.path) >= cgroupMaxDepth -> found
          [] OTHER -> place(found, d, [path |-> d.path, facts |-> Facts(readPressure(d) @@ readCounters(d)),
                                       psi |-> d.psi, cpu |-> d.cpu,
                                       pruned |-> Len(d.path) + 1 >= cgroupMaxDepth /\ HasBelow(d)])
  IN CASE ~IsDoc(got) -> got
       [] IsDoc(got) /\ w.replay /\ w.uncaptured -> Error
       [] OTHER -> Doc(FoldLeft(Read, <<>>, got.doc))

\* The parent is the node held for the directory above, if one is.
At(found, path) == {k \in DOMAIN found : found[k].path = path}
Above(path) == {SubSeq(path, 1, n) : n \in 0..(Len(path) - 1)}
Parent(found, k) == IF found[k].path = <<>> THEN {} ELSE At(found, Front(found[k].path))

\* managed: reached from the root through slices alone.
managed(found, k) == \A p \in Above(found[k].path) : \E a \in At(found, p) : IsSlice(a)

\* sliceMembers: what is below a slice, through slices alone.
sliceMembers(found, s) ==
  {k \in DOMAIN found \ {s} :
     /\ IsPrefix(found[s].path, found[k].path)
     /\ \A p \in Above(found[k].path) \ Above(found[s].path) : \E a \in At(found, p) : IsSlice(a)}

-----------------------------------------------------------------------------
(* attribution.go                                                           *)

slackFor(value) == IF value \div 20 > 5 THEN value \div 20 ELSE 5

\* stallAttribution for one slice that stalls: what accounts for it, or why
\* nothing can be said, or that nothing does.
stallAttribution(found, s) ==
  LET value == found[s].psi
      members == sliceMembers(found, s)
      Num(k) == found[k].psi # Unstated
      accounts == {k \in members : Num(k) /\ IsUnit(k) /\ found[k].psi >= value - slackFor(value)}
      highest == {k \in accounts : \A j \in accounts : found[j].psi <= found[k].psi}
      deepest == {k \in highest : \A j \in highest : Len(found[j].path) <= Len(found[k].path)}
      cut == {k \in members \union {s} : (k = s \/ IsSlice(k)) /\ found[k].pruned}
      none == CASE cut # {} -> "cut"
                [] cut = {} /\ \E k \in members : ~Num(k) -> "unread"
                [] cut = {} /\ (\A k \in members : Num(k)) /\ \E k \in members : ~IsUnit(k) -> "foreign"
                [] members = {} -> "no member"
                [] OTHER -> "all read"
  IN CASE ~IsUnit(s) \/ ~IsSlice(s) \/ ~managed(found, s) -> <<>>
       [] IsSlice(s) /\ managed(found, s) /\ value = Unstated -> <<>>
       [] OTHER -> IF value <= 0 THEN <<>>
                   ELSE IF accounts # {} THEN [StallExplainedBy |-> CHOOSE k \in deepest : TRUE]
                   ELSE IF none = "all read" THEN [StallUnexplained |-> none]
                   ELSE [StallAttributionUnobservable |-> none]

-----------------------------------------------------------------------------
(* nodes.go: the host's remainder, and the rows.                             *)

hostCPUTotals(w) == IF w.stat = "ok" THEN [busy |-> w.busy, stolen |-> w.stolen] ELSE Unstated

\* unattributedCPU: busy time no first-level cgroup accounts for, never negative.
unattributedCPU(found, w) ==
  LET first == {k \in DOMAIN found : Len(found[k].path) = 1 /\ found[k].cpu # Unstated}
      attributed == FoldLeft(LAMBDA n, k : n + found[k].cpu, 0, SetToSeq(first))
      host == hostCPUTotals(w)
  IN IF first = {} \/ w.stat # "ok" THEN <<>>
     ELSE Facts([HostCpuBusyUsec |-> host.busy,
                 UnattributedCpuUsec |-> IF host.busy > attributed THEN host.busy - attributed ELSE 0,
                 HostCpuStolenUsec |-> IF host.stolen # 0 THEN host.stolen ELSE Unstated])

\* rows: the units this host's manager named that yielded a reading, and the
\* root when it has the remainder to carry.
rows(found, w) ==
  LET remainder == unattributedCPU(found, w)
      named == {k \in DOMAIN found : found[k].facts # <<>> /\ IsUnit(k) /\ managed(found, k)}
               \union IF remainder # <<>> THEN {<<rootSlice>>} \intersect DOMAIN found ELSE {}
      Delegates(k) == ~IsSlice(k) /\ \E j \in DOMAIN found : k \in Parent(found, j)
      FactsOf(k) ==
        Facts([Parent |-> IF Parent(found, k) = {} THEN Unstated ELSE CHOOSE p \in Parent(found, k) : TRUE,
               Depth |-> Len(found[k].path), Delegated |-> IF Delegates(k) THEN TRUE ELSE Unstated])
        @@ found[k].facts @@ stallAttribution(found, k)
        @@ (IF found[k].path = <<>> THEN remainder ELSE <<>>)
  IN SetToSeq({Row(Head(k), FactsOf(k)) : k \in named})

collectWorkloads(w) ==
  LET tree == readTree(w) IN IF IsDoc(tree) THEN Plain(rows(tree.doc, w)) ELSE tree

probe(w) == IsDoc(readTree(w))
Opening(w) == Doc("nothing")
Collect(c, held, w) == IF c \in Served THEN collectWorkloads(w) ELSE NotServed

-----------------------------------------------------------------------------
(* verbs.go                                                                 *)

serveObject(c, name, w) ==
  IF c \notin Served THEN Refusal("unsupported")
  ELSE Opened(collectWorkloads(w), name, LAMBDA row : Response(<<ObjectRecord(row)>>))

\* serveEvidence: the node's own files, and the host's counters for the root.
serveEvidence(c, name, w) ==
  IF c \notin Served THEN Refusal("unsupported")
  ELSE Opened(collectWorkloads(w), name, LAMBDA row :
         Response(<<EvidenceRecord({<<"cgroup files", "document">>} \union
                                   (IF name = rootSlice THEN {<<"/proc/stat", "document">>} ELSE {}), 1, 8)>>))

\* The units the manager runs with a reading to give: in slices alone, and
\* the only directory of that name.
Manages(w, d) ==
  LET steps == IF d.path = <<>> THEN {} ELSE {Front(d.path)[i] : i \in 1..(Len(d.path) - 1)}
  IN /\ d.path # <<>> /\ Last(d.path) \in Units /\ steps \subseteq Slices
     /\ (d.psi # Unstated \/ d.cpu # Unstated) /\ Len(d.path) < cgroupMaxDepth
     /\ \A i \in DOMAIN w.dirs : (w.dirs[i].path # <<>> /\ Last(w.dirs[i].path) = Last(d.path)) => w.dirs[i] = d
Present(w) == IF w.replay THEN w.staged # "none" ELSE w.controllers # "missing"
Managed(w) == IF Present(w) THEN SelectSeq(w.dirs, LAMBDA d : Manages(w, d)) ELSE <<>>

Names(ds) == {Last(ds[i].path) : i \in DOMAIN ds}
Holds(c, w) == Names(SelectSeq(Managed(w), LAMBDA d : w.replay \/ (d.listable /\ Contains(Reached(w), d))))

\* Below a directory that could not be listed: not read, and not on any row.
Unread(c, w) == Names(Managed(w)) \ Holds(c, w)
=============================================================================
