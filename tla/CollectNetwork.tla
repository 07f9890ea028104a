---------------------------- MODULE CollectNetwork ----------------------------
(* se-collect-network: links, routes, the resolver, listening sockets, the    *)
(* nft ruleset and what it admits to each socket, tailscale's snapshot, and   *)
(* the route-get and resolve lookups.                                         *)
EXTENDS CollectorKit

Ruleset == {"nft-tables", "nft-chains", "nft-rules", "port-exposure"}
Served == Ruleset \union {"links", "routes", "resolver", "listening", "tailscale"}
Verbs == {"declare", "probe", "collect", "object", "evidence", "lookup"}
Lookups == {"route-get", "resolve"}
Inputs(c) == {"address", "hostname", "not a name"}

\* chainWalkMaxDepth is 8 in the code, scaled down here.
chainWalkMaxDepth == 2

-----------------------------------------------------------------------------
(* The world.  A statement of a rule is what it is and the values it names;   *)
(* ports and sources are among them.                                          *)

S(is, values) == [is |-> is, values |-> values]
Accept == S("accept", {})
Jump(chain) == S("jump", {chain})
Rule(chain, handle, expr) == [is |-> "rule", family |-> "inet", table |-> "f", name |-> chain, handle |-> handle,
                              expr |-> expr, hook |-> Unstated, policy |-> Unstated]
Chain(name, hook) == [Rule(name, "none", <<>>) EXCEPT !.is = "chain", !.hook = hook,
                                                      !.policy = IF hook = Unstated THEN Unstated ELSE "drop"]
Table == [Rule("none", "none", <<>>) EXCEPT !.is = "table"]
Map(name, to) == [Rule(name, "none", <<Jump(to)>>) EXCEPT !.is = "map"]

In == <<Table, Chain("in", "input")>>
Bodies ==
  {<<Accept>>, <<S("tcp dport", {"22"}), Accept>>, <<S("tcp dport", {"80"}), Accept>>, <<S("drop", {})>>,
   <<S("tcp dport !=", {"22"}), Accept>>, <<S("l4proto", {"icmp"}), Accept>>, <<S("ct", {}), Accept>>,
   <<S("xt", {}), Accept>>, <<S("odd", {}), Accept>>, <<S("vmap", {}), S("counter", {})>>,
   <<S("iifname", {"lan"}), Accept>>, <<S("iifname !=", {"lan"}), Accept>>,
   <<S("iifname", {"lan"}), S("saddr", {"ten"}), Accept>>}
Jumps == {<<Jump("c1")>>, <<S("tcp dport", {"22"}), Jump("c1")>>, <<S("iifname", {"lan"}), Jump("c1")>>,
          <<S("xt", {}), Jump("c1")>>, <<S("vmap", {"c1"})>>}

Rulesets ==
  {In \o <<Rule("in", "1", b)>> : b \in Bodies}
  \union {In \o <<Chain("c1", Unstated), Rule("in", "1", j), Rule("c1", "2", b)>> :
            j \in Jumps, b \in {<<Accept>>, <<S("tcp dport", {"80"}), Accept>>, <<S("saddr", {"ten"}), Accept>>}}
  \union {In \o <<Chain("c1", Unstated), Rule("in", "1", <<Jump("c1")>>), Rule("c1", "2", <<Jump("in")>>)>>,
          In \o <<Rule("in", "1", <<Accept>>), [Rule("in", "2", <<Accept>>) EXCEPT !.family = "ip6"]>>,
          In \o <<Chain("c1", Unstated), Map("m", "c1"), Rule("in", "1", <<S("vmap", {"@m"})>>)>>,
          In \o <<Chain("c1", Unstated)>>, <<Chain("in", "input"), Table>>, <<>>}

Route(family, dst, table) == [family |-> family, dst |-> dst, dev |-> "eth0", via |-> Unstated, table |-> table,
                              scope |-> IF table = "main" THEN "link" ELSE Unstated]
LinkOf(name, master) == [name |-> name, master |-> master, kind |-> Unstated, mode |-> Unstated]
Fdb(port, master) == [port |-> port, master |-> master, self |-> FALSE, permanent |-> FALSE, multicast |-> FALSE]
Dns(name) == [name |-> name, read |-> TRUE, servers |-> {"9.9.9.9"}, default |-> FALSE]
Peer(name) == [name |-> name, key |-> "k"]
Tcp22 == [protocol |-> "tcp", address |-> "0.0.0.0", port |-> "22", rank |-> 1]
Udp80 == [protocol |-> "udp", address |-> "10.0.0.1", port |-> "80", rank |-> 2]

Fine ==
  [replay |-> FALSE, clock |-> TRUE, nft |-> "ok", entries |-> In \o <<Rule("in", "1", <<Accept>>)>>,
   ip |-> TRUE, captured |-> TRUE, rules |-> TRUE, routes |-> <<Route("ipv4", "10/8", "main")>>,
   prefs |-> {<<"52", 5210>>, <<"main", 32766>>}, links |-> <<LinkOf("eth0", Unstated)>>, fdb |-> {}, lldp |-> TRUE,
   tables |-> {"tcp", "tcp6", "udp", "udp6"}, sockets |-> <<Tcp22, Udp80>>,
   bus |-> "ok", dns |-> {Dns("eth0")}, resolvConf |-> TRUE, hostname |-> TRUE,
   tailscale |-> "ok", self |-> "me", peers |-> <<Peer("you")>>, expiry |-> 0, age |-> 5, now |-> TRUE,
   routeGet |-> "ok", resolve |-> "ok"]

Worlds ==
  {Fine, [Fine EXCEPT !.clock = FALSE], [Fine EXCEPT !.clock = FALSE, !.bus = "failed"],
   [Fine EXCEPT !.ip = FALSE], [Fine EXCEPT !.rules = FALSE], [Fine EXCEPT !.hostname = FALSE]}
  \union {[Fine EXCEPT !.nft = m] : m \in {"no tool", "refused", "silent", "garbage", "empty"}}
  \union {[Fine EXCEPT !.entries = e] : e \in Rulesets}
  \union {[Fine EXCEPT !.routes = r] :
            r \in {<<Route("ipv4", "10/8", "main"), Route("ipv4", "10/8", "52")>>,
                   <<Route("ipv4", "10/8", "main"), Route("ipv4", "10/8", "main")>>,
                   <<Route("ipv6", "default", "main"), [Route("ipv4", "default", "main") EXCEPT !.via = "10.1"]>>}}
  \union {[Fine EXCEPT !.routes = <<Route("ipv4", "10/8", "main"), Route("ipv4", "10/8", "52")>>, !.prefs = p] :
            p \in {{}, {<<"52", 40000>>}, {<<"52", 40000>>, <<"52", 10>>}}}
  \union {[Fine EXCEPT !.links = <<[LinkOf("br0", Unstated) EXCEPT !.kind = "bridge"], LinkOf("eth0", "br0")>>, !.fdb = f] :
            f \in {{}, {Fdb("eth0", "br0")}, {[Fdb("eth0", "br0") EXCEPT !.permanent = TRUE]},
                   {[Fdb("eth0", "br0") EXCEPT !.multicast = TRUE]}, {[Fdb("eth0", "br0") EXCEPT !.self = TRUE]}}}
  \union {[Fine EXCEPT !.links = <<LinkOf("eth0", "br9"), [LinkOf("tap0", Unstated) EXCEPT !.kind = "tun", !.mode = m]>>,
                       !.lldp = FALSE] : m \in {"tap", Unstated}}
  \union {[Fine EXCEPT !.tables = t, !.sockets = s] :
            t \in {{}, {"udp", "udp6"}, {"tcp", "tcp6", "udp", "udp6"}},
            s \in {<<Tcp22>>, <<[Tcp22 EXCEPT !.protocol = "udp", !.rank = 3], Tcp22, Tcp22>>,
                   <<[Tcp22 EXCEPT !.protocol = "tcp6", !.address = "::1"]>>}}
  \union {[Fine EXCEPT !.bus = b, !.resolvConf = r] : b \in {"ok", "failed", "garbage"}, r \in BOOLEAN}
  \union {[Fine EXCEPT !.dns = d] :
            d \in {{}, {[Dns("eth0") EXCEPT !.read = FALSE]}, {[Dns("eth0") EXCEPT !.servers = {}]},
                   {Dns("eth0"), [Dns("wg0") EXCEPT !.default = TRUE]}, {Dns("eth0"), [Dns("wg0") EXCEPT !.default = Unstated]}}}
  \union {[Fine EXCEPT !.tailscale = t] : t \in {"none", "garbage", "wrong shape"}}
  \union {[Fine EXCEPT !.self = s, !.peers = p] :
            s \in {"me", Unstated}, p \in {<<>>, <<Peer(Unstated), Peer("you")>>, <<Peer("you"), Peer("you")>>}}
  \union {[Fine EXCEPT !.expiry = e, !.age = a] : e \in {-25, -24, 23, Unstated}, a \in {-1, 5}}
  \union {[Fine EXCEPT !.routeGet = m, !.resolve = m] : m \in {"failed", "garbage"}}
  \union {[Fine EXCEPT !.replay = TRUE, !.now = n] : n \in BOOLEAN}
  \union {[Fine EXCEPT !.replay = TRUE, !.nft = m] : m \in {"no tool", "garbage"}}
  \union {[Fine EXCEPT !.replay = TRUE, !.captured = FALSE], [Fine EXCEPT !.replay = TRUE, !.bus = "uncaptured"],
          [Fine EXCEPT !.replay = TRUE, !.tailscale = "wrong shape"], [Fine EXCEPT !.replay = TRUE, !.tables = {}]}

-----------------------------------------------------------------------------
(* source.go                                                                *)

\* A decline after the boot clock was read, as every tool's caller does first.
DeclinedAt(reason) == [is |-> "declined", reason |-> reason, stamped |-> TRUE]
stamp(w) == w.replay \/ w.clock

\* nftRuleset: the clock, then the tool; an answer of no bytes is no ruleset.
liveNftRuleset(w) == CASE ~w.clock -> Error
                       [] w.clock /\ w.nft = "no tool" -> Declined("absent")
                       [] w.clock /\ w.nft = "refused" -> Declined("unauthorised")
                       [] w.clock /\ w.nft = "silent" -> Declined("unavailable")
                       [] w.clock /\ w.nft = "garbage" -> Declined("unsupported")
                       [] OTHER -> Doc(IF w.nft = "empty" THEN <<>> ELSE w.entries)
replayNftRuleset(w) == CASE w.nft = "no tool" -> Declined("absent") [] w.nft = "garbage" -> Error
                         [] OTHER -> Doc(w.entries)
nftRuleset(w) == IF w.replay THEN replayNftRuleset(w) ELSE liveNftRuleset(w)

\* ipJSON: an unread clock, no ip, a failure or an unreadable answer are one
\* decline; a payload the capture lacks is a broken capture.
ipJSON(w, doc) == CASE w.replay /\ ~w.captured -> Error
                    [] ~w.replay /\ ~w.clock -> Declined("unavailable")
                    [] ~w.replay /\ w.clock /\ ~w.ip -> DeclinedAt("unavailable")
                    [] OTHER -> Doc(doc)

\* resolve1Call: one busctl call.
resolve1Call(w, met) == CASE w.replay /\ met = "uncaptured" -> Error
                          [] ~stamp(w) \/ met = "failed" -> Declined("unavailable")
                          [] OTHER -> Doc(met)

\* tailscale: the snapshot a root unit leaves; live, anything unreadable is no snapshot.
tailscale(w) == CASE w.tailscale = "none" \/ (~w.replay /\ w.tailscale = "garbage") -> Declined("unavailable")
                  [] w.replay /\ w.tailscale # "ok" /\ w.tailscale # "none" -> Error
                  [] OTHER -> Doc(w.tailscale)

probe(w) == IsDoc(nftRuleset(w))

-----------------------------------------------------------------------------
(* tables.go, chains.go, rules.go                                           *)

Of(entries, is) == SelectSeq(entries, LAMBDA e : e.is = is)
Key(e) == <<e.family, e.table, e.name>>
InTable(entries, t, is) == SelectSeq(Of(entries, is), LAMBDA e : e.family = t.family /\ e.table = t.table)

\* nftTables: a chain or rule ahead of its table in the document is not counted.
nftTables(entries) ==
  LET tables == Of(entries, "table")
      After(t) == LET at == CHOOSE i \in DOMAIN entries : entries[i] = t IN SubSeq(entries, at, Len(entries))
  IN [i \in DOMAIN tables |->
        Row(<<tables[i].family, tables[i].table>>,
            [ChainCount |-> Len(InTable(After(tables[i]), tables[i], "chain")),
             RuleCount |-> Len(InTable(After(tables[i]), tables[i], "rule"))])]

\* verdictTargets: every jump or goto in the expression, however deeply nested.
verdictTargets(expr) == UNION {expr[i].values : i \in {j \in DOMAIN expr : expr[j].is \in {"jump", "vmap"}}} \ {"@m"}
mapReferences(expr) == IF \E i \in DOMAIN expr : "@m" \in expr[i].values THEN {"m"} ELSE {}

\* nftChains: who jumps to a chain, directly or through a verdict map in use.
callersOf(entries, chain) ==
  LET rules == Range(Of(entries, "rule"))
      maps == Range(Of(entries, "map"))
  IN {r.name : r \in {x \in rules : chain.name \in verdictTargets(x.expr)}} \union
     {r.name : r \in {x \in rules : \E m \in maps : m.name \in mapReferences(x.expr) /\ chain.name \in verdictTargets(m.expr)}}

nftChains(entries) ==
  LET chains == Of(entries, "chain")
      RowOf(c) ==
        LET callers == callersOf(entries, c)
        IN [Row(Key(c), Facts([BaseChain |-> c.hook # Unstated, Policy |-> c.policy,
                               RuleCount |-> Len(SelectSeq(Of(entries, "rule"), LAMBDA r : Key(r) = Key(c))),
                               JumpedFrom |-> IF callers = {} THEN Unstated ELSE callers,
                               Unreferenced |-> IF callers = {} /\ c.hook = Unstated THEN TRUE ELSE Unstated]))
            EXCEPT !.edges = <<Edge("member-of", "nft-table", <<c.family, c.table>>)>>]
  IN [i \in DOMAIN chains |-> RowOf(chains[i])]

\* renderRule: what the renderer does not understand stays as residue.
Unrendered == {"xt", "vmap", "odd"}
renderRule(expr) ==
  LET Is(set) == SelectSeq(expr, LAMBDA s : s.is \in set)
      verdicts == Is({"accept", "drop"})
      jumps == Is({"jump"})
  IN [residue |-> Is(Unrendered), verdict |-> IF verdicts = <<>> THEN Unstated ELSE verdicts[Len(verdicts)].is,
      jump |-> IF jumps = <<>> THEN {} ELSE jumps[Len(jumps)].values,
      opaque |-> Is({"xt"}) # <<>>]

nftRules(entries) ==
  LET rules == Of(entries, "rule")
      RowOf(i) ==
        LET r == rules[i]
            rendered == renderRule(r.expr)
            target == IF rendered.jump = {} THEN Unstated ELSE CHOOSE x \in rendered.jump : TRUE
            before == {j \in 1..(i - 1) : Key(rules[j]) = Key(r)}
        IN [Row(<<r.family, r.table, r.name, r.handle>>,
                Facts([Position |-> Cardinality(before), Verdict |-> rendered.verdict, JumpTarget |-> target,
                       Comprehension |-> IF rendered.opaque THEN "opaque"
                                         ELSE IF rendered.residue # <<>> THEN "partial" ELSE "full"]))
            EXCEPT !.edges = <<Edge("member-of", "nft-chain", Key(r))>> \o
                             (IF target = Unstated THEN <<>>
                              ELSE <<Edge("dispatches-to", "nft-chain", <<r.family, r.table, target>>)>>)]
  IN [i \in DOMAIN rules |-> RowOf(i)]

-----------------------------------------------------------------------------
(* listening.go, exposure.go                                                *)

\* acquireListening: the tables that could be read, each socket once, in order.
acquireListening(w) ==
  LET open == SelectSeq(w.sockets, LAMBDA s : stamp(w) /\ s.protocol \in w.tables)
      once == SelectSeq([i \in DOMAIN open |-> <<i, open[i]>>], LAMBDA e : \A j \in 1..(e[1] - 1) : open[j] # e[2])
  IN SortSeq([i \in DOMAIN once |-> once[i][2]], LAMBDA a, b : a.rank < b.rank)
NoTable(w) == ~stamp(w) \/ w.tables = {}

SocketName(s) == <<s.protocol, s.address, s.port>>
listeningScope(address) == CASE address = "0.0.0.0" -> "all-interfaces" [] address = "::1" -> "loopback"
                             [] OTHER -> "specific-address"

collectListening(w) ==
  LET rows == acquireListening(w)
  IN IF NoTable(w) THEN IF stamp(w) THEN DeclinedAt("unavailable") ELSE Declined("unavailable")
     ELSE Plain([i \in DOMAIN rows |->
            Row(SocketName(rows[i]), Facts([Scope |-> listeningScope(rows[i].address),
                                            TablesUnreadable |-> IF Cardinality(w.tables) < 4 THEN TRUE ELSE Unstated]))])

\* walkInputPath: every rule reachable from an input base chain, with every
\* statement of the rules that jumped to it but the bare jump itself.
RECURSIVE walk(_, _, _, _, _)
walk(entries, key, depth, seen, guards) ==
  IF depth > chainWalkMaxDepth \/ key \in seen THEN <<>>
  ELSE LET rules == SelectSeq(Of(entries, "rule"), LAMBDA r : Key(r) = key)
           Below(r) ==
             LET targets == SetToSeq(verdictTargets(r.expr))
                 carried == guards \o SelectSeq(r.expr, LAMBDA s : s.is # "jump")
             IN FlattenSeq([i \in DOMAIN targets |->
                  walk(entries, <<r.family, r.table, targets[i]>>, depth + 1, seen \union {key}, carried)])
       IN FlattenSeq([i \in DOMAIN rules |-> <<[rule |-> rules[i], guards |-> guards]>> \o Below(rules[i])])
walkInputPath(entries) ==
  LET bases == SelectSeq(Of(entries, "chain"), LAMBDA c : c.hook = "input")
  IN FlattenSeq([i \in DOMAIN bases |-> walk(entries, Key(bases[i]), 0, {}, <<>>)])

familyBearsOn(family, protocol) == family \in (IF protocol \in {"tcp", "udp"} THEN {"ip", "inet"} ELSE {"ip6", "inet"})
wire(protocol) == IF protocol = "tcp6" THEN "tcp" ELSE IF protocol = "udp6" THEN "udp" ELSE protocol

\* classifyMatch: what a match narrows.
classifyMatch(s) == CASE s.is \in {"tcp dport", "tcp dport !=", "l4proto"} -> "destination"
                      [] s.is \in {"iifname", "iifname !=", "saddr"} -> "source"
                      [] s.is = "ct" -> "other"
                      [] OTHER -> ""

\* Mutant: an inequality is read as if it narrowed nothing.
ruleBearsOnUnequal(expr, socket) ==
  [sure |-> renderRule(expr).residue = <<>>,
   maybe |-> \A s \in Range(expr) : s.is = "tcp dport" => socket.port \in s.values]

\* ruleBearsOn: each destination term narrows on its own; anything unread, an
\* inequality or a term this does not model costs the rule its certainty.
ruleBearsOn(expr, socket) ==
  LET terms == Range(expr)
      protocols == {IF s.is = "tcp dport" THEN {"tcp"} ELSE s.values : s \in {t \in terms : t.is \in {"tcp dport", "l4proto"}}}
      ports == {s.values : s \in {t \in terms : t.is = "tcp dport"}}
  IN [sure |-> /\ renderRule(expr).residue = <<>>
               /\ \A s \in terms : classifyMatch(s) # "other" /\ s.is \notin {"tcp dport !=", "iifname !="},
      maybe |-> /\ \A p \in protocols : wire(socket.protocol) \in p
                /\ \A p \in ports : socket.port \in p]

\* sourcesOf: the source terms, each a source of its own, or anywhere.
sourcesOf(expr) == LET found == {s \in Range(expr) : classifyMatch(s) = "source"}
                   IN IF found = {} THEN {S("anywhere", {})} ELSE found

\* The rules that admit, or might, with what each says of where from.
admitting(entries, socket) ==
  LET Judge(e) ==
        LET expr == e.guards \o e.rule.expr
            rendered == renderRule(expr)
            unreadable == rendered.verdict = Unstated /\ rendered.jump = {} /\ rendered.residue # <<>>
            bears == ruleBearsOn(expr, socket)
        IN [rule |-> e.rule, expr |-> expr, sure |-> bears.sure /\ ~unreadable,
            admits |-> /\ familyBearsOn(e.rule.family, socket.protocol)
                       /\ rendered.verdict = "accept" \/ unreadable
                       /\ bears.maybe]
      path == walkInputPath(entries)
  IN SelectSeq([i \in DOMAIN path |-> Judge(path[i])], LAMBDA a : a.admits)

exposureFacts(entries, socket) ==
  LET found == Range(admitting(entries, socket))
      certain == UNION {sourcesOf(a.expr) : a \in {x \in found : x.sure}}
      possible == UNION {sourcesOf(a.expr) : a \in found}
      gap == {a.rule.handle : a \in {x \in found : ~x.sure}}
      Some(set) == IF set = {} THEN Unstated ELSE set
  IN Facts([AdmittedFromCertain |-> Some(certain), AdmittedFromPossible |-> Some(possible), ClosureGapRules |-> Some(gap),
            ClosureGap |-> IF gap # {} THEN TRUE ELSE IF possible # {} THEN FALSE ELSE Unstated])

emitExposure(w, entries) ==
  LET rows == acquireListening(w)
  IN IF NoTable(w) THEN Declined("unavailable")
     ELSE Plain([i \in DOMAIN rows |-> Row(SocketName(rows[i]), exposureFacts(entries, rows[i]))])

-----------------------------------------------------------------------------
(* routes.go, links.go                                                      *)

mainTablePref == 32766

\* rulePreferences: the lowest preference that consults each table.
rulePreferences(w, table) ==
  LET of == {p[2] : p \in {q \in (IF w.rules THEN w.prefs ELSE {}) : q[1] = table}}
  IN IF of = {} THEN Unstated ELSE CHOOSE n \in of : \A m \in of : n <= m

routeRow(w, r) ==
  LET pref == rulePreferences(w, r.table)
      main == IF rulePreferences(w, "main") = Unstated THEN mainTablePref ELSE rulePreferences(w, "main")
      connected == \E s \in Range(w.routes) : s.family = r.family /\ s.dst = r.dst /\ s.table = "main" /\ s.scope = "link"
      ahead == IF pref = Unstated THEN FALSE ELSE pref < main
  IN Row(<<r.dst, r.dev, r.via, r.table>>,
         Facts([RulePreference |-> pref, Family |-> r.family,
                ShadowsLocalPrefix |-> IF r.table # "main" /\ ahead /\ connected THEN TRUE ELSE Unstated]))

\* collectRoutes: both families' tables or none; the rules may go unread.
collectRoutes(w) ==
  LET got == ipJSON(w, w.routes)
      rows == SelectSeq(w.routes, LAMBDA r : r.family = "ipv4") \o SelectSeq(w.routes, LAMBDA r : r.family = "ipv6")
  IN IF IsDoc(got) THEN Plain([i \in DOMAIN rows |-> routeRow(w, rows[i])]) ELSE got

linkKind(l) == IF l.kind = "tun" /\ l.mode # Unstated THEN l.mode ELSE l.kind

\* peerMACsByPort: learned unicast neighbours behind a bridge port.
peerMACsByPort(w, port) ==
  {e \in w.fdb : e.port = port /\ e.master # port /\ ~e.self /\ ~e.permanent /\ ~e.multicast}

linkRow(w, l) ==
  [Row(l.name, Facts([Kind |-> linkKind(l), Master |-> l.master,
                      BridgeMembers |-> IF l.kind = "bridge"
                                        THEN Cardinality({i \in DOMAIN w.links : w.links[i].master = l.name}) ELSE Unstated,
                      PeerMACAddresses |-> IF peerMACsByPort(w, l.name) = {} THEN Unstated ELSE peerMACsByPort(w, l.name),
                      LLDPNeighbors |-> IF w.lldp THEN "neighbours" ELSE Unstated]))
   EXCEPT !.edges = IF l.master = Unstated THEN <<>> ELSE <<Edge("enslaved-to", "link", l.master)>>]

\* collectLinks: each master, then what it masters; an unlisted master is no parent.
RECURSIVE linksUnder(_, _)
linksUnder(master, links) ==
  LET Up(l) == IF l.master \in NamesOf(links) THEN l.master ELSE Unstated
      here == SelectSeq(links, LAMBDA l : Up(l) = master)
  IN FlattenSeq([i \in DOMAIN here |-> <<here[i]>> \o linksUnder(here[i].name, links)])

collectLinks(w) ==
  LET got == ipJSON(w, w.links)
      ordered == linksUnder(Unstated, w.links)
  IN IF IsDoc(got) THEN WithEdges([i \in DOMAIN ordered |-> linkRow(w, ordered[i])]) ELSE got

-----------------------------------------------------------------------------
(* resolver.go, tailscale.go                                                *)

\* linkDNS: the links whose resolve1 objects answered and name a server.
linkDNS(w) == {d \in w.dns : d.read /\ d.servers # {}}

resolve1Facts(w) ==
  LET links == linkDNS(w)
      known == links # {} /\ \A d \in links : d.default # Unstated
  IN Facts([ResolverService |-> "systemd-resolved", DNSServersInUse |-> UNION {d.servers : d \in links},
            PerLinkDNS |-> {d.name : d \in links},
            NoLinkTakesDNSDefaultRoute |-> IF known THEN \A d \in links : d.default = FALSE ELSE Unstated])

\* collectResolver: resolve1, or where it does not answer the file; one row,
\* named for the host.
collectResolver(w) ==
  LET got == resolve1Call(w, w.bus)
      file == Row("hostname", [ResolverService |-> "libc-resolv.conf"])
  IN CASE got.is = "error" -> Error
       [] IsDoc(got) /\ w.bus = "garbage" -> DeclinedAt("unavailable")
       [] ~IsDoc(got) /\ got.is # "error" /\ ~w.resolvConf -> IF stamp(w) THEN DeclinedAt("unavailable")
                                                              ELSE Declined("unavailable")
       [] OTHER -> IF ~w.hostname THEN Error
                   ELSE IF IsDoc(got) THEN Plain(<<Row("hostname", resolve1Facts(w))>>)
                   ELSE IF stamp(w) THEN Plain(<<file>>) ELSE Unstamped(<<file>>)

\* keyExpiry: whole days, rounded down whatever the sign.
Day == 24
keyExpiry(s) ==
  IF s = Unstated THEN Unstated
  ELSE LET truncated == IF s < 0 THEN -((-s) \div Day) ELSE s \div Day
       IN IF s < 0 /\ truncated * Day # s THEN truncated - 1 ELSE truncated

\* collectTailscale: this node and each peer with a name; nothing here reads
\* the boot clock, so the rows carry the last reading another collection took.
collectTailscale(w) ==
  LET got == tailscale(w)
      named == SelectSeq(w.peers, LAMBDA p : p.name # Unstated)
      self == Row(IF w.self = Unstated THEN "self" ELSE w.self,
                  Facts([KeyExpiryDays |-> keyExpiry(w.expiry), SnapshotAgeSeconds |-> IF w.age < 0 THEN 0 ELSE w.age]))
  IN CASE ~IsDoc(got) -> got
       [] IsDoc(got) /\ w.replay /\ ~w.now -> Error
       [] OTHER -> Unstamped(<<self>> \o [i \in DOMAIN named |-> Row(named[i].name, [PublicKey |-> named[i].key])])

-----------------------------------------------------------------------------
(* collect.go                                                               *)

\* The ruleset is read once, before the first collection, when the request
\* names one that needs it; a failure that is no decline ends the batch then.
Opening(w) == Doc(nftRuleset(w))
NeedsRuleset(tokens) == \E i \in DOMAIN tokens : tokens[i] \in Ruleset
Fails(tokens, w) == NeedsRuleset(tokens) /\ nftRuleset(w).is = "error"

collectRuleset(c, got, w) ==
  IF ~IsDoc(got) THEN got
  ELSE LET rows == CASE c = "nft-tables" -> nftTables(got.doc) [] c = "nft-chains" -> nftChains(got.doc)
                     [] c = "nft-rules" -> nftRules(got.doc) [] OTHER -> <<>>
       IN IF c = "port-exposure" THEN emitExposure(w, got.doc) ELSE [WithEdges(rows) EXCEPT !.stamped = FALSE]

Collect(c, held, w) ==
  CASE c \notin Served -> NotServed
    [] c \in Ruleset -> collectRuleset(c, held.doc, w)
    [] c = "links" -> collectLinks(w)
    [] c = "routes" -> collectRoutes(w)
    [] c = "resolver" -> collectResolver(w)
    [] c = "listening" -> collectListening(w)
    [] c = "tailscale" -> collectTailscale(w)

-----------------------------------------------------------------------------
(* verbs.go, lookup.go                                                      *)

captureCollection(c, w) == Collect(c, Opening(w), w)

serveObject(c, name, w) ==
  Opened(captureCollection(c, w), name, LAMBDA row :
    Response(<<ObjectRecord(row)>> \o [i \in DOMAIN row.edges |-> [record |-> "relation_assertion"]]))

\* The evidence is a second read; in one world it meets what the first met.
serveEvidence(c, name, w) ==
  Opened(captureCollection(c, w), name, LAMBDA row :
    IF c = "resolver" /\ ~IsDoc(resolve1Call(w, w.bus)) THEN Refusal("unavailable")
    ELSE Response(<<EvidenceRecord({<<c, "document">>}, 1, 8)>>))

lookupRouteGet(input, w) ==
  CASE input # "address" -> Refusal("unsupported")
    [] input = "address" /\ w.replay /\ ~w.captured -> NoResponse
    [] OTHER -> LET found == stamp(w) /\ w.ip /\ w.routeGet = "ok"
                IN Response(<<ObjectRecord(Row(input, [RouteFound |-> found]))>> \o
                            (IF found THEN <<[record |-> "relation_assertion"]>> ELSE <<>>))

lookupResolve(input, w) ==
  LET got == resolve1Call(w, IF w.bus = "ok" THEN w.resolve ELSE w.bus)
  IN CASE input = "not a name" -> Refusal("unsupported")
       [] input # "not a name" /\ ((w.replay /\ ~w.now) \/ got.is = "error" \/ (IsDoc(got) /\ got.doc = "garbage")) -> NoResponse
       [] OTHER -> Response(<<ObjectRecord(Row(input, [Resolved |-> IsDoc(got)]))>>)

serveLookup(c, input, w) == CASE c = "route-get" -> lookupRouteGet(input, w) [] c = "resolve" -> lookupResolve(input, w)
                              [] OTHER -> Refusal("unsupported")

\* What the kernel and the daemons hold that a source can speak for.
Holds(c, w) ==
  CASE c \in Ruleset \ {"port-exposure"} ->
         IF w.nft \in {"no tool", "empty"} THEN {}
         ELSE LET is == CASE c = "nft-tables" -> "table" [] c = "nft-chains" -> "chain" [] c = "nft-rules" -> "rule"
                  NameOf(e) == CASE is = "table" -> <<e.family, e.table>> [] is = "chain" -> Key(e)
                                 [] is = "rule" -> <<e.family, e.table, e.name, e.handle>>
              IN {NameOf(e) : e \in Range(Of(w.entries, is))}
    [] c = "port-exposure" /\ w.nft = "no tool" -> {}
    [] c = "listening" \/ (c = "port-exposure" /\ w.nft # "no tool") ->
         {SocketName(s) : s \in {x \in Range(w.sockets) : x.protocol \in w.tables}}
    [] c = "links" -> NamesOf(w.links)
    [] c = "routes" -> {<<r.dst, r.dev, r.via, r.table>> : r \in Range(w.routes)}
    [] c = "resolver" -> {"hostname"}
    [] c = "tailscale" -> {p.name : p \in Range(w.peers)} \ {Unstated}

\* Sockets of a table that could not be read, when another could.
Unread(c, w) == IF c \in {"listening", "port-exposure"}
                THEN {SocketName(s) : s \in {x \in Range(w.sockets) : x.protocol \notin w.tables}} ELSE {}

-----------------------------------------------------------------------------
(* What the ruleset means for a packet to a socket: where it comes from, and  *)
(* the rules it can reach.  A term no static reader can decide may match or   *)
(* not; shadowing by an earlier drop is declared out of scope.                *)

Packets == [iifname : {"lan", "wan"}, saddr : {"ten", "other"}]
Matches(packet, socket, s) ==
  CASE s.is = "tcp dport" -> wire(socket.protocol) = "tcp" /\ socket.port \in s.values
    [] s.is = "tcp dport !=" -> wire(socket.protocol) = "tcp" /\ socket.port \notin s.values
    [] s.is = "l4proto" -> wire(socket.protocol) \in s.values
    [] s.is = "iifname" -> packet.iifname \in s.values
    [] s.is = "iifname !=" -> packet.iifname \notin s.values
    [] s.is = "saddr" -> packet.saddr \in s.values
    [] OTHER -> TRUE
Undecided(s) == s.is \in {"ct", "xt", "odd", "vmap"}

\* The paths a packet can take to an accepting rule: rules each of which jumps
\* to the chain of the next, the first in an input base chain.
AcceptPaths(entries, protocol) ==
  LET rules == {r \in Range(Of(entries, "rule")) : familyBearsOn(r.family, protocol)}
      bases == {Key(c) : c \in {x \in Range(Of(entries, "chain")) : x.hook = "input"}}
      Follows(a, b) == /\ b.family = a.family /\ b.table = a.table /\ b.name \in verdictTargets(a.expr)
      Paths(n) == {p \in [1..n -> rules] : Key(p[1]) \in bases /\ \A i \in 1..(n - 1) : Follows(p[i], p[i + 1])}
      Ends(p) == Contains(p[Len(p)].expr, Accept)
  IN {p \in UNION {Paths(n) : n \in 1..(chainWalkMaxDepth + 1)} : Ends(p)}
Terms(path) == UNION {Range(path[i].expr) : i \in DOMAIN path}

\* AdmittedFromPossible leaves out no source a reachable rule admits from.
PossibleCovers(entries, socket, facts) ==
  \A path \in AcceptPaths(entries, socket.protocol), packet \in Packets :
    (\A s \in Terms(path) : Matches(packet, socket, s)) =>
      /\ "AdmittedFromPossible" \in DOMAIN facts
      /\ \E s \in facts.AdmittedFromPossible : Matches(packet, socket, s)

\* AdmittedFromCertain names no source that is not wholly admitted; `terms` is
\* how many source terms one rule may combine.
CertainHolds(entries, socket, facts, terms) ==
  "AdmittedFromCertain" \in DOMAIN facts =>
    \A s \in facts.AdmittedFromCertain :
      \/ \E path \in AcceptPaths(entries, socket.protocol) :
           /\ \A t \in Terms(path) : ~Undecided(t)
           /\ \A packet \in Packets : Matches(packet, socket, s) => \A t \in Terms(path) : Matches(packet, socket, t)
      \/ \E path \in AcceptPaths(entries, socket.protocol) :
           s \in Terms(path) /\ Cardinality({t \in Terms(path) : classifyMatch(t) = "source"}) > terms
=============================================================================
