------------------------------ MODULE CollectKea ------------------------------
(* se-collect-kea: the DHCP daemon behind a control socket, its subnets, its *)
(* reservations and its leases.                                              *)
EXTENDS CollectorKit

Served == {"daemon", "subnets", "reservations", "leases"}
Verbs == {"declare", "probe", "collect", "object", "evidence"}

\* acquiredCommands; list-commands is the probe's.
Acquired == {"version", "status", "statistics", "config", "leases"}

-----------------------------------------------------------------------------
(* The world: the socket, what each command's exchange meets and the result  *)
(* code in its answer (0 success, 2 unsupported, 3 empty), and the state     *)
(* those answers state.  Scopes: a subnet, under a shared network or not.    *)

Option(data) == [data |-> data, never |-> FALSE]
NoOption == [data |-> Unstated, never |-> FALSE]
Scope(id, cidr) == [id |-> id, cidr |-> cidr, routers |-> NoOption, network |-> NoOption,
                    reservations |-> <<"10.0.0.9">>]
Lan == Scope("1", "10.0.0.0/24")
Lease(ip) == [ip |-> ip, state |-> 0, subnet |-> "1", valid |-> 60, cltt |-> 1]

Answers(met, result) == [met |-> met, result |-> result]
Fine == [replay |-> FALSE, socket |-> TRUE, clock |-> TRUE, staged |-> Acquired \union {"list"},
         offers |-> TRUE, ask |-> [c \in Acquired \union {"list"} |-> Answers("ok", 0)],
         scopes |-> <<Lan>>, global |-> Option("g"), hosts |-> <<"10.9.9.9">>,
         counted |-> <<[id |-> "1", total |-> 200, assigned |-> 3]>>, leases |-> <<Lease("10.0.0.5")>>]

Meets == {"missing", "refused", "silent", "garbage", "huge"}

Worlds ==
  {Fine, [Fine EXCEPT !.socket = FALSE], [Fine EXCEPT !.clock = FALSE], [Fine EXCEPT !.leases = <<>>]}
  \union {[Fine EXCEPT !.ask = [x \in DOMAIN @ |-> Answers(m, 0)]] : m \in Meets}
  \union {[Fine EXCEPT !.ask[c] = Answers("ok", r)] : c \in Acquired \union {"list"}, r \in {2, 1}}
  \union {[Fine EXCEPT !.ask["leases"] = Answers("ok", 3), !.leases = <<>>],
          [Fine EXCEPT !.ask["config"] = Answers("ok", 3)]}
  \union {[Fine EXCEPT !.scopes = <<Lan, s>>] :
            s \in {Scope(Unstated, "10.1.0.0/24"), Scope("2", Unstated),
                   [Scope("2", "10.2.0.0/24") EXCEPT !.reservations = <<Unstated, "10.2.0.7">>],
                   [Scope("2", "10.2.0.0/24") EXCEPT !.routers = [data |-> "r", never |-> TRUE]],
                   [Scope("2", "10.2.0.0/24") EXCEPT !.network = Option("n")]}}
  \union {[Fine EXCEPT !.counted = <<c>>] :
            c \in {[id |-> "1", total |-> 0, assigned |-> 0], [id |-> "9", total |-> 200, assigned |-> 1]}}
  \union {[Fine EXCEPT !.leases = <<l>>] :
            l \in {Lease(Unstated), [Lease("10.0.0.6") EXCEPT !.valid = 999],
                   [Lease("10.0.0.6") EXCEPT !.valid = 0, !.cltt = 0],
                   [Lease("10.0.0.6") EXCEPT !.state = 7, !.subnet = "4"]}}
  \union {[Fine EXCEPT !.replay = TRUE, !.staged = s, !.offers = o] : o \in BOOLEAN,
            s \in {{}, Acquired, Acquired \union {"list"}, {"list"}, {"config", "list"},
                   (Acquired \ {"leases"}) \union {"list"}}}

-----------------------------------------------------------------------------
(* source.go                                                                *)

\* classify: no socket, no permission, or no clean answer.
classify(met) == CASE met = "refused" -> Declined("unauthorised") [] OTHER -> Declined("unavailable")

\* command: a reply past the bound ends the process.
command(met) == CASE met \in {"ok", "garbage"} -> Doc(met) [] met = "huge" -> Error [] OTHER -> classify(met)

\* checkResult: success; for the lease table also empty; unsupported is said.
checkResult(cmd, result) ==
  CASE result = 0 \/ (result = 3 /\ cmd = "leases") -> Doc(cmd)
    [] result = 2 -> Declined("unsupported")
    [] OTHER -> Declined("unavailable")

liveDocument(w, cmd) ==
  LET got == command(w.ask[cmd].met)
  IN CASE ~w.socket -> Declined("unavailable")
       [] w.socket /\ ~w.clock -> Error
       [] w.socket /\ w.clock /\ ~IsDoc(got) -> got
       [] OTHER -> IF got.doc = "garbage" THEN Declined("unavailable") ELSE checkResult(cmd, w.ask[cmd].result)

\* offersLeaseCommands: the staged list of commands, when it is staged.
offersLeaseCommands(w) == IF "list" \in w.staged THEN w.offers ELSE Unstated

\* A capture without the lease table is whole when its own list of commands
\* does not offer one; any other command missing beside staged ones is broken.
replayDocument(w, cmd) ==
  CASE cmd \in w.staged -> checkResult(cmd, w.ask[cmd].result)
    [] cmd \notin w.staged /\ w.staged \intersect Acquired = {} -> Declined("unavailable")
    [] OTHER -> IF cmd = "leases" /\ offersLeaseCommands(w) = FALSE THEN Declined("unsupported") ELSE Error

document(w, cmd) == IF w.replay THEN replayDocument(w, cmd) ELSE liveDocument(w, cmd)

probe(w) == IsDoc(document(w, "list"))

-----------------------------------------------------------------------------
(* config.go: the narrower scope's option wins, and one never sent is none.  *)

optionValues(o) == IF o.never THEN [set |-> TRUE, to |-> Unstated]
                   ELSE [set |-> o.data # Unstated, to |-> o.data]

mergeInto(outer, inner) == IF inner.set THEN inner ELSE outer

configSubnetFacts(w, s) ==
  [Subnet |-> s.cidr,
   Routers |-> mergeInto(mergeInto(optionValues(w.global), optionValues(s.network)), optionValues(s.routers)).to,
   ReservationCount |-> Len(s.reservations)]

\* subnetScopes that have an id.
Identified(w) == SelectSeq(w.scopes, LAMBDA s : s.id # Unstated)
WithId(w, id) == SelectSeq(w.scopes, LAMBDA s : s.id = id)

\* subnetCIDRs
subnetCIDRs(w, id) == IF WithId(w, id) = <<>> THEN Unstated ELSE Head(WithId(w, id)).cidr

-----------------------------------------------------------------------------
(* daemon.go, subnets.go, reservations.go, leases.go                        *)

daemonRows(w) == <<Row("kea-dhcp4", [Version |-> "v"])>>

\* buildSubnetRows: what the statistics count, with what the configuration
\* says of it; named by its prefix where there is one.
buildSubnetRows(w) ==
  [i \in DOMAIN w.counted |->
     LET n == w.counted[i]
         config == IF WithId(w, n.id) = <<>> THEN <<>> ELSE configSubnetFacts(w, Head(WithId(w, n.id)))
         cidr == subnetCIDRs(w, n.id)
     IN Row(IF cidr # Unstated THEN cidr ELSE n.id,
            Facts(config @@ [SubnetId |-> n.id, TotalAddresses |-> n.total,
                             UsedPercent |-> IF n.total > 0 THEN (n.assigned * 100) \div n.total ELSE Unstated]))]

\* reservationFacts and buildReservationRows: each subnet's, then the global
\* ones; a reservation without an address has no name.
buildReservationRows(w) ==
  LET scoped == FlattenSeq([i \in DOMAIN Identified(w) |-> Identified(w)[i].reservations])
      named == SelectSeq(scoped \o w.hosts, LAMBDA ip : ip # Unstated)
  IN [i \in DOMAIN named |-> Row(named[i], [IpAddress |-> named[i]])]

leaseStates == <<"default", "declined", "expired-reclaimed">>
leaseState(n) == IF n < 3 THEN leaseStates[n + 1] ELSE "unnamed"

\* expiresAt: the infinite lifetime (999 here) never expires; a sum of zero
\* is no time at all.
expiresAt(l) == CASE l.valid = 999 -> "never"
                  [] l.valid # 999 /\ l.cltt + l.valid = 0 -> Unstated
                  [] OTHER -> "a time"

buildLeaseRows(w) ==
  LET named == SelectSeq(w.leases, LAMBDA l : l.ip # Unstated)
  IN [i \in DOMAIN named |->
        Row(named[i].ip, Facts([State |-> leaseState(named[i].state),
                                Subnet |-> subnetCIDRs(w, named[i].subnet),
                                ExpiresAt |-> expiresAt(named[i])]))]

\* The commands a collection reads, in order, and its rows once they answered.
Commands(c) == CASE c = "daemon" -> <<"version", "status">> [] c = "subnets" -> <<"statistics", "config">>
                 [] c = "reservations" -> <<"config">> [] c = "leases" -> <<"leases", "config">>
rows(c, w) == CASE c = "daemon" -> daemonRows(w) [] c = "subnets" -> buildSubnetRows(w)
                [] c = "reservations" -> buildReservationRows(w) [] c = "leases" -> buildLeaseRows(w)

collectOne(c, w) ==
  LET got == FirstFailure([i \in DOMAIN Commands(c) |-> document(w, Commands(c)[i])])
  IN IF IsDoc(got) THEN Plain(rows(c, w)) ELSE got

Opening(w) == Doc("nothing")
Collect(c, held, w) == IF c \in Served THEN collectOne(c, w) ELSE NotServed

-----------------------------------------------------------------------------
(* verbs.go                                                                 *)

serveObject(c, name, w) ==
  IF c \notin Served THEN Refusal("unsupported")
  ELSE Opened(collectOne(c, w), name, LAMBDA row : Response(<<ObjectRecord(row)>>))

\* evidencePayload: the answers the row was built from, when it publishes the name.
evidencePayload(c) == {<<Commands(c)[i], "document">> : i \in DOMAIN Commands(c)}

serveEvidence(c, name, w) ==
  IF c \notin Served THEN Refusal("unsupported")
  ELSE Opened(collectOne(c, w), name, LAMBDA row : Response(<<EvidenceRecord(evidencePayload(c), 1, 8)>>))

\* What the daemon keeps, whether it says so or not.
Holds(c, w) ==
  CASE (w.replay /\ w.staged \intersect Acquired = {}) \/ (~w.replay /\ ~w.socket) -> {}
    [] OTHER -> CASE c = "daemon" -> {"kea-dhcp4"}
                  [] c = "subnets" -> NamesOf(buildSubnetRows(w))
                  [] c = "reservations" -> NamesOf(buildReservationRows(w))
                  [] c = "leases" -> {w.leases[i].ip : i \in DOMAIN w.leases} \ {Unstated}
=============================================================================
