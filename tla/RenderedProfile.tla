-------------------------- MODULE RenderedProfile --------------------------
(***************************************************************************)
(* The document Mihomo is started with: how generate_profile (mihomo.rs)   *)
(* writes it from the enabled hops and the selection, what                 *)
(* validate_rendered_profile (validation.rs) demands of it, what the core  *)
(* does with it, and how api.rs recognises a core that runs it.            *)
(*                                                                         *)
(* IPv4 addresses are the numbers of AddressRanges, an IPv6 address is     *)
(* only that.  Fields nothing here depends on (ports of endpoints, keep-   *)
(* alive, fingerprints) are left out, and so are the LAN name servers and  *)
(* the Tailscale policy: no command gives them another value than none.    *)
(***************************************************************************)
EXTENDS AddressRanges, Sequences, SequencesExt

CONSTANTS
  Domain,  \* host names of endpoints
  Lan,     \* the network of the LAN policy
  Local    \* the networks narrow and private enough to bypass the core

ASSUME DocumentAssumption ==
  /\ Domain \subseteq Nat
  /\ Lan \in Local
  /\ Local \subseteq [first : Address, last : Address]

----------------------------------------------------------------------------
(* The configuration of a hop *)

Host ==
  [form : {"IPv4"}, at : Address] \cup [form : {"IPv6"}, at : {0}]
    \cup [form : {"domain"}, at : Domain]

\* What parse_wireguard makes of a file it accepts: some address, DNS server
\* and allowed network of either family, an MTU of any size.
WireGuardConfig ==
  {c \in [kind : {"wireguard"}, host : Host,
          addresses : [IPv4 : 0 .. 2, IPv6 : 0 .. 1],
          dns : [IPv4 : SUBSET Address, IPv6 : BOOLEAN],
          allowed : [IPv4 : SUBSET [first : Address, last : Address], IPv6 : BOOLEAN],
          mtu : {"none", "fits", "outside"}] :
     /\ c.addresses.IPv4 + c.addresses.IPv6 > 0
     /\ c.dns.IPv4 # {} \/ c.dns.IPv6
     /\ c.allowed.IPv4 # {} \/ c.allowed.IPv6}

\* VlessConfig::checked; servername stands for the options that need TLS.
Checked(c) ==
  /\ c.dns # {}
  /\ c.reality \in {{}, {"public-key", "short-id"}}
  /\ c.reality # {} => c.tls
  /\ c.servername # "none" => c.tls

\* What parse_vless makes of a link or a YAML file it accepts: its IPv4 DNS
\* servers, or the default one.
VlessConfig ==
  {c \in [kind : {"vless"}, host : Host, dns : SUBSET Address, tls : BOOLEAN,
          servername : {"none", "given"},
          reality : SUBSET {"public-key", "short-id"}] : Checked(c)}

\* resolve_vless_endpoint: the domain becomes the first IPv4 address it has,
\* and the name TLS asks for if the file gives none.
Resolved(c, resolver) ==
  IF c.kind = "vless" /\ c.host.form = "domain"
  THEN [c EXCEPT !.host = [form |-> "IPv4", at |-> resolver[c.host.at]],
                 !.servername = IF @ = "none" /\ c.tls THEN "domain" ELSE @]
  ELSE c

\* A resolver that knows no IPv4 address of a domain has none of Address there.
Resolvable(c, resolver) ==
  c.kind = "vless" /\ c.host.form = "domain" => resolver[c.host.at] \in Address

----------------------------------------------------------------------------
(* generate_profile: what it refuses *)

\* Mutant of CoversAllIpv4: the gap before a range is not looked at.
CoversIfLastReached(ranges) ==
  InOrder(LAMBDA next, r : IF r.last >= next THEN r.last + 1 ELSE next, 0, ranges) = 2^Width

\* covers_all_ipv4; next is covered_to + 1, so a gap is never left again.
CoversAllIpv4(ranges) ==
  LET Sweep(next, r) ==
        IF r.first <= next /\ r.last >= next THEN r.last + 1 ELSE next
  IN  InOrder(Sweep, 0, ranges) = 2^Width

IsIn(address, ranges) == \E r \in ranges : r.first <= address /\ address <= r.last

\* validate_ipv4_wireguard
Ipv4WireGuard(c) ==
  /\ c.addresses.IPv4 = 1
  /\ c.dns.IPv4 # {}
  /\ \A server \in c.dns.IPv4 : IsIn(server, c.allowed.IPv4)
  /\ CoversAllIpv4(c.allowed.IPv4)

\* validate_node_config, and the IPv4 endpoint proxy_from_config asks for.
HopAccepted(c) ==
  /\ c.host.form = "IPv4"
  /\ c.kind = "wireguard" => Ipv4WireGuard(c)
  /\ c.kind = "vless" => Checked(c)

\* The rest of validate_proton.
Reaches(firstHop, proton) ==
  firstHop.kind = "wireguard" /\ proton.kind = "wireguard" =>
    IsIn(proton.host.at, firstHop.allowed.IPv4)

FH(id) == <<"FH", id>>
PN(id) == <<"PN", id>>
FIRST_HOP_SELECTOR == <<"selector", "first hop">>
PROTON_SELECTOR == <<"selector", "proton">>
OUTLET_SELECTOR == <<"selector", "outlet">>
DIRECT == <<"core", "direct">>
REJECT == <<"core", "reject">>
NoName == <<"none", "">>

\* Mutant of Renderable: only the hops of the selection are examined.
RenderableIfSelectedIs(hops, selection) ==
  LET used == {FH(selection.firstHop)} \cup
                IF selection.mode = "double" THEN {PN(selection.proton)} ELSE {}
  IN  /\ used \subseteq DOMAIN hops
      /\ \A name \in used : HopAccepted(hops[name].config)

\* generate_profile accepts the enabled hops, by name with their configuration
\* and their key, and the selection.  Every hop is examined, selected or not.
Renderable(hops, selection) ==
  /\ FH(selection.firstHop) \in DOMAIN hops
  /\ selection.mode = "double" => PN(selection.proton) \in DOMAIN hops
  /\ \A name \in DOMAIN hops :
       /\ HopAccepted(hops[name].config)
       /\ name[1] = "PN" => Reaches(hops[FH(selection.firstHop)].config, hops[name].config)

----------------------------------------------------------------------------
(* generate_profile: what it writes *)

\* wireguard_proxy and vless_proxy
Proxy(name, hop) ==
  LET c == hop.config
  IN
  [name |-> name, kind |-> c.kind, server |-> c.host, key |-> hop.key,
   dialer |-> IF name[1] = "PN" THEN FIRST_HOP_SELECTOR ELSE NoName,
   dns |-> IF c.kind = "wireguard" THEN c.dns.IPv4 ELSE {},
   mtu |-> IF c.kind # "wireguard" THEN "none"
           ELSE IF c.mtu # "none" THEN c.mtu
           ELSE IF name[1] = "PN" THEN "1280" ELSE "1408",
   servername |-> IF c.kind = "vless" THEN c.servername ELSE "none"]

ConfigDns(c) == IF c.kind = "wireguard" THEN c.dns.IPv4 ELSE c.dns

HostRange(address) == [first |-> address, last |-> address]
Everything == [first |-> 0, last |-> 2^Width - 1]

\* The selectors hold the current selection and nothing else.
Groups(names, selection) ==
  {[name |-> FIRST_HOP_SELECTOR, members |-> <<FH(selection.firstHop)>>],
   [name |-> OUTLET_SELECTOR,
    members |-> <<IF selection.mode = "double" THEN PROTON_SELECTOR ELSE FIRST_HOP_SELECTOR>>]}
    \cup IF selection.mode = "double"
         THEN {[name |-> PROTON_SELECTOR, members |-> <<PN(selection.proton)>>]} ELSE {}

Rule(what, range, target) == [matches |-> what, range |-> range, target |-> target]

\* Mutant of Rules: IPv6 is left to the last rule.
RulesWithoutIpv6 ==
  <<Rule("IPv4", Lan, DIRECT), Rule("all", Everything, OUTLET_SELECTOR)>>

\* The first rule that matches decides.
Rules ==
  <<Rule("IPv4", Lan, DIRECT), Rule("IPv6", Everything, REJECT),
    Rule("all", Everything, OUTLET_SELECTOR)>>

\* What MihomoConfig sets to the same value in every document: listeners on
\* loopback, nothing cached by the core, the whole address space captured,
\* names resolved for real.
Fixed == {"loopback", "nothing stored", "captures all", "redir-host"}

\* route_exclude_address: the LAN, and the selected first hop's own address,
\* which the core must reach outside its TUN.
Excludes(firstHop) == {Lan, HostRange(firstHop.host.at)}

Document(hops, selection) ==
  LET egress == IF selection.mode = "double" THEN PN(selection.proton)
                ELSE FH(selection.firstHop)
  IN  [proxies |-> {Proxy(name, hops[name]) : name \in DOMAIN hops},
       groups |-> Groups(DOMAIN hops, selection),
       rules |-> Rules,
       excludes |-> Excludes(hops[FH(selection.firstHop)].config),
       nameservers |->
         {[server |-> s, via |-> OUTLET_SELECTOR] : s \in ConfigDns(hops[egress].config)},
       fixed |-> Fixed,
       tun |-> TRUE,
       ports |-> "own"]

----------------------------------------------------------------------------
(* The graph of references in a document *)

ProxyNames(d) == {p.name : p \in d.proxies}
GroupNames(d) == {g.name : g \in d.groups}
Names(d) == ProxyNames(d) \cup GroupNames(d)

\* The edges of validate_references: dialers and group members.
Successors(d, name) ==
  {p.dialer : p \in {q \in d.proxies : q.name = name /\ q.dialer # NoName}}
    \cup UNION {ToSet(g.members) : g \in {h \in d.groups : h.name = name}}

\* Following the only edge from a name until there is none.
Trail(d, start) ==
  LET walk[n \in 0 .. Cardinality(Names(d))] ==
        IF n = 0 THEN <<start>>
        ELSE LET sofar == walk[n - 1]
                 next == Successors(d, Last(sofar))
             IN  IF next = {} THEN sofar ELSE Append(sofar, CHOOSE m \in next : TRUE)
  IN  walk[Cardinality(Names(d))]

\* detect_cycles, where every name has one edge at most: each trail ends.
Acyclic(d) == \A name \in Names(d) : Successors(d, Last(Trail(d, name))) = {}

\* Graph::active_path
ActivePath(d) == Trail(d, OUTLET_SELECTOR)

----------------------------------------------------------------------------
(* validate_rendered_profile *)

ValidateGeneral(d) ==
  /\ Fixed \subseteq d.fixed
  /\ d.nameservers # {}
  /\ \A p \in d.proxies :
       /\ p.kind = "wireguard" => p.dns # {} /\ p.mtu \in {"fits", "1280", "1408"}
       /\ p.kind = "vless" => p.server.form = "IPv4"

ValidateReferences(d) ==
  /\ Cardinality(Names(d)) = Cardinality(d.proxies) + Cardinality(d.groups)
  /\ \A g \in d.groups : Len(g.members) = 1
  /\ {FIRST_HOP_SELECTOR, OUTLET_SELECTOR} \subseteq GroupNames(d)
  /\ \A p \in d.proxies :
       /\ p.name[1] = "PN" => p.dialer = FIRST_HOP_SELECTOR
       /\ p.name[1] = "FH" => p.dialer = NoName
  /\ \A name \in Names(d) : Successors(d, name) \subseteq Names(d)
  /\ Successors(d, OUTLET_SELECTOR) \subseteq {FIRST_HOP_SELECTOR, PROTON_SELECTOR}
  /\ Acyclic(d)

\* The bypass is exactly the direct rules and the endpoint of the first hop
\* its group names.
ValidateRoutes(d) ==
  LET direct == {r.range : r \in {q \in ToSet(d.rules) : q.matches = "IPv4" /\ q.target = DIRECT}}
      first == {p \in d.proxies : p.name \in Successors(d, FIRST_HOP_SELECTOR)}
  IN  /\ Last(d.rules) = Rule("all", Everything, OUTLET_SELECTOR)
      /\ \A r \in ToSet(d.rules) : ~ (r.matches = "all" /\ r.target = DIRECT)
      /\ direct \subseteq Local
      /\ \E p \in first : d.excludes = direct \cup {HostRange(p.server.at)}

ValidateDns(d) ==
  \A n \in d.nameservers : n.via = OUTLET_SELECTOR /\ n.via \in Names(d)

ValidateRenderedProfile(d) ==
  /\ ValidateGeneral(d) /\ ValidateReferences(d) /\ ValidateRoutes(d) /\ ValidateDns(d)

----------------------------------------------------------------------------
(* What the core does with a document *)

Destination == [family : {"IPv4"}, at : Address] \cup [family : {"IPv6"}, at : {0}]

Matches(rule, destination) ==
  \/ rule.matches = "all"
  \/ rule.matches = "IPv6" /\ destination.family = "IPv6"
  \/ /\ rule.matches = "IPv4" /\ destination.family = "IPv4"
     /\ rule.range.first <= destination.at /\ destination.at <= rule.range.last

\* What a connection passes, from the selector or policy it is handed to until
\* it leaves the core; traffic that bypasses the TUN passes nothing, like traffic
\* a rule lets go out directly.
Carried(d, destination) ==
  LET captured == ~ (destination.family = "IPv4" /\ IsIn(destination.at, d.excludes))
      rule == d.rules[CHOOSE n \in DOMAIN d.rules :
                        /\ Matches(d.rules[n], destination)
                        /\ \A m \in 1 .. n - 1 : ~ Matches(d.rules[m], destination)]
  IN  IF ~ captured \/ rule.target = DIRECT THEN <<DIRECT>>
      ELSE IF rule.target = REJECT THEN <<REJECT>>
      ELSE Trail(d, rule.target)

----------------------------------------------------------------------------
(* The probe of the speed test, and the reconciliation with a running core *)

\* build_probe_yaml: own ports and no TUN, the rest as it is.
ProbeDocument(d) == [d EXCEPT !.tun = FALSE, !.ports = "probe"]

\* What a core that runs the document reports.  On Windows it may report the
\* defaults for its TUN.
ApiView(d, tunReported) ==
  [fixed |-> d.fixed, ports |-> d.ports,
   tun |-> tunReported /\ d.tun,
   proxies |-> ProxyNames(d) \cup GroupNames(d),
   now |-> {[name |-> g.name, selected |-> Head(g.members)] : g \in d.groups}]

\* expected_runtime
ExpectedRuntime(names, selection) ==
  [required |-> names \cup {FIRST_HOP_SELECTOR, OUTLET_SELECTOR} \cup
                  IF selection.mode = "double" THEN {PROTON_SELECTOR} ELSE {},
   selectors |->
     {[name |-> FIRST_HOP_SELECTOR, selected |-> FH(selection.firstHop)],
      [name |-> OUTLET_SELECTOR,
       selected |-> IF selection.mode = "double" THEN PROTON_SELECTOR ELSE FIRST_HOP_SELECTOR]}
       \cup IF selection.mode = "double"
            THEN {[name |-> PROTON_SELECTOR, selected |-> PN(selection.proton)]} ELSE {}]

\* Mutant of Reconciled: the selectors are there, whatever they select.
ReconciledByNames(view, expected, ownedTunObserved) ==
  /\ Fixed \subseteq view.fixed
  /\ view.ports = "own"
  /\ ~ ownedTunObserved => view.tun
  /\ expected.required \subseteq view.proxies

\* reconcile_api_snapshot_json_inner: what it reports of the TUN counts only
\* when the system has not shown it.
Reconciled(view, expected, ownedTunObserved) ==
  /\ Fixed \subseteq view.fixed
  /\ view.ports = "own"
  /\ ~ ownedTunObserved => view.tun
  /\ expected.required \subseteq view.proxies
  /\ expected.selectors \subseteq view.now
============================================================================
