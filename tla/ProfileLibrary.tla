--------------------------- MODULE ProfileLibrary ---------------------------
(***************************************************************************)
(* AppCatalog together with what its commands store and render: the        *)
(* version record of each profile, its secrets, and the runtime document   *)
(* of the current revision.  A command of AppCatalog takes place when the  *)
(* candidate it builds is accepted (build_candidate of service.rs); what   *)
(* domains resolve to changes on its own; and the document may have been   *)
(* written by an older release of the program, which the current one       *)
(* notices when it starts.                                                 *)
(***************************************************************************)
EXTENDS AppCatalog, RenderedProfile

CONSTANTS
  Contents,  \* the configuration in the file of each profile
  Others,    \* configurations of further files
  Answers    \* what a domain may resolve to; 2^Width is no IPv4 address

Ids == FirstHop \cup Proton

\* Identifiers are hashes, so there are only so many of them.
ASSUME LibraryAssumption ==
  /\ IsFiniteSet(Ids)
  /\ \A id \in Ids : Contents[id] \in WireGuardConfig \cup VlessConfig
  /\ Others \subseteq WireGuardConfig \cup VlessConfig
  /\ Answers \subseteq 0 .. 2^Width

VARIABLES
  record,    \* the version record of each profile of the current state
  vault,     \* profiles whose secrets were published; they are never removed
  document,  \* the runtime profile of the current revision
  release,   \* the program: this one, or an older one
  resolver   \* what each domain resolves to now

library == <<record, vault, document, release, resolver>>
vars == <<catalog, core, shown, library>>

\* Releases before this one: without the exclusion of the first hop's address,
\* or with the ports of other Mihomo clients.
Releases == {"this", "no exclusion", "other ports"}

NoDocument ==
  [proxies |-> {}, groups |-> {}, rules |-> <<>>, excludes |-> {}, nameservers |-> {},
   fixed |-> {}, tun |-> FALSE, ports |-> "none"]

NoRecord == [config |-> <<>>, key |-> <<>>]

----------------------------------------------------------------------------
(* Version records *)

Purpose(c) == IF c.kind = "wireguard" THEN "private key" ELSE "uuid"

\* from_wireguard and from_vless: a record holds a reference to the secret in
\* the place of it.  The random identifier stands for the file it came from.
Version(id, c) == [config |-> c, key |-> [of |-> id, purpose |-> Purpose(c)]]

\* validate_resources: what AppState::validate asks of a record.
RecordValid(v) ==
  /\ v.key.purpose = Purpose(v.config)
  /\ v.config.kind = "wireguard" =>
       /\ v.config.dns.IPv4 # {} \/ v.config.dns.IPv6
       /\ v.config.addresses.IPv4 + v.config.addresses.IPv6 > 0
       /\ v.config.allowed.IPv4 # {} \/ v.config.allowed.IPv6
  /\ v.config.kind = "vless" =>
       /\ v.config.dns # {}
       /\ v.config.reality \in {{}, {"public-key", "short-id"}}

\* resolve_secret: among the secrets of this command, or in the vault.
SecretKnown(v, secrets) == v.key.of \in secrets

\* Mutant of Materialized: some secret of the kind is taken for the record's.
MaterializedByPurpose(v) ==
  [config |-> v.config,
   key |-> CHOOSE id \in Ids : Purpose(Contents[id]) = v.key.purpose]

\* materialize and materialize_vless: the configuration with its secret again.
Materialized(v) == [config |-> v.config, key |-> v.key.of]

\* apply_import, and retain of delete_profile: a profile that is there keeps its
\* record, as long as its file is the same.
Records(c, r) ==
  [id \in Ids |->
     IF id \notin c.firstHops \cup c.protons THEN NoRecord
     ELSE IF record[id] # NoRecord THEN record[id]
     ELSE Version(id, Resolved(Contents[id], resolver))]

----------------------------------------------------------------------------
(* Candidates *)

HopNames(c) == {FH(id) : id \in c.firstHops} \cup {PN(id) : id \in c.protons}

\* The enabled hops as render_runtime_yaml hands them to generate_profile.
Hops(c, records) == [name \in HopNames(c) |-> Materialized(records[name[2]])]

\* What a release writes.
Written(c, records) ==
  LET d == Document(Hops(c, records), c)
  IN  CASE release = "this" -> d
        [] release = "no exclusion" -> [d EXCEPT !.excludes = {Lan}]
        [] release = "other ports" -> [d EXCEPT !.ports = "older"]

\* render_runtime_yaml succeeds, and so does the validation of what it wrote.
Renders(c, records, secrets) ==
  /\ Validates(c)
  /\ \A id \in c.firstHops \cup c.protons :
       RecordValid(records[id]) /\ SecretKnown(records[id], secrets)
  /\ Renderable(Hops(c, records), c)
  /\ ValidateRenderedProfile(Document(Hops(c, records), c))

\* scan_selected_files and parse_source read and resolve every file of a batch,
\* those of profiles that are there too.
Parsed(r) ==
  r.command = "import" => \A id \in r.files : Resolvable(Contents[id], resolver)

Pending(r) == IF r.command = "import" THEN r.files ELSE {}

\* build_candidate, and the commit of what it built.
Commit(c, records, secrets) ==
  /\ Renders(c, records, secrets)
  /\ record' = records
  /\ vault' = secrets
  /\ document' = Written(c, records)

----------------------------------------------------------------------------
(* The commands *)

LibraryInit ==
  /\ Init
  /\ record = [id \in Ids |-> NoRecord]
  /\ vault = {}
  /\ document = NoDocument
  /\ release \in Releases
  /\ resolver \in [Domain -> Answers]

Command(r) ==
  /\ Change(r)
  /\ Parsed(r)
  /\ IF catalog' = catalog THEN UNCHANGED <<record, vault, document>>
     ELSE Commit(Result(catalog, r), Records(Result(catalog, r), r), vault \cup Pending(r))
  /\ UNCHANGED <<release, resolver>>

Run ==
  /\ Connect \/ Disconnect \/ Poll \/ Measure \/ CoreExits
  /\ UNCHANGED library

\* Mutant of CurrentContract: the ports alone are looked at.
CurrentPorts(d) == d.ports = "own"

\* The document is one this release could have written, as far as
\* refresh_runtime_contract_if_needed can tell.
CurrentContract(d) == ValidateRenderedProfile(d) /\ d.ports = "own"

\* The program is started again, after an update or not.
Start ==
  /\ Open
  /\ release' = "this"
  /\ IF ~ Configured(catalog) \/ CurrentContract(document)
     THEN catalog' = catalog /\ UNCHANGED <<record, vault, document>>
     ELSE /\ catalog' # catalog
          /\ Renders(catalog, record, vault)
          /\ document' = Document(Hops(catalog, record), catalog)
          /\ UNCHANGED <<record, vault>>
  /\ UNCHANGED resolver

Resolve ==
  /\ \E domain \in Domain, answer \in Answers : resolver' = [resolver EXCEPT ![domain] = answer]
  /\ UNCHANGED <<catalog, core, shown, record, vault, document, release>>

LibraryNext ==
  \/ \E r \in Request : Command(r)
  \/ Run \/ Start \/ Resolve

LibrarySpec == LibraryInit /\ [][LibraryNext]_vars
----------------------------------------------------------------------------
(* Properties *)

Ready == Configured(catalog) /\ release = "this"

\* Where commands build candidates: every state they can start from is also
\* reached with nothing else going on.
Idle == core = "none" /\ shown = "disconnected"

\* Every selection and every deletion the commands accept, and the refresh at
\* the start of the program, can be rendered: a profile that was accepted on
\* one day never stands in the way of another one, or of the start.
LibraryAlwaysRenders ==
  (Configured(catalog) /\ Idle) =>
    /\ Renders(catalog, record, vault)
    /\ \A r \in Request :
         r.command # "import" /\ Accepted(catalog, r) =>
           Renders(Result(catalog, r), Records(Result(catalog, r), r), vault)

\* What a file needs to be imported: an IPv4 endpoint now, and for WireGuard one
\* IPv4 address, an IPv4 name server, a usable MTU and networks that leave no
\* IPv4 address out.
Usable(c) ==
  /\ \/ c.host.form = "IPv4"
     \/ c.kind = "vless" /\ c.host.form = "domain" /\ resolver[c.host.at] \in Address
  /\ c.kind = "wireguard" =>
       /\ c.addresses.IPv4 = 1
       /\ c.dns.IPv4 # {}
       /\ UNION {r.first .. r.last : r \in c.allowed.IPv4} = Address
       /\ c.mtu # "outside"

\* Whether a file can be imported depends on the file alone, whatever is in the
\* library: generate_profile and the validator of its output agree, in either
\* role, and the library never has to refuse a usable file.
UsableFilesAreImported ==
  (Configured(catalog) /\ Idle) =>
    \A c \in Others, name \in {FH(0), PN(0)} :
      LET hops == [n \in HopNames(catalog) \cup {name} |->
                     IF n = name THEN [config |-> Resolved(c, resolver), key |-> 0]
                     ELSE Materialized(record[n[2]])]
      IN  Usable(c) <=> /\ Resolvable(c, resolver)
                        /\ Renderable(hops, catalog)
                        /\ ValidateRenderedProfile(Document(hops, catalog))

\* expected_active_path
ExpectedActivePath(c) ==
  IF c.mode = "double"
  THEN <<OUTLET_SELECTOR, PROTON_SELECTOR, PN(c.proton), FIRST_HOP_SELECTOR, FH(c.firstHop)>>
  ELSE <<OUTLET_SELECTOR, FIRST_HOP_SELECTOR, FH(c.firstHop)>>

\* Evaluated as the core does, the document sends every IPv4 destination along
\* the selected hops, lets only the LAN and the first hop's own address go out
\* directly, and no IPv6; name servers are asked through the same hops.  A
\* document of an older release does not outlive the start of this one.
TrafficTakesSelectedPath ==
  Ready =>
    LET outer == record[catalog.firstHop].config.host.at
    IN  /\ \A d \in Destination :
             Carried(document, d) =
               IF d.family = "IPv6" THEN <<REJECT>>
               ELSE IF d.at = outer \/ IsIn(d.at, {Lan}) THEN <<DIRECT>>
               ELSE ExpectedActivePath(catalog)
        /\ document.tun /\ document.ports = "own"
        /\ \A n \in document.nameservers :
             Trail(document, n.via) = ExpectedActivePath(catalog)

\* The command that checks the current configuration finds nothing wrong with
\* what another command stored, and the speed test can always derive a valid
\* document from it, with the same hops and without a TUN.
CurrentDocumentIsValid ==
  (Ready /\ Idle) =>
    /\ ValidateRenderedProfile(document)
    /\ ActivePath(document) = ExpectedActivePath(catalog)
    /\ LET probe == ProbeDocument(document)
       IN  /\ ValidateRenderedProfile(probe) /\ ~ probe.tun /\ probe.ports # document.ports
           /\ ActivePath(probe) = ExpectedActivePath(catalog)

\* Each proxy of the document is the one its file describes: with the file's own
\* secret, with its own server name, at an address the domain had once.
ProxiesMatchFiles ==
  \A p \in document.proxies :
    LET c == Contents[p.name[2]]
    IN  /\ p.name[2] \in catalog.firstHops \cup catalog.protons
        /\ p.key = p.name[2]
        /\ c.host.form = "domain" => p.server.at \in Answers
        /\ c.host.form # "domain" => p.server = c.host
        /\ c.kind = "vless" =>
             p.servername = IF c.servername = "none" /\ c.tls /\ c.host.form = "domain"
                            THEN "domain" ELSE c.servername

\* The reconciliation after a start tells the document of the current state from
\* that of every other state a command could have left: it accepts a core that
\* runs a document of the same route with all the profiles, and no other.
ReconcileIsExact ==
  (Ready /\ Idle) =>
    \A r \in Request :
      LET other == Result(catalog, r)
      IN  Accepted(catalog, r) /\ Parsed(r) =>
            (Reconciled(ApiView(Document(Hops(other, Records(other, r)), other), FALSE),
                        ExpectedRuntime(HopNames(catalog), catalog), TRUE)
              <=> Route(other) = Route(catalog) /\ HopNames(catalog) \subseteq HopNames(other))

\* The comment on resolve_vless_endpoint says that domains are resolved when the
\* user imports or a candidate is generated anew: the document of a candidate
\* would have the addresses of that moment.
CandidatesResolveEndpoints ==
  [][document' # document /\ release = "this" =>
       \A p \in document'.proxies :
         LET c == Contents[p.name[2]]
         IN  c.host.form = "domain" => p.server.at = resolver[c.host.at]]_vars
============================================================================
