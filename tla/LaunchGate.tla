----------------------------- MODULE LaunchGate -----------------------------
(***************************************************************************)
(* What connect in live_runtime.rs finds out about the network before it   *)
(* starts Mihomo, and while it waits for the TUN.                          *)
(*                                                                         *)
(* capture_preflight reads six tables of the operating system twice, one   *)
(* after the other: the interfaces, the routes, and the listeners of TCP   *)
(* and UDP over IPv4 and IPv6.  Other software changes them at any time.   *)
(* evaluate_conflicts of conflict.rs judges the second reading; the first  *)
(* only says whether the tables held still.  After the start,              *)
(* owned_hk_proton_tun_is_ready looks at the interfaces and then compares  *)
(* the routes of the own adapter with those the configuration asks for.    *)
(*                                                                         *)
(* The two address families have the same small width here; that of IPv4   *)
(* is counted in addresses, that of IPv6 in prefix lengths.  Programs that *)
(* look like a Clash client only cause a warning and are left out.         *)
(***************************************************************************)
EXTENDS AddressRanges

CONSTANTS
  Physical,      \* adapters of each kind; all virtual ones are judged alike
  Virtual,
  Owned,
  Listener,      \* who may listen on the required port: a table and an address
  RouteSets,     \* the routes other software gives each adapter
  TunRoutes,     \* routes Mihomo sets and removes one at a time
  RouteAddress,  \* tun.route-address of the configuration
  Exclusions,    \* values of tun.route-exclude-address
  MaxChanges     \* bound: changes of the tables during one capture

Adapter == Physical \cup Virtual \cup Owned
Required == "loopback"   \* the address of the required port, that of DNS

\* A block of addresses of one family.
Route == {r \in [family : {4, 6}, first : Address, last : Address] : r.first <= r.last}

Of(rs, family) == {[first |-> r.first, last |-> r.last] : r \in {q \in rs : q.family = family}}

\* Addresses have 32 or 128 bits.  The document always routes addresses of both
\* families to the TUN (mihomo.rs:197).
ASSUME GateAssumption ==
  /\ Width >= 2
  /\ Listener \subseteq [table : 3 .. 6, address : {"loopback", "any", "lan"}]
  /\ RouteSets \in [Adapter -> SUBSET SUBSET Route]
  /\ TunRoutes \subseteq Route
  /\ RouteAddress \subseteq Route
  /\ \A family \in {4, 6} : Of(RouteAddress, family) # {}
  /\ Exclusions \subseteq SUBSET Route
  /\ MaxChanges \in Nat

VARIABLES
  life,      \* operational status of each adapter, or that it is not there
  routes,    \* the routing table, by adapter
  bound,     \* those who listen on the required port
  phase,     \* how far the attempt to connect is
  reads,     \* tables read so far, of a capture or of one look at the TUN
  first, second,  \* the two readings
  needs6,    \* require_ipv6_capture
  excluded,  \* tun.route-exclude-address
  changes,
  free,      \* history: at some moment of the capture nothing was in the way
  steady6,   \* history: IPv6 had a default route during the whole capture
  whole      \* history: at some moment of the look the TUN took all it should

tables == <<life, routes, bound>>
history == <<changes, free, steady6, whole>>
vars == <<tables, phase, reads, first, second, needs6, excluded, history>>

Reading ==
  [life : [Adapter -> {"absent", "down", "up"}], routes : [Adapter -> SUBSET Route],
   bound : SUBSET Listener]

NoAdapters == [a \in Adapter |-> "absent"]
NoRoutes == [a \in Adapter |-> {}]
NoTables == [life |-> NoAdapters, routes |-> NoRoutes, bound |-> {}]

Init ==
  /\ life = NoAdapters
  /\ routes = NoRoutes
  /\ bound = {}
  /\ phase = "idle"
  /\ reads = 0
  /\ first = NoTables
  /\ second = NoTables
  /\ needs6 = FALSE
  /\ excluded = {}
  /\ changes = 0
  /\ free = FALSE
  /\ steady6 = FALSE
  /\ whole = FALSE

----------------------------------------------------------------------------
(* conflict.rs: what is in the way *)

\* Mutant of AddressesConflict: one port, one owner.
PortsConflict(existing, required) == TRUE

AddressesConflict(existing, required) ==
  existing = required \/ "any" \in {existing, required}

CapturesGlobalIpv6(rs) == \E r \in Of(rs, 6) : Length(r) >= 2^(Width - 2)

PublicCapture(rs) == 2 * Coverage(Of(rs, 4)) >= 2^Width \/ CapturesGlobalIpv6(rs)

\* snapshot_requires_ipv6_capture
NeedsIpv6(s) ==
  \E a \in Physical : s.life[a] = "up" /\ \E r \in Of(s.routes[a], 6) : Length(r) = 2^Width

\* WindowsSnapshot::associations_complete
AssociationsComplete(s) == \A a \in Adapter : s.routes[a] # {} => s.life[a] # "absent"

ConflictingListeners(s) == {b \in s.bound : AddressesConflict(b.address, Required)}

\* Mutant of HeldStill: the routes of the second reading are enough.
SecondReadingCounts == ConflictingListeners(first) = ConflictingListeners(second)

\* routes_stable: route_signature and required_port_signature.
HeldStill ==
  /\ first.routes = second.routes
  /\ ConflictingListeners(first) = ConflictingListeners(second)

\* evaluate_conflicts finds nothing that blocks.
CanStart ==
  /\ AssociationsComplete(first) /\ AssociationsComplete(second) /\ HeldStill
  /\ \A a \in Owned : second.life[a] # "up"
  /\ \A a \in Virtual : second.life[a] = "up" => ~ PublicCapture(second.routes[a])
  /\ ConflictingListeners(second) = {}

----------------------------------------------------------------------------
(* The tables and their readers *)

\* What is really in the way at a moment, address by address.
Addresses(rs) == UNION {r.first .. r.last : r \in rs}

Obstructed(s) ==
  \/ \E a \in Owned : s.life[a] = "up"
  \/ \E a \in Virtual :
       /\ s.life[a] = "up"
       /\ \/ 2 * Cardinality(Addresses(Of(s.routes[a], 4))) >= Cardinality(Address)
          \/ \E r \in Of(s.routes[a], 6) : 4 * Cardinality(Addresses({r})) >= Cardinality(Address)
  \/ \E b \in s.bound : b.address \in {Required, "any"}

Tables == [life |-> life, routes |-> routes, bound |-> bound]

\* One adapter changes with its routes, which may outlast its being up, or one
\* listener.
Change ==
  /\ \/ \E a \in Adapter, l \in {"absent", "down", "up"} : \E rs \in RouteSets[a] \cup {{}} :
          /\ l = "absent" => rs = {}
          /\ life' = [life EXCEPT ![a] = l]
          /\ routes' = [routes EXCEPT ![a] = rs]
          /\ <<life', routes'>> # <<life, routes>>
          /\ UNCHANGED bound
     \/ \E b \in Listener :
          /\ bound' = IF b \in bound THEN bound \ {b} ELSE bound \cup {b}
          /\ UNCHANGED <<life, routes>>
  /\ UNCHANGED <<phase, reads, first, second, needs6, excluded>>

ChangeBefore == phase = "idle" /\ Change /\ UNCHANGED history

ChangeDuring ==
  /\ phase = "capture"
  /\ changes < MaxChanges
  /\ changes' = changes + 1
  /\ Change
  /\ free' = (free \/ ~ Obstructed(Tables'))
  /\ steady6' = (steady6 /\ NeedsIpv6(Tables'))
  /\ UNCHANGED whole

BeginCapture ==
  /\ phase = "idle"
  /\ phase' = "capture"
  /\ changes' = 0
  /\ free' = ~ Obstructed(Tables)
  /\ steady6' = NeedsIpv6(Tables)
  /\ UNCHANGED <<tables, reads, first, second, needs6, excluded, whole>>

\* A capture reads the interfaces, then the routes, then four times listeners.
Read(s, table) ==
  [life   |-> IF table = 1 THEN life ELSE s.life,
   routes |-> IF table = 2 THEN routes ELSE s.routes,
   bound  |-> {b \in Listener : b \in IF table = b.table THEN bound ELSE s.bound}]

ReadFirst ==
  /\ phase = "capture" /\ reads < 6
  /\ first' = Read(first, reads + 1)
  /\ reads' = reads + 1
  /\ UNCHANGED <<tables, phase, second, needs6, excluded, history>>

ReadSecond ==
  /\ phase = "capture" /\ reads \in 6 .. 11
  /\ second' = Read(second, reads - 5)
  /\ reads' = reads + 1
  /\ UNCHANGED <<tables, phase, first, needs6, excluded, history>>

Evaluate ==
  /\ phase = "capture" /\ reads = 12
  /\ phase' = IF CanStart THEN "approved" ELSE "refused"
  /\ needs6' = (CanStart /\ NeedsIpv6(second))
  /\ reads' = 0
  /\ first' = NoTables
  /\ second' = NoTables
  /\ UNCHANGED <<tables, excluded, history>>

----------------------------------------------------------------------------
(* live_runtime.rs: the own TUN *)

\* From here on only the own adapter is looked at; the others are dropped.
LaunchCore ==
  /\ phase = "approved"
  /\ phase' = "wait"
  /\ excluded' \in Exclusions
  /\ life' = NoAdapters
  /\ routes' = NoRoutes
  /\ bound' = {}
  /\ changes' = 0
  /\ free' = FALSE
  /\ steady6' = FALSE
  /\ UNCHANGED <<reads, first, second, needs6, whole>>

HasCompletePublicCapture(destinations) ==
  \A family \in {4, 6} :
    LET included == Normalized(Of(RouteAddress, family))
        expected == Subtract(included, Normalized(Of(excluded, family)))
    IN  \/ family = 6 /\ ~ needs6
        \/ included # {} /\ Covers(Normalized(Of(destinations, family)), expected)

OwnedTunReady == \E a \in Owned : first.life[a] = "up" /\ HasCompletePublicCapture(routes[a])

\* The same without ranges, address by address, and without reading tables.
TakesAll(destinations) ==
  \A family \in IF needs6 THEN {4, 6} ELSE {4} :
    Addresses(Of(RouteAddress, family)) \ Addresses(Of(excluded, family))
      \subseteq Addresses(Of(destinations, family))

TunTakesAll(s) == \E a \in Owned : s.life[a] = "up" /\ TakesAll(s.routes[a])

\* Mihomo creates its adapter, and sets or removes a route; or Windows takes the
\* adapter down with its routes in place, or removes it.
TunChanges ==
  /\ phase = "wait"
  /\ \E a \in Owned :
       \/ \E l \in {"absent", "down", "up"} :
            /\ life[a] # l
            /\ life' = [life EXCEPT ![a] = l]
            /\ routes' = IF l = "absent" THEN [routes EXCEPT ![a] = {}] ELSE routes
       \/ /\ life[a] = "up"
          /\ \E r \in TunRoutes :
               routes' = [routes EXCEPT ![a] =
                            IF r \in routes[a] THEN routes[a] \ {r} ELSE routes[a] \cup {r}]
          /\ UNCHANGED life
  /\ UNCHANGED <<bound, phase, reads, first, second, needs6, excluded, changes, free, steady6>>
  /\ whole' = (reads = 1 /\ (whole \/ TunTakesAll(Tables')))

\* A look at the TUN reads the interfaces here and the routes where it ends.
LookAtTun ==
  /\ phase = "wait" /\ reads = 0
  /\ first' = Read(first, 1)
  /\ reads' = 1
  /\ whole' = TunTakesAll(Tables)
  /\ UNCHANGED <<tables, phase, second, needs6, excluded, changes, free, steady6>>

EndLook ==
  /\ phase = "wait" /\ reads = 1
  /\ phase' = IF OwnedTunReady THEN "connected" ELSE "wait"
  /\ first' = NoTables
  /\ reads' = 0
  /\ whole' = FALSE
  /\ UNCHANGED <<tables, second, needs6, excluded, changes, free, steady6>>

\* A table could not be read, the attempt failed, or the connection it led to
\* ended.
Over ==
  /\ phase # "idle"
  /\ phase' = "idle"
  /\ life' = NoAdapters
  /\ routes' = NoRoutes
  /\ bound' = {}
  /\ reads' = 0
  /\ first' = NoTables
  /\ second' = NoTables
  /\ needs6' = FALSE
  /\ excluded' = {}
  /\ changes' = 0
  /\ free' = FALSE
  /\ steady6' = FALSE
  /\ whole' = FALSE

Next ==
  \/ ChangeBefore \/ ChangeDuring
  \/ BeginCapture \/ ReadFirst \/ ReadSecond \/ Evaluate
  \/ LaunchCore \/ TunChanges \/ LookAtTun \/ EndLook \/ Over

Spec == Init /\ [][Next]_vars

----------------------------------------------------------------------------
(* Properties *)

\* A reading, and what was concluded from it, lives no longer than its attempt.
GateTypeOK ==
  /\ Tables \in Reading /\ first \in Reading /\ second \in Reading
  /\ excluded \in Exclusions \cup {{}}
  /\ phase \in {"idle", "capture", "approved", "refused", "wait", "connected"}
  /\ reads \in 0 .. 12
  /\ phase # "capture" => second = NoTables
  /\ phase \notin {"capture", "wait"} => reads = 0
  /\ phase = "wait" => reads \in 0 .. 1
  /\ phase # "capture" /\ reads = 0 => first = NoTables
  /\ phase \notin {"approved", "wait", "connected"} => ~ needs6
  /\ needs6 \in BOOLEAN /\ whole \in BOOLEAN
  /\ changes \in 0 .. MaxChanges
  /\ \A a \in Adapter : life[a] = "absent" => routes[a] = {}

\* A connect that may go on has seen the network as it was: though six
\* tables cannot be read at once, and other software changed them up to three
\* times meanwhile (four times deceive it), at some moment nothing was in the
\* way (no tunnel of another program, no adapter left over, no listener on a
\* required port), and an IPv6 default route that was there all the time is not
\* overlooked (capture_preflight, live_runtime.rs:709; evaluate_conflicts).
ApprovalIsGrounded == phase = "approved" => free /\ (steady6 => needs6)

\* On a network that holds still nothing is refused without a reason: half of
\* the addresses in many small routes, overlapping or not, are told from less
\* than half, and a listener on another address is no conflict.
QuietNetworkIsJudgedRightly ==
  phase = "refused" /\ changes = 0 => ~ free

\* Interfaces and routes are read one after the other, and still the TUN counts
\* as ready only if at one moment of the look it was up and took every address
\* the configuration includes and does not exclude; and it does count if it was
\* up then and takes them now, however Mihomo cut them into prefixes
\* (owned_hk_proton_tun_is_ready, live_runtime.rs:961).
TunReadyIsExact ==
  phase = "wait" /\ reads = 1 =>
    /\ OwnedTunReady => whole
    /\ (\E a \in Owned : first.life[a] = "up" /\ TakesAll(routes[a])) => OwnedTunReady
============================================================================
