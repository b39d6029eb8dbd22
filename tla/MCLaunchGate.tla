---------------------------- MODULE MCLaunchGate ----------------------------
(* A small network for LaunchGate: eight addresses of each family. *)
EXTENDS LaunchGate, TLC

CONSTANTS ethernet, vpn, tun

Prefix(family, length, n) ==
  [family |-> family, first |-> n * 2^(Width - length), last |-> (n + 1) * 2^(Width - length) - 1]

\* The line has default routes of both families.  Another program's
\* tunnel takes half of the addresses in two parts that do not touch, or less
\* than half in two that overlap, or a quarter or an eighth of IPv6.
MCRouteSets ==
  ethernet :> {{Prefix(4, 0, 0), Prefix(6, 0, 0)}}
  @@ vpn :> {{Prefix(4, 2, 0), Prefix(4, 2, 2)},
             {Prefix(4, 2, 1), Prefix(4, 3, 3), Prefix(4, 3, 7), Prefix(6, 3, 0)},
             {Prefix(6, 2, 1)}}
  @@ tun :> {}

\* Others may listen on TCP over IPv4 and IPv6 and on UDP over IPv6.
MCListener ==
  {[table |-> 3, address |-> "loopback"], [table |-> 4, address |-> "lan"],
   [table |-> 6, address |-> "any"]}

MCTunRoutes ==
  {Prefix(4, 2, n) : n \in 0 .. 3} \cup {Prefix(4, 3, n) : n \in 3 .. 6}
    \cup {Prefix(6, 1, 0), Prefix(6, 2, 2), Prefix(6, 2, 3)}

MCRouteAddress == {Prefix(f, 1, n) : f \in {4, 6}, n \in 0 .. 1}

MCExclusions ==
  {{}, {Prefix(4, 3, 5)}, {Prefix(4, 2, 0), Prefix(4, 3, 2), Prefix(4, 3, 7), Prefix(6, 2, 2)}}
============================================================================
