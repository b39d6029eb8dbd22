-------------------------- MODULE MCProfileLibrary --------------------------
(* Files for ProfileLibrary: eight addresses, the last two of them the LAN. *)
EXTENDS ProfileLibrary

Half(n) == [first |-> 4 * n, last |-> 4 * n + 3]
Pair(n) == [first |-> 2 * n, last |-> 2 * n + 1]

MCLan == Pair(3)
MCLocal == {Pair(3)}

At(address) == [form |-> "IPv4", at |-> address]
Six == [form |-> "IPv6", at |-> 0]
Named(domain) == [form |-> "domain", at |-> domain]

WireGuard(host, allowed, servers, mtu) ==
  [kind |-> "wireguard", host |-> host, addresses |-> [IPv4 |-> 1, IPv6 |-> 1],
   dns |-> [IPv4 |-> servers, IPv6 |-> TRUE], allowed |-> [IPv4 |-> allowed, IPv6 |-> TRUE],
   mtu |-> mtu]

Vless(host, tls, servername) ==
  [kind |-> "vless", host |-> host, dns |-> {5}, tls |-> tls, servername |-> servername,
   reality |-> {}]

\* First hops: WireGuard with split networks, VLESS at a domain.  Proton nodes:
\* WireGuard, VLESS at a domain, and one that must not be imported: it leaves out
\* the last addresses.
MCContents ==
  [id \in {1, 2, 3, 4, 5} |->
     CASE id = 1 -> WireGuard(At(1), {Half(0), Half(1)}, {4, 5}, "none")
       [] id = 2 -> Vless(Named(1), TRUE, "none")
       [] id = 3 -> WireGuard(At(3), {Half(0), Pair(2), Pair(3)}, {0}, "fits")
       [] id = 4 -> Vless(Named(1), FALSE, "none")
       [] id = 5 -> WireGuard(At(5), {Half(0), Pair(2)}, {0}, "none")]

\* Networks that cover everything in parts that touch, overlap or repeat, or miss
\* the first, a middle or the last address.
MCNetworks ==
  {{Half(0), Half(1)}, {Pair(0), Pair(1), Pair(2), Pair(3), Half(1)}, {Half(0), Pair(2)},
   {Pair(0), Half(1)}, {Pair(1), Half(1)}, {[first |-> 0, last |-> 7], Pair(1)}}

MCOthers ==
  {WireGuard(At(1), networks, {5}, "none") : networks \in MCNetworks}
    \cup {WireGuard(host, {Half(0), Half(1)}, servers, mtu) :
            host \in {At(2), Six, Named(1)}, servers \in {{}, {3}}, mtu \in {"fits", "outside"}}
    \cup {[WireGuard(At(1), {Half(0), Half(1)}, {5}, "none") EXCEPT !.addresses.IPv4 = n] :
            n \in {0, 2}}
    \cup {Vless(host, tls, "none") : host \in {At(2), Six, Named(1)}, tls \in BOOLEAN}
    \cup {[Vless(Named(1), TRUE, "given") EXCEPT !.reality = {"public-key", "short-id"}]}
============================================================================
