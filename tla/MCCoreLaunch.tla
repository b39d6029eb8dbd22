---------------------------- MODULE MCCoreLaunch ----------------------------
(* Documents for CoreLaunch: Mihomo accepts the first configuration with and *)
(* without its TUN, the second one only with it.                             *)
EXTENDS CoreLaunch

MCSound == Document \ {[of |-> 2, tun |-> FALSE]}
============================================================================
