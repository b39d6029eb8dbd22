SPECIFICATION Spec
CONSTANTS
  ethernet = ethernet
  vpn = vpn
  tun = tun
  Physical = {ethernet}
  Virtual = {vpn}
  Owned = {tun}
  Width = 3
  Listener <- MCListener
  RouteSets <- MCRouteSets
  TunRoutes <- MCTunRoutes
  RouteAddress <- MCRouteAddress
  Exclusions <- MCExclusions
  MaxChanges = 2
INVARIANTS
  ApprovalIsGrounded
  QuietNetworkIsJudgedRightly
  TunReadyIsExact
