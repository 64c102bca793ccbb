CONSTANTS
  eth1 = eth1
  eth2 = eth2
  vpn = vpn
  dev1 = dev1
  dev2 = dev2
  ppp = ppp
  Service = {eth1, eth2, vpn}
  Vpn = {vpn}
  VpnService = vpn
  Device = {dev1, dev2, ppp}
  VpnDevice = ppp
  NoDevice = NoDevice
  NoService = NoService
  PortalDevice = {dev1}
  PortalRetry = TRUE
  MaxCooldown = 1
  Known = {eth1, eth2, vpn}
  AutoVpn = TRUE
  Unreliable = {eth1}
  Handled = {eth2}
  Administered = {eth2}
  Rank <- MCRank
  DeviceOf <- MCDeviceOf
SPECIFICATION Spec
INVARIANTS
    DefaultIsSettled
    VpnFollowsCarrier
    AutoConnectIsAwaited
    PortalIsRechecked
