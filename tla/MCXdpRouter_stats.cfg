CONSTANTS
  WordMod = 16
  Bits = {0, 1, 2, 3, 4, 5, 6, 7}
  Byte = {0, 1, 2}
  Cpus = {c1, c2}
  Frames <- FewFrames
  upper <- MCUpper
  lower <- MCLower
  LinkLocalNet <- MCLinkLocalNet
  LinkLocalMask <- MCLinkLocalMask
  LocalNets <- MCLocalNets
  GatewayMacs <- MCGatewayMacs
  MaxFrames = 2
SPECIFICATION Spec
INVARIANT StatisticsCountPackets
