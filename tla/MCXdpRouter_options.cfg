CONSTANTS
  WordMod = 16
  Bits = {0, 1, 2, 3, 4, 5, 6, 7}
  Byte = {0, 1, 2}
  Cpus = {c1}
  Frames <- FramesWithOptions
  upper <- MCUpper
  lower <- MCLower
  LinkLocalNet <- MCLinkLocalNet
  LinkLocalMask <- MCLinkLocalMask
  LocalNets <- MCLocalNets
  GatewayMacs <- MCGatewayMacs
  MaxFrames = 1
SPECIFICATION Spec
INVARIANT IpHeaderAccepted
