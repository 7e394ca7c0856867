CONSTANTS
  WordMod = 16
  Sample = {0, 1, 7, 8, 15}
  DataWords = 3
SPECIFICATION PatchSpec
INVARIANT PatchedDatagramAccepted
