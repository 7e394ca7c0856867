CONSTANTS
  Bits = {0, 1, 2}
  Byte = {0, 1, 2}
  Tools = {1}
  Width = 3
  NoByte = NoByte
  Args <- NetArgs
  MaxPrefix = 5
SPECIFICATION Spec
INVARIANT LocalNetworkAsDocumented
CHECK_DEADLOCK FALSE
