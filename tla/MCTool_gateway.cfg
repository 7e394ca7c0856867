CONSTANTS
  Bits = {0, 1, 2}
  Byte = {0, 1, 2}
  Tools = {1, 2}
  Width = 3
  NoByte = NoByte
  Args <- FewArgs
  MaxPrefix = 3
SPECIFICATION Spec
INVARIANT GatewayOnAllForwarded
CHECK_DEADLOCK FALSE
