CONSTANTS
  Bits = {0, 1, 2}
  Byte = {0, 1, 2}
  Tools = {1, 2}
  Width = 3
  NoByte = NoByte
  Args <- MCArgs
  MaxPrefix = 5
SPECIFICATION FairSpec
INVARIANTS
  TypeOK
  
  BadArgumentsChangeNothing
  
  OnlyWhatWasTyped
 
CHECK_DEADLOCK FALSE
