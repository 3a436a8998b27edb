CONSTANTS
  MaxEof = 5
  WordSize = 64
  IntSize = 32
  MaxChanges = 1
  MaxErrors = 1
SPECIFICATION ExtentsFairSpec
INVARIANT ExtentsSound
 
CHECK_DEADLOCK FALSE
