\* Three caller-saved and three callee-saved homes, four argument registers:
\* small enough for functions to run out of either.
CONSTANTS
  NumGpr = 6
  CalleeSavedFrom = 3
  Functions <- AllFunctions
  ArgRegs <- MCArgRegs
SPECIFICATION Spec
INVARIANTS TypeOK NoSharing CallsSpareTheLiving UsesReadTheirDefs ArgumentsArrive SavedRestored
CHECK_DEADLOCK FALSE
