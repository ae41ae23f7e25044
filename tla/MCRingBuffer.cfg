\* Two growths (2 to 4 to 8 slots) at every position of head, two values.
SPECIFICATION RBSpec
CONSTANTS
  Values = {v1, v2}
  Zero = zero
  InitCap = 2
  MaxLen = 6
INVARIANTS RBTypeOK WindowInv
PROPERTY DequeSpec
