SPECIFICATION Spec
SYMMETRY Interchangeable
CONSTANTS
  Threads = {p, q}
  Blocks = {1}
  Ranges = {{1}}
  Sizes = {1, 2}
  Caching = TRUE
  Mishaps = {"open", "read", "short", "link", "deadline", "drop"}
  MaxRev = 2
  MaxRead = 2
  MaxMishap = 1
INVARIANT Inv
CHECK_DEADLOCK FALSE
