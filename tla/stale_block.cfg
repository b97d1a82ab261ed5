SPECIFICATION Spec
CONSTANTS
  Threads = {p, q}
  Blocks = {1, 2}
  Ranges = {{1, 2}}
  Sizes = {1}
  Caching = TRUE
  Mishaps = {"drop"}
  MaxRev = 2
  MaxRead = 3
  MaxMishap = 1
SYMMETRY Interchangeable
INVARIANT BlocksValid
CHECK_DEADLOCK FALSE
