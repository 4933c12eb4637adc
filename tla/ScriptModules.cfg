SPECIFICATION Spec
CONSTANTS
  j1 = j1
  j2 = j2
  c1 = c1
  a = a
  b = b
  Null = Null
  Loaders = {j1, j2, c1}
  Pkgs = {a, b}
  TypeOf <- MCTypeOf
  PathLen <- MCPathLen
  Files <- MCFiles
  Temps = {FALSE, TRUE}
  MaxDepth = 2
  MaxMade = 3
SYMMETRY Symmetry
INVARIANTS TypeOK LoadersOwned Imported StackShape
PROPERTY CacheStable
CHECK_DEADLOCK FALSE
