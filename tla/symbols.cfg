\* Two names, two symbols (one accepted by Find's predicate), nil and
\* absent entries, two tables over at most three Go maps, one the caller's.
CONSTANTS
  a = a
  b = b
  s1 = s1
  s2 = s2
  h1 = h1
  h2 = h2
  Names <- MCNames
  Symbols <- MCSymbols
  Matching = {s1}
  Handles <- MCHandles
  Nil = Nil
  Absent = Absent
  MaxMaps = 3
SYMMETRY SymHandles
SPECIFICATION Spec
INVARIANT CloneIsolated
