\* Programs of up to three reported diagnostics, with repeats, over five
\* diagnostics whose message chains and related information may share
\* children and may name reported diagnostics.
CONSTANTS
  Diags <- MCDiags
  MaxTop = 3
  TopAreRoots = FALSE
SPECIFICATION Spec
INVARIANT TypeOK
INVARIANT ReturnedIdsConsistent
