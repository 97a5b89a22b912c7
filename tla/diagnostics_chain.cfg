\* A reported diagnostic with a message chain or related information.
CONSTANTS
  Diags <- MCDiags
  MaxTop = 2
  TopAreRoots = TRUE
SPECIFICATION Spec
INVARIANT AllReachedPresent
