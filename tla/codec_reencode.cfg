\* The client's encoder picks a wider bin format than writeBin would.
CONSTANTS
  ByteBase = 4
  Lengths <- MCLengths
  PeerWidths = {1, 2}
SPECIFICATION Spec
INVARIANT ReEncodes
