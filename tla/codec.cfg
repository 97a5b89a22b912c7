\* Every width boundary, both encoders, every cut point.
CONSTANTS
  ByteBase = 4
  Lengths <- MCLengths
  PeerWidths = {1, 2, 4}
SPECIFICATION Spec
INVARIANT TypeOK
INVARIANT ReadYieldsWhatWasWritten
