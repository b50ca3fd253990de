SPECIFICATION OffsetSpec
CONSTANTS
  Count = 3
  Offsets = {0, 100, 150}
  Accepted = {0, 100}
INVARIANTS
  RolledBackAlwaysRestores
