SPECIFICATION Spec
CONSTANTS
  Size = 22
  Reads = 3
  Readings = {2, 3, 9}
INVARIANTS TypeOK ChangeAccepted
PROPERTIES DisturbanceIgnored ImplementsProbe StartAccepted DeadRefused
