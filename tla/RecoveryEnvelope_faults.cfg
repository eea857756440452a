SPECIFICATION EnvelopeSpec
CONSTANTS
  MaxWrites = 4
  MaxTears = 3
INVARIANTS
  Durable
PROPERTIES
  NoReplacement
  ImplementsCopy
