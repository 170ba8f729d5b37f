SPECIFICATION FairMigrationSpec
CONSTANTS
  Process = {p1, p2}
  Control = {k1, k2}
  None = None
  MaxWrites = 2
  MaxFaults = 2
INVARIANTS
  MigrationInv
PROPERTIES
  ImplementsUpgrade
  SchemaReady
