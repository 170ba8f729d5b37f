SPECIFICATION FairBootSpec
CONSTANTS
  Thread = {t1, t2, t3}
  Layout <- Installations
  MaxImportFaults = 2
  MaxRetries = 2
INVARIANTS
  BootInv
  PathInOrder
  RootsAgree
PROPERTIES
  BootstrapEnds
