\* Three requests in flight, three writes and two crashes: two writers and a
\* reader compete for the lock, a save fails between two that succeed, and the
\* crash finds a snapshot or none, a torn temporary file or none.
CONSTANTS
  Clients = {c1, c2, c3}
  MaxWrites = 3
  MaxCrashes = 2
SPECIFICATION FairSpec
INVARIANTS
  TypeOK
  SnapshotWhole
  AckedSurvives
PROPERTIES
  ImplementsDurableStore
  EveryRequestEnds
