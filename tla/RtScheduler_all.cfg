SPECIFICATION Spec
CONSTANTS
  sink1 = sink1
  sink2 = sink2
  camera = camera
  migrator = migrator
  stray = stray
  Client <- Clients
  Migrator = migrator
  Type <- Kinds
  Quota <- Quotas
INVARIANTS
  IInv
  QueuesNeverCompete
PROPERTIES
  ImplementsFifo
  RequestsServed
