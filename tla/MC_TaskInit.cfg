CONSTANTS
  NumTasks <- MC_NumTasks
  MaxTasks <- MC_MaxTasks
  Ids <- MC_Ids
  NoMeta = NoMeta
  IdleMeta = IdleMeta
SPECIFICATION Spec
INVARIANTS
  TypeOK
  AbortsOnFirstBadMagic
  RegisteredOnlyWhenMapped
  PassEndsAsPromised
PROPERTIES
  InitTerminates
  ImplementsTaskLoad
