CONSTANTS
  NumTasks <- MC_NumTasks
  MaxTasks <- MC_MaxTasks
  Ids <- MC_Ids
  NoMeta = NoMeta
  IdleMeta = IdleMeta
SPECIFICATION Spec
INVARIANT TaskInitAsDocumented
