CONSTANTS
  t1 = t1
  t2 = t2
  idle = idle
  d1 = d1
  d2 = d2
  NoDev = NoDev
  NoOwner = NoOwner
  Tasks <- MC_Tasks
  Idle <- idle
  Devices <- MC_Devices
  Irqs <- MC_Irqs
  DevOfIrq <- MC_DevOfIrq
  OwnerOfDev <- MC_OwnerOfDev
  QueueCap = 1
SPECIFICATION Spec
INVARIANT TasksResumeUnprivileged
