CONSTANTS
  t1 = t1
  t2 = t2
  d1 = d1
  dx = dx
  Tasks <- MC_Tasks
  Devices <- MC_Devices
  Known <- MC_Known
  Owner <- MC_Owner
  NumIos <- MC_NumIos
  MaxIo = 1
SPECIFICATION Spec
INVARIANT
  SyscallStatusTruthful
