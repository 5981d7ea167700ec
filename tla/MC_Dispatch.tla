---------------------------- MODULE MC_Dispatch ----------------------------
(* Two user tasks and idle; IRQ 0 belongs to device d1 owned by t1, IRQ 1 *)
(* to device d2 that no task owns, IRQ 2 to no device.                    *)
EXTENDS Dispatch, TLC

CONSTANTS t1, t2, idle, d1, d2

MC_Tasks == {t1, t2, idle}
MC_Devices == {d1, d2}
MC_Irqs == {0, 1, 2}
MC_DevOfIrq == (0 :> d1 @@ 1 :> d2 @@ 2 :> NoDev)
MC_OwnerOfDev == (d1 :> t1 @@ d2 :> NoOwner)
=============================================================================
