---------------------------- MODULE MC_GpioGate ----------------------------
(* Two tasks; device d1 with one declared io line, owned by t1; dx is a   *)
(* handle the device manager does not know.  Callers pass io 0 and 1.     *)
EXTENDS GpioGate, TLC

CONSTANTS t1, t2, d1, dx

MC_Tasks == {t1, t2}
MC_Devices == {d1, dx}
MC_Known == {d1}
MC_Owner == (d1 :> t1)
MC_NumIos == (d1 :> 1)
=============================================================================
