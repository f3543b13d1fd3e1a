------------------------- MODULE MCDeviceReconciler -------------------------
(* A pool of two disks and a pool of one. *)
EXTENDS DeviceReconciler, TLC

CONSTANTS d1, d2, d3, mirror, data

MCDisksOf == (mirror :> {d1, d2}) @@ (data :> {d3})
=============================================================================
