--------------------------- MODULE MCVmHandover ---------------------------
(* Two interrupt lines (one may be with the other VM while the second is on*)
(* its way) and three parcels (a late notification meets a later lend).    *)
EXTENDS VmHandover
=============================================================================
