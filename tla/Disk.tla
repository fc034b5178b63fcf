-------------------------------- MODULE Disk --------------------------------
(* The gateway's disk, as its stores share it: while it is full, a write   *)
(* fails with an OSError.                                                  *)
CONSTANT None

VARIABLE full   \* external

DiskInit == full \in BOOLEAN
DiskMoves == full' = ~full
=============================================================================
