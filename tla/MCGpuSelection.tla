--------------------------- MODULE MCGpuSelection ---------------------------
(* A small instance of GpuSelection: two runs that select the same card.   *)
EXTENDS GpuSelection
=============================================================================
