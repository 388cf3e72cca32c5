---------------------------- MODULE MCGpuThread ----------------------------
(* GpuThread for TLC. *)
EXTENDS GpuThread
=============================================================================
