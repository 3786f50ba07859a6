----------------------------- MODULE MCVcpuRun -----------------------------
(* Small instances of VcpuRun for TLC.                                     *)
EXTENDS VcpuRun
=============================================================================
