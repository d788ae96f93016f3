--------------------------- MODULE MCVcpuControl ---------------------------
(***************************************************************************)
(* Instances of VcpuControl: 2 vCPUs, so that an operation can stop        *)
(* between them, and 3 operations: resume, pause, save.                    *)
(***************************************************************************)
EXTENDS VcpuControl
=============================================================================
