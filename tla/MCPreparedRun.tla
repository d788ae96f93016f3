--------------------------- MODULE MCPreparedRun ---------------------------
(***************************************************************************)
(* Instance of PreparedRun: two workers share three operations, so that    *)
(* one of them prepares two contexts; every operation of the table.        *)
(***************************************************************************)
EXTENDS PreparedRun

AllOps == DOMAIN OpTable
=============================================================================
