--------------------------- MODULE MCVirtioBlock ---------------------------
(***************************************************************************)
(* Instances of VirtioBlock.  SmallChains: a read that is behind the end   *)
(* of the smaller disk, one whose end overflows, and one that needs no I/O.*)
(***************************************************************************)
EXTENDS VirtioBlock

Make(type, sector, len, data) ==
    [type |-> type, sector |-> sector, len |-> len, head_wo |-> FALSE,
     data |-> data, status |-> "wo"]

SmallChains ==
    {Make("In", 1, SECTOR_SIZE, "wo"),
     Make("In", U64 - 1, SECTOR_SIZE, "wo"),
     Make("GetDeviceID", 0, VIRTIO_BLK_ID_BYTES, "wo")}
=============================================================================
