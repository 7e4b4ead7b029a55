--------------------------- MODULE MCVolumeService ---------------------------
(* Small instances of VolumeService for TLC. *)
EXTENDS VolumeService, TLC

ClientSymmetry == Permutations(Clients)

(* What a request to create a volume says of the columns of later handlers:
   anything but target paths, or anything. *)
Pathless == {out \in Outputs : out.targetPaths = {}}
Filled == Outputs

AllOps == Ops
NoUpdateOps == Ops \ {"Update"}
OverlapOps == Ops \ {"Unpublish", "Unstage", "Delete"}
=============================================================================
