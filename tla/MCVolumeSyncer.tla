--------------------------- MODULE MCVolumeSyncer ---------------------------
(* Small instances of VolumeSyncer for TLC. *)
EXTENDS VolumeSyncer

(* What a request to create a volume says of the columns of later handlers:
   hosts, but no path. *)
HostsOnly == {out \in Outputs : out.targetPaths = {} /\ out.stagingPath = NoPath}

NoUpdateOps == Ops \ {"Update"}
=============================================================================
