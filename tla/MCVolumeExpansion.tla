------------------------- MODULE MCVolumeExpansion -------------------------
(* The four sizes of a volume on a small instance. *)
EXTENDS VolumeExpansion

=============================================================================
