----------------------------- MODULE MCProcesses -----------------------------
(* The plugin, the control plane and their hosts, with two CSI calls. *)
EXTENDS Processes
=============================================================================
