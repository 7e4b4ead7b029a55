----------------------------- MODULE MCNvmeHosts -----------------------------
(* Two volumes of one server, and the hosts that connect to them. *)
EXTENDS NvmeHosts
=============================================================================
