---------------------------- MODULE MCCSIService ----------------------------
(* Small instances of CSIService for TLC. *)
EXTENDS CSIService

ClassOf(caps, transport, dataset, required, limit) ==
  [caps |-> caps, transport |-> transport, dataset |-> dataset,
   required |-> required, limit |-> limit]

Shared == [Mounting EXCEPT !.access = "MULTI_NODE_MULTI_WRITER"]

(* The classes that differ in the volume they make, and one for each way in
   which a class can be wrong. *)
MCClasses ==
  {ClassOf(<<Mounting>>, Absent, "tank", 1, 0),
   ClassOf(<<Mounting, Mounting>>, "nvmeof", "tank", 0, 0),
   ClassOf(<<Mounting, Blocking>>, "iscsi", "tank", 1, 1),
   ClassOf(<<>>, "iscsi", "tank", 0, 0),
   ClassOf(<<Shared>>, "iscsi", "tank", 0, 0),
   ClassOf(<<Mounting>>, "iscsi", Absent, 0, 0),
   ClassOf(<<Mounting>>, "fc", "tank", 0, 0),
   ClassOf(<<Mounting>>, "iscsi", "tank", 2, 1)}

OneClass == {ClassOf(<<Mounting>>, "iscsi", "tank", 1, 0)}
=============================================================================
