--------------------------- MODULE MCHostRegistry ---------------------------
(* The hosts table on a small instance: one server, one client, one volume. *)
EXTENDS HostRegistry

CONSTANTS s1, c1, k1

Remote(key, password) == [key |-> key, local |-> FALSE, password |-> password]
Local(key)            == [key |-> key, local |-> TRUE, password |-> NoKey]

(* An empty file; files that name hosts, local or remote, with and without
   secrets. *)
MCConfigs ==
  {<< >>, s1 :> Remote(k1, NoKey), s1 :> Remote(NoKey, NoKey),
   (s1 :> Remote(NoKey, NoKey)) @@ (c1 :> Remote(NoKey, k1)),
   (s1 :> Remote(NoKey, NoKey)) @@ (c1 :> Local(NoKey))}

(* Requests bring a key to the server, which the volumes take over, and a password
   to the client. *)
MCSettings ==
  (s1 :> {Remote(k1, NoKey)}) @@ (c1 :> {Remote(NoKey, k1), Local(NoKey)})

=============================================================================
