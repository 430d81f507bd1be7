---------------------------- MODULE MCBuildHost ----------------------------
(* Instances of BuildHost for TLC. *)
EXTENDS BuildHost, TLC

CONSTANTS b1, b2, b3, x, y

Three == {b1, b2, b3}

Named(n, z, f) ==
  [out |-> n, disk |-> n, vnic |-> n, vm |-> n, ports |-> Ports, zvol |-> z, force |-> f]

\* b1 and b2 share every name, and b2 is forced; b3 has its own names and only
\* competes for the ports.  b1 has a zvol, the others disk files.
SharedAndOwn ==
  (b1 :> Named(x, TRUE, FALSE)) @@ (b2 :> Named(x, FALSE, TRUE)) @@ (b3 :> Named(y, FALSE, FALSE))
=============================================================================
