--------------------------- MODULE MCGuestAddress ---------------------------
(* Instances of GuestAddress for TLC. *)
EXTENDS GuestAddress

CONSTANTS a1, a2

\* Octets of one and of two digits, that are the same digits in a row.
Guest == <<2, 16>>
TwoMachines == {Guest, <<33, 0>>}
=============================================================================
