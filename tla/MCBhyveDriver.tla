-------------------------- MODULE MCBhyveDriver --------------------------
(* Instance of BhyveDriver for TLC: every exit code bhyve documents, death  *)
(* by a signal, and a VM that reboots twice.                                *)
EXTENDS BhyveDriver

MCExitCodes == {-1, 0, 1, 2, 3, 4}
=============================================================================
