---------------------------- MODULE MCBhyveClaims ----------------------------
(* Instances of BhyveClaims for TLC: one configuration for each claim. *)
EXTENDS BhyveClaims

MCExitCodes == {-1, 0, 1, 2, 3, 4}

ZvolBuild(s) ==
  {[zvol |-> TRUE, vnic |-> FALSE, force |-> FALSE, debug |-> FALSE,
    shutdown |-> s]}

WaitBuild    == ZvolBuild("wait")
CommandBuild == ZvolBuild("command")
StopBuild    == ZvolBuild("stop")
=============================================================================
