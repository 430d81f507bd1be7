-------------------------- MODULE MCBhyveBuild --------------------------
(* Instances of BhyveBuild for TLC. *)
EXTENDS BhyveBuild

MCExitCodes == {-1, 0, 1, 2}

\* Every way to shut down, with and without a zvol, with and without a VNIC of
\* the build's own, over an earlier output or not, and debugged or not.
SomeConfigs ==
  {[zvol |-> TRUE,  vnic |-> TRUE,  force |-> FALSE, debug |-> FALSE, shutdown |-> "wait"],
   [zvol |-> TRUE,  vnic |-> FALSE, force |-> FALSE, debug |-> FALSE, shutdown |-> "command"],
   [zvol |-> TRUE,  vnic |-> FALSE, force |-> FALSE, debug |-> TRUE,  shutdown |-> "stop"],
   [zvol |-> FALSE, vnic |-> TRUE,  force |-> TRUE,  debug |-> FALSE, shutdown |-> "wait"]}
=============================================================================
