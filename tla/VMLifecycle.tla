---------------------------- MODULE VMLifecycle ----------------------------
(***************************************************************************)
(* What the driver promises to the steps that use it, the Driver interface *)
(* of builder/bhyve/driver.go: one virtual machine, whose reboots are not  *)
(* seen, that is launched once and ends once; a failed Start and the       *)
(* answer that the machine is down are given only for a machine that has   *)
(* ended, and an ended machine stays so.                                   *)
(***************************************************************************)
VARIABLES
  vm,     \* the machine: off, up or ended
  start,  \* the call of Start: no, pending, ok, error, or lost in a panic
  answer  \* what Stop or WaitForShutdown last returned

lifecycleVars == <<vm, start, answer>>

LifecycleInit == vm = "off" /\ start = "no" /\ answer = "none"

Launch ==
  /\ start = "no"
  /\ vm' = "up" /\ start' = "pending"
  /\ UNCHANGED answer

End ==
  /\ vm = "up"
  /\ vm' = "ended"
  /\ UNCHANGED <<start, answer>>

\* Start may return success for a machine that has already ended.
StartOk ==
  /\ start = "pending"
  /\ start' = "ok"
  /\ UNCHANGED <<vm, answer>>

StartError ==
  /\ start = "pending" /\ vm = "ended"
  /\ start' = "error"
  /\ UNCHANGED <<vm, answer>>

SayDown ==
  /\ start = "ok" /\ vm = "ended"
  /\ answer' = "down"
  /\ UNCHANGED <<vm, start>>

\* The other answers promise nothing about the machine.
SayOther ==
  /\ start = "ok"
  /\ answer' \in {"timeout", "stopped", "stopErr"}
  /\ UNCHANGED <<vm, start>>

Panic ==
  /\ start = "ok"
  /\ start' = "panic"
  /\ UNCHANGED <<vm, answer>>

LifecycleNext ==
  Launch \/ End \/ StartOk \/ StartError \/ SayDown \/ SayOther \/ Panic

LifecycleSpec == LifecycleInit /\ [][LifecycleNext]_lifecycleVars
=============================================================================
