------------------------- MODULE BhyveDriver_proofs -------------------------
(***************************************************************************)
(* Proofs about the driver for every set of exit codes and every bound on  *)
(* the number of reboots.                                                  *)
(***************************************************************************)
EXTENDS BhyveDriver, TLAPS

-----------------------------------------------------------------------------
(* The inductive invariant behind the safety properties.                    *)

\* What the monitor's place says of the process.
ProcessInv ==
  /\ monitor \in {"none", "create"} => proc \in {"unstarted", "reaped"}
  /\ monitor = "start" => proc = "unstarted"
  /\ monitor = "wait" => proc \in {"alive", "zombie"}
  /\ monitor \in {"send", "clear", "done"} => proc \in {"unstarted", "reaped"}

\* What it says of the commands made so far, and of the CD.
CommandInv ==
  /\ monitor = "none" => cmd = NoCmd
  /\ monitor \in {"none", "create"} => (first <=> cmd = NoCmd) /\ cmd < MaxBoots
  /\ monitor \in {"start", "wait"} => cmd # NoCmd /\ (cdrom <=> cmd = 1)
  /\ monitor = "start" => (first <=> cmd = 1)
  /\ monitor = "wait" => ~first
  /\ proc = "zombie" /\ status = 0 => cmd < MaxBoots

\* What it says of the channels: a code other than 0 has its error.
ChannelInv ==
  /\ monitor \notin {"clear", "done"} => retCh = {}
  /\ retCh \subseteq {rc}
  /\ monitor \in {"none", "create", "start", "wait"} => errCh = {} /\ rc = 0
  /\ client # "failed" /\ rc # 0 => errCh # {}

\* How the client and the driver's fields follow the monitor.
HandleInv ==
  /\ client = "idle" <=> monitor = "none"
  /\ answer # "none" => client \in {"ready", "waiting", "panicked"}
  /\ client \in {"idle", "starting", "startErr", "failed"} => vmCmd = NoCmd /\ ~vmRetCh
  /\ client = "starting" => monitor # "done"
  /\ client = "startErr" => monitor = "clear" /\ rc # 0
  /\ client = "failed" => monitor \in {"clear", "done"}
  /\ client \in {"ready", "waiting"} /\ ~vmRetCh => monitor = "done"
  /\ monitor = "done" => vmCmd = NoCmd /\ ~vmRetCh
  /\ answer = "down" => monitor \in {"clear", "done"}

DriverInv == TypeOK /\ ProcessInv /\ CommandInv /\ ChannelInv /\ HandleInv

-----------------------------------------------------------------------------
(* It holds in every reachable state.                                      *)

\* The driver starts in the invariant.
LEMMA InitInv == Init => DriverInv
<1> SUFFICES ASSUME Init PROVE DriverInv
  OBVIOUS
<1> USE ExitCodesAssumption, MaxBootsAssumption DEF Init, NoCmd, Cmds
<1>1. TypeOK  BY DEF TypeOK
<1>2. ProcessInv  BY DEF ProcessInv
<1>3. CommandInv  BY DEF CommandInv
<1>4. ChannelInv  BY DEF ChannelInv
<1>5. HandleInv  BY DEF HandleInv
<1> QED  BY <1>1, <1>2, <1>3, <1>4, <1>5 DEF DriverInv

\* Every step keeps the invariant.
LEMMA NextInv == DriverInv /\ [Next]_vars => DriverInv'
<1> SUFFICES ASSUME DriverInv, [Next]_vars PROVE DriverInv'
  OBVIOUS
<1> USE ExitCodesAssumption, MaxBootsAssumption
    DEF DriverInv, TypeOK, ProcessInv, CommandInv, ChannelInv, HandleInv,
        NoCmd, Cmds, LockHeld, fields, calls, loop, process
<1>1. CASE Start  BY <1>1 DEF Start
<1>2. CASE StartTimeout  BY <1>2 DEF StartTimeout, Publish
<1>3. CASE StartEarlyEnd  BY <1>3 DEF StartEarlyEnd, Publish
<1>4. CASE StartEarlyError  BY <1>4 DEF StartEarlyError
<1>5. CASE StartReturnError  BY <1>5 DEF StartReturnError
<1>6. CASE StopIdle  BY <1>6 DEF StopIdle
<1>7. CASE StopKill  BY <1>7 DEF StopKill
<1>8. CASE StopError  BY <1>8 DEF StopError
<1>9. CASE StopPanic  BY <1>9 DEF StopPanic
<1>10. CASE WaitForShutdown  BY <1>10 DEF WaitForShutdown
<1>11. CASE WaitReceive  BY <1>11 DEF WaitReceive
<1>12. CASE WaitCancel  BY <1>12 DEF WaitCancel
<1>13. CASE MonitorCommand
  <2> USE <1>13 DEF MonitorCommand
  <2>1. TypeOK'
    <3>1. cmd' \in Cmds  OBVIOUS
    <3>2. cdrom' \in BOOLEAN  BY Zenon
    <3> QED  BY <3>1, <3>2
  <2>2. ProcessInv'  OBVIOUS
  <2>3. CommandInv'  OBVIOUS
  <2>4. ChannelInv'  OBVIOUS
  <2>5. HandleInv'  OBVIOUS
  <2> QED  BY <2>1, <2>2, <2>3, <2>4, <2>5
<1>14. CASE MonitorStartOk  BY <1>14 DEF MonitorStartOk
<1>15. CASE MonitorStartFail  BY <1>15 DEF MonitorStartFail
<1>16. CASE MonitorReboot  BY <1>16 DEF MonitorReboot
<1>17. CASE MonitorExit  BY <1>17 DEF MonitorExit, CleanExit, Converted
<1>18. CASE MonitorCopyError  BY <1>18 DEF MonitorCopyError
<1>19. CASE MonitorSend  BY <1>19 DEF MonitorSend
<1>20. CASE MonitorClear
  <2> USE <1>20 DEF MonitorClear
  <2>1. TypeOK'  OBVIOUS
  <2>2. ProcessInv' /\ CommandInv'  OBVIOUS
  <2>3. ChannelInv' /\ HandleInv'  OBVIOUS
  <2> QED  BY <2>1, <2>2, <2>3
<1>21. ASSUME NEW code \in ExitCodes, ProcessExit(code)
       PROVE  DriverInv'
  BY <1>21 DEF ProcessExit
<1>22. CASE UNCHANGED vars  BY <1>22 DEF vars
<1> QED
  BY <1>1, <1>2, <1>3, <1>4, <1>5, <1>6, <1>7, <1>8, <1>9, <1>10, <1>11,
     <1>12, <1>13, <1>14, <1>15, <1>16, <1>17, <1>18, <1>19, <1>20, <1>21, <1>22
  DEF Next, StartReturns, Stop, WaitReturns, Monitor, Guest

\* The inductive invariant holds in every reachable state of the driver
\* (driver.go:31-209).
THEOREM InductiveInvariant == Spec => []DriverInv
  BY InitInv, NextInv, PTL DEF Spec

\* Type correctness, for every set of exit codes and bound on reboots.
THEOREM TypeCorrect == Spec => []TypeOK
<1>1. DriverInv => TypeOK  BY DEF DriverInv
<1> QED  BY <1>1, InductiveInvariant, PTL

-----------------------------------------------------------------------------
(* The safety properties.                                                   *)

\* WaitForShutdown's true is final: no bhyve process is left, and the monitor
\* starts no other (driver.go:194-209).
THEOREM ShutdownFinal == Spec => []ShutdownIsFinal
<1>1. DriverInv => ShutdownIsFinal
  BY DEF DriverInv, ProcessInv, HandleInv, ShutdownIsFinal, Ended
<1> QED  BY <1>1, InductiveInvariant, PTL

\* A failed Start leaves no bhyve process (driver.go:165-170).
THEOREM StartErrorClean == Spec => []StartErrorMeansNoVM
<1>1. DriverInv => StartErrorMeansNoVM
  BY DEF DriverInv, ProcessInv, HandleInv, StartErrorMeansNoVM, Ended
<1> QED  BY <1>1, InductiveInvariant, PTL

\* The handles on an ended VM are gone with its monitor (driver.go:156-161).
THEOREM HandlesCleared == Spec => []NoStaleHandle
<1>1. DriverInv => NoStaleHandle
  BY DEF DriverInv, HandleInv, NoStaleHandle
<1> QED  BY <1>1, InductiveInvariant, PTL

\* The installation CD is in the first boot and in no other
\* (driver.go:79-81, 110-118).
THEOREM CDOnce == Spec => []InstallMediaOnce
<1>1. DriverInv => InstallMediaOnce
  <2> SUFFICES ASSUME DriverInv, proc = "alive"  PROVE cdrom <=> cmd = 1
    BY DEF InstallMediaOnce
  <2>1. monitor = "wait"
    BY DEF DriverInv, TypeOK, ProcessInv
  <2> QED  BY <2>1 DEF DriverInv, CommandInv
<1> QED  BY <1>1, InductiveInvariant, PTL

\* The monitor's sends find room in their channels, and Start, about to receive
\* the error with the mutex held, finds it there (driver.go:123-154, 168).
THEOREM ChannelsReady == Spec => []ChannelsNeverBlock
<1>1. DriverInv => ChannelsNeverBlock
  BY DEF DriverInv, ChannelInv, HandleInv, ChannelsNeverBlock
<1> QED  BY <1>1, InductiveInvariant, PTL

\* Start never publishes a command that was not made yet.
LEMMA PublishedIsMade == Spec => [](vmCmd <= cmd)
<1>1. Init => vmCmd <= cmd  BY DEF Init, NoCmd
<1>2. DriverInv /\ vmCmd <= cmd /\ [Next]_vars => (vmCmd <= cmd)'
  <2> SUFFICES ASSUME DriverInv, vmCmd <= cmd, [Next]_vars
      PROVE  vmCmd' <= cmd'
    OBVIOUS
  <2> USE MaxBootsAssumption DEF DriverInv, TypeOK, Cmds, NoCmd, fields, loop
  <2>1. vmCmd \in Nat /\ cmd \in Nat  OBVIOUS
  <2>2. CASE StartTimeout \/ StartEarlyEnd
    BY <2>1, <2>2 DEF StartTimeout, StartEarlyEnd, Publish
  <2>3. CASE MonitorCommand  BY <2>1, <2>3 DEF MonitorCommand
  <2>4. CASE MonitorClear  BY <2>1, <2>4 DEF MonitorClear
  <2>5. CASE Start \/ StartEarlyError \/ StartReturnError \/ Stop \/ WaitForShutdown
             \/ WaitReturns \/ MonitorStartOk \/ MonitorStartFail \/ MonitorReboot
             \/ MonitorExit \/ MonitorCopyError \/ MonitorSend \/ Guest \/ UNCHANGED vars
    BY <2>5 DEF Start, StartEarlyError, StartReturnError, Stop, StopIdle, StopKill,
      StopError, StopPanic, WaitForShutdown, WaitReturns, WaitReceive, WaitCancel,
      MonitorStartOk, MonitorStartFail, MonitorReboot, MonitorExit, MonitorCopyError,
      MonitorSend, Guest, ProcessExit, vars
  <2> QED  BY <2>2, <2>3, <2>4, <2>5 DEF Next, StartReturns, Monitor
<1> QED  BY <1>1, <1>2, InductiveInvariant, PTL DEF Spec

\* Stop kills a VM that has not rebooted, once it is published.  After a reboot
\* the code does not (BhyveClaims): the reboot is the only thing that stands in
\* the way (driver.go:181-192).
THEOREM StopKillsFirstBoot ==
  Spec => [][Stop /\ vmCmd # NoCmd /\ proc = "alive" /\ cmd = 1 => doomed']_vars
<1>1. ASSUME DriverInv, vmCmd <= cmd, [Next]_vars
      PROVE  [Stop /\ vmCmd # NoCmd /\ proc = "alive" /\ cmd = 1 => doomed']_vars
  <2> SUFFICES ASSUME Stop, vmCmd # NoCmd, proc = "alive", cmd = 1 PROVE doomed'
    OBVIOUS
  <2>1. vmCmd = cmd
    BY <1>1, MaxBootsAssumption DEF DriverInv, TypeOK, Cmds, NoCmd
  <2>2. ProcOf(vmCmd) = "alive"  BY <2>1 DEF ProcOf
  <2> QED  BY <2>2 DEF Stop, StopIdle, StopKill, StopError, StopPanic
<1> QED  BY <1>1, InductiveInvariant, PublishedIsMade, PTL DEF Spec

-----------------------------------------------------------------------------
(* Refinement.                                                              *)

\* The driver's initial state is one of the abstract machine.
LEMMA LifecycleInitMaps == Init => Lifecycle!LifecycleInit
  BY DEF Init, Lifecycle!LifecycleInit, vmState, startState

\* Every step of the driver is a step of the abstract machine, or none.
LEMMA LifecycleStepMaps ==
  DriverInv /\ [Next]_vars => [Lifecycle!LifecycleNext]_(Lifecycle!lifecycleVars)
<1> SUFFICES ASSUME DriverInv, [Next]_vars
             PROVE  Lifecycle!LifecycleNext \/ UNCHANGED Lifecycle!lifecycleVars
  OBVIOUS
<1> USE DEF DriverInv, TypeOK, HandleInv, vmState, startState,
            Lifecycle!lifecycleVars, Lifecycle!LifecycleNext,
            fields, calls, loop, process
<1>1. CASE Start
  <2>1. Lifecycle!Launch  BY <1>1 DEF Start, Lifecycle!Launch
  <2> QED  BY <2>1
<1>2. CASE StartTimeout \/ StartEarlyEnd
  <2>1. Lifecycle!StartOk
    BY <1>2 DEF StartTimeout, StartEarlyEnd, Publish, Lifecycle!StartOk
  <2> QED  BY <2>1
<1>3. CASE StartReturnError
  <2>1. Lifecycle!StartError
    BY <1>3 DEF StartReturnError, Lifecycle!StartError
  <2> QED  BY <2>1
<1>4. CASE Stop
  <2>1. CASE StopPanic
    <3>1. Lifecycle!Panic  BY <2>1 DEF StopPanic, Lifecycle!Panic
    <3> QED  BY <3>1
  <2>2. CASE StopIdle \/ StopKill \/ StopError
    <3>1. Lifecycle!SayOther
      BY <2>2 DEF StopIdle, StopKill, StopError, Lifecycle!SayOther
    <3> QED  BY <3>1
  <2> QED  BY <1>4, <2>1, <2>2 DEF Stop
<1>5. CASE WaitForShutdown
  <2>1. CASE ~vmRetCh
    <3>1. Lifecycle!SayDown
      BY <1>5, <2>1 DEF WaitForShutdown, Lifecycle!SayDown
    <3> QED  BY <3>1
  <2>2. CASE vmRetCh
    <3>1. UNCHANGED Lifecycle!lifecycleVars
      BY <1>5, <2>2 DEF WaitForShutdown
    <3> QED  BY <3>1
  <2> QED  BY <2>1, <2>2
<1>6. CASE WaitReceive
  <2>1. Lifecycle!SayDown
    BY <1>6 DEF WaitReceive, Lifecycle!SayDown, ChannelInv
  <2> QED  BY <2>1
<1>7. CASE WaitCancel
  <2>1. Lifecycle!SayOther
    BY <1>7 DEF WaitCancel, Lifecycle!SayOther
  <2> QED  BY <2>1
<1>8. CASE MonitorStartFail \/ MonitorExit \/ MonitorCopyError
  <2>1. Lifecycle!End
    BY <1>8 DEF MonitorStartFail, MonitorExit, MonitorCopyError, Lifecycle!End
  <2> QED  BY <2>1
<1>9. CASE StartEarlyError \/ MonitorCommand \/ MonitorStartOk \/ MonitorReboot
             \/ MonitorSend \/ MonitorClear \/ Guest \/ UNCHANGED vars
  <2>1. UNCHANGED Lifecycle!lifecycleVars
    BY <1>9 DEF StartEarlyError, MonitorCommand, MonitorStartOk, MonitorReboot,
                MonitorSend, MonitorClear, Guest, ProcessExit, vars
  <2> QED  BY <2>1
<1> QED
  BY <1>1, <1>2, <1>3, <1>4, <1>5, <1>6, <1>7, <1>8, <1>9
  DEF Next, StartReturns, WaitReturns, Monitor

\* The driver implements the machine that its interface promises
\* (driver.go:16-20).
THEOREM DriverImplementsLifecycle == Spec => ImplementsLifecycle
  BY LifecycleInitMaps, LifecycleStepMaps, InductiveInvariant, PTL
  DEF Spec, ImplementsLifecycle, Lifecycle!LifecycleSpec

=============================================================================
