---------------------------- MODULE BhyveDriver ----------------------------
(***************************************************************************)
(* The virtual machine driver, builder/bhyve/driver.go.                    *)
(*                                                                         *)
(* Three parties run concurrently:                                         *)
(*   - the client, the goroutine of the builder's steps, which calls Start *)
(*     once and then Stop and WaitForShutdown, one call at a time;         *)
(*   - the monitor, the goroutine Start spawns: it runs bhyve, runs it     *)
(*     again whenever it exits 0 (the guest rebooted) and, when it exits   *)
(*     otherwise, sends the code to retCh and clears the driver's fields;  *)
(*   - the bhyve process itself, that is the guest and the kernel.         *)
(*                                                                         *)
(* A Go channel of capacity one is the set of the values it holds: a send  *)
(* waits for {} and a receive empties it.  Time is abstract: a timer may   *)
(* fire at any moment after it is armed.                                   *)
(*                                                                         *)
(* An operator named X_Y is a faulty variant of X, in the way Y says; it   *)
(* is no part of the specification and serves to show that the properties *)
(* below notice the fault.                                                 *)
(***************************************************************************)
EXTENDS Integers

CONSTANTS
  ExitCodes, \* what exec.ExitError.ExitCode() can be; -1 is death by a signal
  MaxBoots   \* bound: the commands run for one VM, its reboots included

ASSUME ExitCodesAssumption ==
  ExitCodes \subseteq Int /\ {-1, 0, 1, 2} \subseteq ExitCodes

ASSUME MaxBootsAssumption == MaxBoots \in Nat \ {0}

VARIABLES
  vmCmd,    \* BhyveDriver.vmCmd: the number of a command, or NoCmd for nil
  vmRetCh,  \* BhyveDriver.vmRetCh: is it the monitor's channel, or nil?
  client,   \* where the client is in its calls
  answer,   \* what Stop or WaitForShutdown last returned
  monitor,  \* where the monitor is in its loop
  first,    \* the monitor's local first
  cmd,      \* the variable cmd Start and the monitor share, as a number
  rc,       \* the monitor's local rc
  retCh,    \* channel of the exit code
  errCh,    \* channel of the error
  proc,     \* the process of command cmd
  status,   \* its exit status while it is a zombie, or 0
  cdrom,    \* was it given the installation CD?
  doomed    \* was it killed, or its VM destroyed under it?

fields  == <<vmCmd, vmRetCh>>
calls   == <<client, answer>>
loop    == <<monitor, first, cmd, rc>>
process == <<proc, status, cdrom, doomed>>
vars    == <<fields, calls, loop, retCh, errCh, process>>

NoCmd == 0
Cmds  == 1..MaxBoots

TypeOK ==
  /\ vmCmd \in Cmds \cup {NoCmd}
  /\ vmRetCh \in BOOLEAN
  /\ client \in {"idle", "starting", "startErr", "ready", "failed",
                 "waiting", "panicked"}
  /\ answer \in {"none", "stopped", "stopErr", "down", "timeout"}
  /\ monitor \in {"none", "create", "start", "wait", "send", "clear", "done"}
  /\ first \in BOOLEAN
  /\ cmd \in Cmds \cup {NoCmd}
  /\ rc \in ExitCodes
  /\ retCh \in SUBSET ExitCodes
  /\ errCh \in SUBSET {"launch", "exit"}
  /\ proc \in {"unstarted", "alive", "zombie", "reaped"}
  /\ status \in ExitCodes
  /\ cdrom \in BOOLEAN
  /\ doomed \in BOOLEAN

Init ==
  /\ vmCmd = NoCmd /\ vmRetCh = FALSE
  /\ client = "idle" /\ answer = "none"
  /\ monitor = "none" /\ first = TRUE /\ cmd = NoCmd /\ rc = 0
  /\ retCh = {} /\ errCh = {}
  /\ proc = "unstarted" /\ status = 0 /\ cdrom = FALSE /\ doomed = FALSE

-----------------------------------------------------------------------------
(* The mutex.  Start keeps it from its first line to its return, its select *)
(* included; every other critical section is a single action below.         *)

\* Mutation: Start releases the mutex before its select.
LockHeld_Released == FALSE

\* Mutation: Start keeps the mutex when it returns an error.
LockHeld_Leaked == client \in {"starting", "startErr", "failed"}

LockHeld == client \in {"starting", "startErr"}

-----------------------------------------------------------------------------
(* The bhyve process.                                                       *)

\* The process ends with any code: the guest reboots (0), powers off (1),
\* halts (2), triple-faults (3), bhyve fails (4) or a signal ends it (-1).
\* A process already on its way out keeps its own code when it is killed.
ProcessExit(code) ==
  /\ proc = "alive"
  /\ code = 0 => cmd < MaxBoots
  /\ proc' = "zombie"
  /\ status' = code
  /\ UNCHANGED <<fields, calls, loop, retCh, errCh, cdrom, doomed>>

-----------------------------------------------------------------------------
(* The monitor goroutine.                                                   *)

\* exec.Command, with the installation CD for the first boot only.  The
\* object exists from here on; its Process is nil until Start succeeds.
MonitorCommand ==
  /\ monitor = "create"
  /\ cmd' = cmd + 1
  /\ cdrom' = first
  /\ proc' = "unstarted"
  /\ doomed' = FALSE
  /\ monitor' = "start"
  /\ UNCHANGED <<fields, calls, first, rc, retCh, errCh, status>>

\* Mutation: first stays true.
MonitorStartOk_StaysFirst ==
  /\ monitor = "start"
  /\ proc' = "alive"
  /\ monitor' = "wait"
  /\ UNCHANGED <<fields, calls, first, cmd, rc, retCh, errCh, status, cdrom, doomed>>

MonitorStartOk ==
  /\ monitor = "start"
  /\ proc' = "alive"
  /\ first' = FALSE
  /\ monitor' = "wait"
  /\ UNCHANGED <<fields, calls, cmd, rc, retCh, errCh, status, cdrom, doomed>>

\* Mutation: the failure is not reported.
MonitorStartFail_Silent ==
  /\ monitor = "start"
  /\ rc' = 1
  /\ monitor' = "send"
  /\ UNCHANGED <<fields, calls, first, cmd, retCh, errCh, process>>

\* Mutation: the failure is reported and the command tried again.
MonitorStartFail_Retries ==
  /\ monitor = "start" /\ cmd < MaxBoots
  /\ errCh = {}
  /\ errCh' = {"launch"}
  /\ monitor' = "create"
  /\ UNCHANGED <<fields, calls, first, cmd, rc, retCh, process>>

MonitorStartFail ==
  /\ monitor = "start"
  /\ errCh = {}
  /\ errCh' = {"launch"}
  /\ rc' = 1
  /\ monitor' = "send"
  /\ UNCHANGED <<fields, calls, first, cmd, retCh, process>>

\* cmd.Wait returned nil: the guest rebooted, run bhyve again.
MonitorReboot ==
  /\ monitor = "wait" /\ proc = "zombie" /\ status = 0
  /\ proc' = "reaped"
  /\ monitor' = "create"
  /\ UNCHANGED <<fields, calls, first, cmd, rc, retCh, errCh, status, cdrom, doomed>>

\* cmd.Wait returned an ExitError: power off and halt become success, any
\* other code is sent with bhyve's stderr.
CleanExit == {1, 2}

\* Mutation: the code is taken as an unsigned byte.
Converted_Byte(code) == IF code \in CleanExit THEN 0 ELSE code % 256

Converted(code) == IF code \in CleanExit THEN 0 ELSE code

MonitorExit ==
  /\ monitor = "wait" /\ proc = "zombie" /\ status # 0
  /\ proc' = "reaped"
  /\ rc' = Converted(status)
  /\ \/ status \in CleanExit /\ UNCHANGED errCh
     \/ status \notin CleanExit /\ errCh = {} /\ errCh' = {"exit"}
  /\ status' = 0
  /\ monitor' = "send"
  /\ UNCHANGED <<fields, calls, first, cmd, retCh, cdrom, doomed>>

\* cmd.Wait returned another error, which it does for a process that exited 0
\* when copying its stderr failed: the loop breaks with rc as it was.
MonitorCopyError ==
  /\ monitor = "wait" /\ proc = "zombie" /\ status = 0
  /\ proc' = "reaped"
  /\ monitor' = "send"
  /\ UNCHANGED <<fields, calls, first, cmd, rc, retCh, errCh, status, cdrom, doomed>>

\* Mutation: the loop goes on after the code is sent.
MonitorSend_Loops ==
  /\ monitor = "send" /\ cmd < MaxBoots
  /\ retCh = {}
  /\ retCh' = {rc}
  /\ monitor' = "create"
  /\ UNCHANGED <<fields, calls, first, cmd, rc, errCh, process>>

MonitorSend ==
  /\ monitor = "send"
  /\ retCh = {}
  /\ retCh' = {rc}
  /\ monitor' = "clear"
  /\ UNCHANGED <<fields, calls, first, cmd, rc, errCh, process>>

MonitorClear ==
  /\ monitor = "clear"
  /\ ~LockHeld
  /\ vmCmd' = NoCmd
  /\ vmRetCh' = FALSE
  /\ monitor' = "done"
  /\ UNCHANGED <<calls, first, cmd, rc, retCh, errCh, process>>

Monitor ==
  \/ MonitorCommand \/ MonitorStartOk \/ MonitorStartFail
  \/ MonitorReboot \/ MonitorExit \/ MonitorCopyError
  \/ MonitorSend \/ MonitorClear

-----------------------------------------------------------------------------
(* The client's calls.                                                      *)

\* Start: lock, spawn the monitor, wait in the select.
Start ==
  /\ client = "idle" /\ vmCmd = NoCmd
  /\ client' = "starting"
  /\ monitor' = "create"
  /\ UNCHANGED <<fields, answer, first, cmd, rc, retCh, errCh, process>>

\* Mutation: the channel is not published.
Publish_NoChannel ==
  /\ vmCmd' = cmd
  /\ UNCHANGED vmRetCh
  /\ client' = "ready"

\* The assignments that end a successful Start.  cmd is read with no
\* synchronisation with the monitor that writes it, so this may see any of
\* its values: none yet, a command not started, a running or an ended one.
Publish ==
  /\ vmCmd' = cmd
  /\ vmRetCh' = TRUE
  /\ client' = "ready"

\* Two seconds passed.
StartTimeout ==
  /\ client = "starting"
  /\ Publish
  /\ UNCHANGED <<answer, loop, retCh, errCh, process>>

\* The VM ended within two seconds, in success (a power off): the code is
\* consumed and Start publishes a VM that is gone.
StartEarlyEnd ==
  /\ client = "starting" /\ 0 \in retCh
  /\ retCh' = {}
  /\ Publish
  /\ UNCHANGED <<answer, loop, errCh, process>>

\* It ended in error: Start goes on to receive the error.
StartEarlyError ==
  /\ client = "starting" /\ retCh # {} /\ 0 \notin retCh
  /\ retCh' = {}
  /\ client' = "startErr"
  /\ UNCHANGED <<fields, answer, loop, errCh, process>>

\* Mutation: the error is awaited on the other channel.
StartReturnError_RetCh ==
  /\ client = "startErr" /\ retCh # {}
  /\ retCh' = {}
  /\ client' = "failed"
  /\ UNCHANGED <<fields, answer, loop, errCh, process>>

StartReturnError ==
  /\ client = "startErr" /\ errCh # {}
  /\ errCh' = {}
  /\ client' = "failed"
  /\ UNCHANGED <<fields, answer, loop, retCh, process>>

\* Stop kills the process of the command Start published.  Killing a zombie
\* succeeds and does nothing; a process already waited for is an error
\* (os.ErrProcessDone); a command that was not started has a nil Process.
\* Every command but the last has been waited for.
ProcOf(c) == IF c = cmd THEN proc ELSE "reaped"

StopIdle ==
  /\ client = "ready" /\ vmCmd = NoCmd
  /\ answer' = "stopped"
  /\ UNCHANGED <<fields, client, loop, retCh, errCh, process>>

StopKill ==
  /\ client = "ready" /\ vmCmd # NoCmd
  /\ ProcOf(vmCmd) \in {"alive", "zombie"}
  /\ doomed' = (doomed \/ proc = "alive")
  /\ answer' = "stopped"
  /\ UNCHANGED <<fields, client, loop, retCh, errCh, proc, status, cdrom>>

StopError ==
  /\ client = "ready" /\ vmCmd # NoCmd
  /\ ProcOf(vmCmd) = "reaped"
  /\ answer' = "stopErr"
  /\ UNCHANGED <<fields, client, loop, retCh, errCh, process>>

StopPanic ==
  /\ client = "ready" /\ vmCmd # NoCmd
  /\ ProcOf(vmCmd) = "unstarted"
  /\ client' = "panicked"
  /\ UNCHANGED <<fields, answer, loop, retCh, errCh, process>>

Stop == StopIdle \/ StopKill \/ StopError \/ StopPanic

\* WaitForShutdown copies vmRetCh under the mutex: nil means no VM, and
\* otherwise it waits for the code, whatever it is, or for cancelCh.
WaitForShutdown ==
  /\ client = "ready"
  /\ \/ /\ ~vmRetCh
        /\ answer' = "down"
        /\ UNCHANGED client
     \/ /\ vmRetCh
        /\ client' = "waiting"
        /\ UNCHANGED answer
  /\ UNCHANGED <<fields, loop, retCh, errCh, process>>

WaitReceive ==
  /\ client = "waiting" /\ retCh # {}
  /\ retCh' = {}
  /\ answer' = "down"
  /\ client' = "ready"
  /\ UNCHANGED <<fields, loop, errCh, process>>

\* Mutation: a timeout counts as a shutdown.
WaitCancel_Down ==
  /\ client = "waiting"
  /\ answer' = "down"
  /\ client' = "ready"
  /\ UNCHANGED <<fields, loop, retCh, errCh, process>>

\* The timer that closes cancelCh, the caller's goroutine
\* (builder/bhyve/step_shutdown.go).
WaitCancel ==
  /\ client = "waiting"
  /\ answer' = "timeout"
  /\ client' = "ready"
  /\ UNCHANGED <<fields, loop, retCh, errCh, process>>

StartReturns == StartTimeout \/ StartEarlyEnd \/ StartEarlyError \/ StartReturnError
WaitReturns  == WaitReceive \/ WaitCancel

-----------------------------------------------------------------------------
Guest == \E code \in ExitCodes : ProcessExit(code)

\* A killed process ends.
Dies == doomed /\ Guest

Next == Start \/ StartReturns \/ Stop \/ WaitForShutdown \/ WaitReturns \/ Monitor \/ Guest

Spec == Init /\ [][Next]_vars

\* The Go scheduler runs the monitor and a client that can go on, timers fire
\* and the kernel ends a process it was told to kill.  Nothing makes a guest
\* end, nor a client call Stop or WaitForShutdown.
Fairness ==
  /\ WF_vars(Monitor)
  /\ WF_vars(StartReturns)
  /\ WF_vars(WaitReturns)
  /\ WF_vars(Dies)

FairSpec == Spec /\ Fairness

-----------------------------------------------------------------------------
(* Properties.                                                              *)

\* The monitor is past its loop: no bhyve process is there or will be.
Ended == monitor \in {"clear", "done"} /\ proc \in {"unstarted", "reaped"}

\* Once WaitForShutdown has said that the VM is down, no bhyve process of
\* this VM is alive, and none is started again for a reboot
\* (driver.go:194-209 against the loop of lines 109-153).
ShutdownIsFinal == answer = "down" => Ended

\* When Start gives up on the VM, or is about to, no bhyve process is left
\* running behind the caller's back (driver.go:165-170).
StartErrorMeansNoVM == client \in {"startErr", "failed"} => Ended

\* A monitor that has finished leaves no handle on its VM behind, however its
\* last critical section is ordered with the one of Start that publishes the
\* handle (driver.go:156-161, 174-176).
NoStaleHandle == monitor = "done" => vmCmd = NoCmd /\ ~vmRetCh

\* The VM boots from the installation CD once and from its disk ever after
\* (driver.go:79-81).
InstallMediaOnce == proc = "alive" => (cdrom <=> cmd = 1)

\* No operation on a channel blocks for ever: Start, with the mutex held, never
\* waits for an error nobody will send, since a code other than 0 is preceded by
\* one; and when the monitor comes to send, the buffer has room, so the goroutine
\* always ends (driver.go:100-101, 122-128, 148, 154, 168).
ChannelsNeverBlock ==
  /\ client = "startErr" => errCh # {}
  /\ monitor = "send" => retCh = {}
  /\ monitor \in {"create", "start", "wait"} => errCh = {}

\* A call of Start returns, whatever the VM does (driver.go:165-172).
StartAlwaysReturns == client = "starting" ~> client \in {"ready", "failed"}

\* A monitor whose VM has ended gets to its end: it is never left waiting for
\* a mutex kept by Start (driver.go:154-161).
MonitorFinishes == monitor = "send" ~> monitor = "done"

-----------------------------------------------------------------------------
(* The driver implements VMLifecycle.  A rebooting VM stays up; the VM has  *)
(* ended once the monitor has left its loop.                                *)

vmState ==
  IF monitor = "none" THEN "off"
  ELSE IF monitor \in {"create", "start", "wait"} THEN "up"
  ELSE "ended"

startState ==
  CASE client = "idle"                     -> "no"
    [] client \in {"starting", "startErr"} -> "pending"
    [] client \in {"ready", "waiting"}     -> "ok"
    [] client = "failed"                   -> "error"
    [] client = "panicked"                 -> "panic"

Lifecycle == INSTANCE VMLifecycle WITH vm <- vmState, start <- startState

\* Every behaviour of the driver, its reboots, races and internal channels
\* included, is one of the abstract machine the steps rely on (the Driver
\* interface, driver.go:16-20).
ImplementsLifecycle == Lifecycle!LifecycleSpec
=============================================================================
