----------------------------- MODULE BhyveBuild -----------------------------
(***************************************************************************)
(* One build, builder/bhyve/builder.go: the list of steps, the runner that *)
(* executes them and cleans them up in reverse order, what each step does  *)
(* to the state bag and to the host, and the driver of BhyveDriver under   *)
(* the two steps that call it.                                             *)
(*                                                                         *)
(* The runner, and the steps that the packer SDK provides (download, cd,   *)
(* httpServer, connect, provision), are external: they are modelled from   *)
(* how builder.go uses them.  The commands the steps execute (zfs, dladm,  *)
(* mkfile, bhyvectl) succeed or fail, each with its effect on the host.    *)
(***************************************************************************)
EXTENDS BhyveDriver, Sequences

CONSTANTS
  Configs,  \* the configurations to consider, see ConfigType
  MaxBusy   \* how many attempts EBUSY may make fail after the VM is gone

VARIABLES
  config,   \* Builder.config
  at,       \* number of the step the runner is at
  phase,    \* of the runner: loop (its head), run, cleanup; or done
  ctxDone,  \* is the build's context cancelled?
  bag,      \* the keys present in the state bag
  host,     \* what exists on the host
  tries,    \* failed attempts of the cleanup at hand
  gaveUp,   \* what a cleanup has logged that it could not remove
  result    \* what Builder.Run returned

build   == <<config, at, phase, ctxDone, bag, host, tries, gaveUp, result>>
allVars == <<vars, build>>

ConfigType ==
  [zvol     : BOOLEAN,   \* disk_use_zvol
   vnic     : BOOLEAN,   \* vnic_create
   force    : BOOLEAN,   \* packer build -force, over a previous output
   debug    : BOOLEAN,   \* packer build -debug, which waits for its user
   shutdown : {"wait",   \* communicator none: wait for the guest
               "command",\* a shutdown_command is given
               "stop"}]  \* none is given

ASSUME ConfigsAssumption == Configs \subseteq ConfigType
ASSUME MaxBusyAssumption == MaxBusy \in Nat

-----------------------------------------------------------------------------
(* The steps.                                                               *)

\* Mutation: the VNC port is configured after the VM is started.
Steps_VNCLate ==
  <<"download", "outputDir", "cd", "httpIP", "httpServer">>
  \o (IF config.zvol THEN <<"zvol">> ELSE <<"disk">>)
  \o (IF config.vnic THEN <<"vnic">> ELSE <<>>)
  \o <<"bhyve", "vnc", "type", "address", "connect", "provision", "shutdown">>
  \o (IF config.zvol THEN <<"snapshot">> ELSE <<>>)

Steps ==
  <<"download", "outputDir", "cd", "httpIP", "httpServer">>
  \o (IF config.zvol THEN <<"zvol">> ELSE <<"disk">>)
  \o (IF config.vnic THEN <<"vnic">> ELSE <<>>)
  \o <<"vnc", "bhyve", "type", "address", "connect", "provision", "shutdown">>
  \o (IF config.zvol THEN <<"snapshot">> ELSE <<>>)

Step == Steps[at]

\* The keys Builder.Run puts in the state bag before any step runs, the last
\* one by way of the SDK's NewRunnerWithPauseFn.
FirstKeys ==
  {"config", "debug", "hook", "ui", "driver"}
    \cup (IF config.debug THEN {"pauseFn"} ELSE {})

\* The keys that the Run of a step of this plugin, or the driver under it,
\* reads with an unchecked type assertion, and so must find.
Reads(s) ==
  CASE s = "bhyve" ->
         {"driver", "ui", "iso_path", "bhyve_disk_path", "vnc_port", "vnc_password"}
    [] s = "type" ->
         {"config", "debug", "ui", "http_port", "http_ip", "vnc_port"}
           \cup (IF config.debug THEN {"pauseFn"} ELSE {})
    [] s = "shutdown" ->
         {"driver", "ui"}
           \cup (IF config.shutdown = "command" THEN {"communicator"} ELSE {})
    [] s \in {"outputDir", "httpIP", "zvol", "disk", "vnic", "vnc", "address", "snapshot"} ->
         {"config", "ui"}
    [] OTHER -> {}

\* The output directory, its content from an earlier build, and what this one
\* puts there: the disk file, or the whole or a part of the image of the zvol.
Output == {"outDir", "stale", "disk", "image", "partial"}

Things == Output \cup {"zvol", "snapshot", "vnic", "portLock"}

Keys == {"error", "cancelled", "halted", "config", "debug", "hook", "ui", "driver",
         "pauseFn", "iso_path", "http_ip", "http_port", "bhyve_disk_path",
         "vnc_port", "vnc_password", "guestAddress", "communicator"}

BuildTypeOK ==
  /\ TypeOK
  /\ config \in Configs
  /\ at \in 0..Len(Steps)
  /\ phase \in {"loop", "run", "cleanup", "done"}
  /\ ctxDone \in BOOLEAN
  /\ bag \subseteq Keys
  /\ host \subseteq Things
  /\ tries \in 0..4
  /\ gaveUp \subseteq {"zvol", "vnic", "outDir", "portLock"}
  /\ result \in {"none", "artifact", "error", "cancelled", "halted", "walkError", "panic"}

\* Config.Prepare refuses an existing output directory unless it is forced.
BuildInit ==
  /\ Init
  /\ config \in Configs
  /\ at = 1 /\ phase = "loop" /\ ctxDone = FALSE /\ bag = FirstKeys
  /\ host \in IF config.force THEN {{}, {"outDir", "stale"}} ELSE {{}}
  /\ tries = 0 /\ gaveUp = {} /\ result = "none"

-----------------------------------------------------------------------------
(* The runner, multistep.BasicRunner.                                       *)

\* The build is cancelled: an interrupt, or another build's failure.
Cancel ==
  /\ phase # "done" /\ ~ctxDone
  /\ ctxDone' = TRUE
  /\ UNCHANGED <<vars, config, at, phase, bag, host, tries, gaveUp, result>>

\* The runner's goroutine that notes the cancellation in the state bag.  It
\* runs at any time, or never if the runner returns first.
NoteCancel ==
  /\ phase # "done" /\ ctxDone
  /\ bag' = bag \cup {"cancelled"}
  /\ UNCHANGED <<vars, config, at, phase, ctxDone, host, tries, gaveUp, result>>

\* The head of the loop: a cancelled build runs no further step.
LoopHead ==
  /\ phase = "loop"
  /\ \/ /\ ctxDone
        /\ bag' = bag \cup {"cancelled"}
        /\ phase' = "cleanup" /\ at' = at - 1
     \/ /\ ~ctxDone
        /\ phase' = "run"
        /\ UNCHANGED <<bag, at>>
  /\ UNCHANGED <<vars, config, ctxDone, host, tries, gaveUp, result>>

\* The step's Run returned action, having put keys in the bag and changed the
\* host; the runner breaks its loop or goes on.
Finish(action, keys, newHost) ==
  LET cancelled == "cancelled" \in bag
      halted    == action = "halt" /\ ~cancelled
  IN
  /\ phase = "run"
  /\ bag' = bag \cup keys \cup (IF halted THEN {"halted"} ELSE {})
  /\ host' = newHost
  /\ IF cancelled \/ halted \/ at = Len(Steps)
     THEN phase' = "cleanup" /\ at' = at
     ELSE phase' = "loop" /\ at' = at + 1
  /\ UNCHANGED <<config, ctxDone, tries, gaveUp, result>>

-----------------------------------------------------------------------------
(* The steps' Run methods.                                                  *)

At(s) == phase = "run" /\ Step = s

Continues(keys, things) == Finish("continue", keys, host \cup things)

\* A failing step puts its error in the state bag and halts ...
Fails == Finish("halt", {"error"}, host)

\* ... but some halts put none.
Halts == Finish("halt", {}, host)

\* The steps of the SDK: each may fail, or halt when the build is cancelled.
SDKPuts ==
  [s \in {"download", "cd", "httpServer", "connect", "provision"} |->
     CASE s = "download"   -> {"iso_path"}
       [] s = "httpServer" -> {"http_port"}
       [] s = "connect"    -> IF config.shutdown = "wait" THEN {} ELSE {"communicator"}
       [] OTHER            -> {}]

SDKRun ==
  /\ phase = "run" /\ Step \in DOMAIN SDKPuts
  /\ \/ Continues(SDKPuts[Step], {})
     \/ Fails
     \/ ctxDone /\ Halts
  /\ UNCHANGED vars

\* stepHTTPIPDiscover reports its errors to the user only.
HTTPIPRun ==
  /\ At("httpIP")
  /\ Continues({"http_ip"}, {}) \/ Halts
  /\ UNCHANGED vars

ZvolRun ==
  /\ At("zvol")
  /\ Continues({"bhyve_disk_path"}, {"zvol"}) \/ Fails
  /\ UNCHANGED vars

DiskRun ==
  /\ At("disk")
  /\ Continues({"bhyve_disk_path"}, {"disk"}) \/ Fails
  /\ UNCHANGED vars

VNICRun ==
  /\ At("vnic")
  /\ Continues({}, {"vnic"}) \/ Fails
  /\ UNCHANGED vars

\* Mutation: the lock file is released with the port.
VNCRun_NoLock ==
  /\ At("vnc")
  /\ Continues({"vnc_port", "vnc_password"}, {}) \/ (ctxDone /\ Fails)
  /\ UNCHANGED vars

\* stepConfigureVNC searches until it has found a port or the build is
\* cancelled.  It closes the listener it found a port with, so that bhyve can
\* bind the port, and keeps the lock file on it.
VNCRun ==
  /\ At("vnc")
  /\ Continues({"vnc_port", "vnc_password"}, {"portLock"}) \/ (ctxDone /\ Fails)
  /\ UNCHANGED vars

\* stepTypeBootCommand: a cancelled wait for the boot halts without an error.
TypeRun ==
  /\ At("type")
  /\ Continues({}, {}) \/ Fails \/ (ctxDone /\ Halts)
  /\ UNCHANGED vars

\* stepWaitGuestAddress: so does the end of its hour.
AddressRun ==
  /\ At("address")
  /\ Continues({"guestAddress"}, {}) \/ Fails \/ Halts
  /\ UNCHANGED vars

\* stepPrepareOutputDir: the error of the forced removal is ignored.
OutputDirRun ==
  /\ At("outputDir")
  /\ \E left \in {host, host \ Output} :
       /\ ~config.force => left = host
       /\ \/ Finish("continue", {}, left \cup {"outDir"})
          \/ Finish("halt", {"error"}, left)
  /\ UNCHANGED vars

\* stepBhyve calls Start and, when it fails, halts without putting an error.
BhyveRun ==
  /\ At("bhyve")
  /\ \/ Start /\ UNCHANGED build
     \/ client = "ready" /\ Continues({}, {}) /\ UNCHANGED vars
     \/ client = "failed" /\ Halts /\ UNCHANGED vars

\* stepShutdown: sending the shutdown command may fail.  Without a command
\* and with a communicator it calls Stop, otherwise WaitForShutdown.
ShutdownCall ==
  /\ At("shutdown") /\ answer = "none"
  /\ \/ config.shutdown = "command" /\ client = "ready" /\ Fails /\ UNCHANGED vars
     \/ config.shutdown # "stop" /\ WaitForShutdown /\ UNCHANGED build
     \/ config.shutdown = "stop" /\ Stop /\ UNCHANGED build

ShutdownReturn ==
  /\ At("shutdown") /\ client = "ready"
  /\ \/ answer \in {"down", "stopped"} /\ Continues({}, {})
     \/ answer \in {"timeout", "stopErr"} /\ Fails
  /\ UNCHANGED vars

\* A panic in Stop unwinds the runner, whose deferred cleanups run.
ShutdownPanic ==
  /\ phase = "run" /\ client = "panicked"
  /\ phase' = "cleanup"
  /\ UNCHANGED <<vars, config, at, ctxDone, bag, host, tries, gaveUp, result>>

\* Mutation: the result of zfs send is not looked at.
SnapshotRun_SendUnchecked ==
  /\ At("snapshot")
  /\ \/ \E file \in {"image", "partial"} : Continues({}, {file})
     \/ \E left \in {{}, {"snapshot"}, {"snapshot", "image"}} :
          Finish("halt", {"error"}, host \cup left)
  /\ UNCHANGED vars

\* stepCreateSnapshot: zfs snapshot, the file, zfs send, zfs destroy.  Each
\* may fail, and leaves behind what the ones before it made.
SnapshotRun ==
  /\ At("snapshot")
  /\ \/ Continues({}, {"image"})
     \/ \E left \in {{}, {"snapshot"}, {"snapshot", "partial"}, {"snapshot", "image"}} :
          Finish("halt", {"error"}, host \cup left)
  /\ UNCHANGED vars

Run ==
  \/ SDKRun \/ OutputDirRun \/ HTTPIPRun \/ ZvolRun \/ DiskRun \/ VNICRun
  \/ VNCRun \/ BhyveRun \/ TypeRun \/ AddressRun
  \/ ShutdownCall \/ ShutdownReturn \/ ShutdownPanic \/ SnapshotRun

-----------------------------------------------------------------------------
(* The steps' Cleanup methods, called in reverse order for the steps whose  *)
(* Run was called.                                                          *)

Cleaning(s) == phase = "cleanup" /\ at > 0 /\ Step = s

CleanedUp == at' = at - 1 /\ tries' = 0

PlainCleanup ==
  /\ phase = "cleanup" /\ at > 0
  /\ Step \notin {"outputDir", "zvol", "vnic", "vnc", "bhyve"}
  /\ CleanedUp
  /\ UNCHANGED <<vars, config, phase, ctxDone, bag, host, gaveUp, result>>

\* stepBhyve: bhyvectl --destroy, its errors ignored.  The VM of a running
\* bhyve is destroyed and the process will exit; with no process it does
\* nothing to one the monitor may start later.
BhyveCleanup ==
  /\ Cleaning("bhyve")
  /\ doomed' = (doomed \/ proc = "alive")
  /\ CleanedUp
  /\ UNCHANGED <<fields, calls, loop, retCh, errCh, proc, status, cdrom>>
  /\ UNCHANGED <<config, phase, ctxDone, bag, host, gaveUp, result>>

\* stepConfigureVNC: the port's lock file is kept until now; an unlock that
\* fails is logged and not tried again.
VNCCleanup ==
  /\ Cleaning("vnc")
  /\ \/ host' = host \ {"portLock"} /\ UNCHANGED gaveUp
     \/ "portLock" \in host /\ gaveUp' = gaveUp \cup {"portLock"} /\ UNCHANGED host
  /\ CleanedUp
  /\ UNCHANGED <<vars, config, phase, ctxDone, bag, result>>

\* Can zfs or dladm remove r?  Not while a bhyve process has it open, nor
\* while a zvol has a snapshot.
Removable(r) ==
  /\ r \in host
  /\ proc # "alive"
  /\ r = "zvol" => "snapshot" \notin host

\* May it refuse?  The kernel also says EBUSY for a while after the process
\* is gone, or is told to go: for at most MaxBusy attempts.
MayRefuse(r) ==
  \/ r \notin host
  \/ proc = "alive" /\ ~doomed
  \/ r = "zvol" /\ "snapshot" \in host
  \/ tries < MaxBusy

\* Mutation: giving up is not logged.
AttemptFailed_Silent(r, retries) ==
  \/ /\ tries + 1 < retries
     /\ tries' = tries + 1
     /\ UNCHANGED <<at, gaveUp>>
  \/ /\ tries + 1 = retries
     /\ CleanedUp
     /\ UNCHANGED gaveUp

\* Mutation: one attempt too many.
AttemptFailed_OneMore(r, retries) ==
  \/ /\ tries < retries
     /\ tries' = tries + 1
     /\ UNCHANGED <<at, gaveUp>>
  \/ /\ tries = retries
     /\ gaveUp' = gaveUp \cup {r}
     /\ CleanedUp

\* A failed attempt is made again until the last one is logged.
AttemptFailed(r, retries) ==
  \/ /\ tries + 1 < retries
     /\ tries' = tries + 1
     /\ UNCHANGED <<at, gaveUp>>
  \/ /\ tries + 1 = retries
     /\ gaveUp' = gaveUp \cup {r}
     /\ CleanedUp

\* stepCreateZvol and stepCreateVNIC: four attempts.
DestroyCleanup(r) ==
  /\ Cleaning(r)
  /\ \/ /\ Removable(r)
        /\ host' = host \ {r}
        /\ CleanedUp
        /\ UNCHANGED gaveUp
     \/ /\ MayRefuse(r)
        /\ AttemptFailed(r, 4)
        /\ UNCHANGED host
  /\ UNCHANGED <<vars, config, phase, ctxDone, bag, result>>

\* Mutation: only a cancellation counts.
Abandoned_CancelledOnly == "cancelled" \in bag

\* Was the build cancelled or halted, as far as the bag says now?
Abandoned == bag \cap {"cancelled", "halted"} # {}

\* stepPrepareOutputDir: five attempts, unless the build succeeded.
OutputDirCleanup ==
  /\ Cleaning("outputDir")
  /\ \/ /\ ~Abandoned
        /\ CleanedUp
        /\ UNCHANGED <<host, gaveUp>>
     \/ /\ Abandoned
        /\ host' = host \ Output
        /\ CleanedUp
        /\ UNCHANGED gaveUp
     \/ /\ Abandoned
        /\ AttemptFailed("outDir", 5)
        /\ UNCHANGED host
  /\ UNCHANGED <<vars, config, phase, ctxDone, bag, result>>

\* The runner returned and Builder.Run looks at the bag, then walks the
\* output directory.
Return ==
  /\ phase = "cleanup" /\ at = 0
  /\ result' = IF client = "panicked" THEN "panic"
               ELSE IF "error" \in bag THEN "error"
               ELSE IF "cancelled" \in bag THEN "cancelled"
               ELSE IF "halted" \in bag THEN "halted"
               ELSE IF "outDir" \notin host THEN "walkError"
               ELSE "artifact"
  /\ phase' = "done"
  /\ UNCHANGED <<vars, config, at, ctxDone, bag, host, tries, gaveUp>>

Cleanup ==
  \/ PlainCleanup \/ BhyveCleanup \/ VNCCleanup \/ OutputDirCleanup
  \/ DestroyCleanup("zvol") \/ DestroyCleanup("vnic")
  \/ Return

-----------------------------------------------------------------------------
(* The driver's goroutine, its timers and the guest go on meanwhile.        *)

Background(A) == A /\ UNCHANGED build

Builder == LoopHead \/ Run \/ Cleanup

BuildNext ==
  \/ Builder \/ Cancel \/ NoteCancel
  \/ Background(StartReturns) \/ Background(WaitReturns)
  \/ Background(Monitor) \/ Background(Guest)

BuildSpec == BuildInit /\ [][BuildNext]_allVars

\* The search for a VNC port has no timeout: while no port is free it goes on,
\* and only a cancellation is sure to end it.
Searching == At("vnc") /\ ~ctxDone

\* A debug build pauses after every step it runs and before every cleanup, and
\* between boot commands: until its user resumes it, or it is noted that the
\* build is cancelled.
Paused == config.debug /\ "cancelled" \notin bag

\* The scheduler runs the goroutines of the builder, the runner and the
\* monitor, every step but the search for a port that waits for the guest, a
\* provisioner or a command has a timeout or ends, and a killed or destroyed
\* bhyve ends.  No guest has to end, no port to be free, no user to answer.
BuildFairSpec ==
  /\ BuildSpec
  /\ WF_allVars(Builder /\ ~Searching /\ ~Paused)
  /\ WF_allVars(NoteCancel)
  /\ WF_allVars(Background(StartReturns))
  /\ WF_allVars(Background(WaitReturns))
  /\ WF_allVars(Background(Monitor))
  /\ WF_allVars(Background(Dies))

-----------------------------------------------------------------------------
(* Properties.                                                              *)

\* A build that returns an artifact has its output directory, with the whole
\* disk in it, and has left no snapshot (builder.go:113-151).
ArtifactIsComplete ==
  result = "artifact" =>
    /\ "outDir" \in host
    /\ (IF config.zvol THEN "image" ELSE "disk") \in host
    /\ host \cap {"partial", "snapshot"} = {}

\* No step of the plugin finds a key missing from the state bag, where its type
\* assertion would panic: the order of the steps and the conditions they are
\* included under provide each key before it is read (builder.go:35-110,
\* driver.go:57-86, step_type_boot_command.go:57-85).
KeysPresent == phase = "run" => Reads(Step) \subseteq bag

\* Until bhyvectl has destroyed the VM, a running bhyve has all it was given:
\* its disk, its VNIC and the lock on its VNC port (builder.go:71-85).
VMMayRun ==
  phase \in {"loop", "run"} \/ \E i \in 1..at : Steps[i] = "bhyve"

VMHasItsResources ==
  VMMayRun /\ proc = "alive" =>
    {"outDir", "portLock"}
      \cup (IF config.zvol THEN {"zvol"} ELSE {"disk"})
      \cup (IF config.vnic THEN {"vnic"} ELSE {}) \subseteq host

\* The VM whose disk is sent to the output directory is down, for good, when
\* the build waits for it (step_shutdown.go:38-81, step_create_snapshot.go:31-61).
ImageOfStoppedVM ==
  [][config.shutdown # "stop" /\ ~(host' \cap {"image", "snapshot"} \subseteq host)
       => Ended]_allVars

\* Whatever fails, and after a panic of Stop too, a build that is over has
\* released its port lock and has removed its zvol and its VNIC, or has logged
\* what it could not (step_configure_vnc.go:88-95, step_create_zvol.go:61-77,
\* step_create_vnic.go:57-73).
NothingLeaksSilently ==
  phase = "done" => host \cap {"zvol", "vnic", "portLock"} \subseteq gaveUp

\* A build that failed leaves no output directory, or has logged that it could
\* not remove it; the output of an earlier build stays only if nothing of it
\* was touched (step_prepare_output_dir.go:32-50, builder.go:113-124).
FailedBuildLeavesNoOutput ==
  result \in {"error", "halted"} /\ "outDir" \in host =>
    "outDir" \in gaveUp \/ host \cap Output = {"outDir", "stale"}

\* Every build comes to an end, whatever the VM does, with two exceptions: one
\* that is not cancelled may search for a port that is never free, and one that
\* is debugged and not cancelled may wait for its user.  A build that is
\* cancelled ends (builder.go:109-151, step_configure_vnc.go:60-65,
\* step_type_boot_command.go:171-181).
BuildEnds == <>(phase = "done") \/ <>[]Searching \/ <>[]Paused
=============================================================================
