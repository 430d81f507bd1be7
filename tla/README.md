# A verification of packer-plugin-bhyve

The plugin builds virtual machine images with bhyve on illumos: it downloads an
installation CD, makes a disk and a VNIC, runs bhyve, types a boot command over
VNC, waits for the guest's address, provisions the guest over ssh, shuts it down
and, for a ZFS volume, sends a snapshot of the disk to the output directory. All
of its logic is in `src/builder/bhyve`. This directory models it in TLA+, checks
the models with TLC and proves theorems about them with TLAPS.

Source lines are given as `file:line`, relative to `src/builder/bhyve`.
`PROJECT.json` maps every definition of the models to its lines.

## Inventory

| Part | State | Operations | Hard because |
|---|---|---|---|
| Driver (`driver.go`) | `vmCmd`, `vmRetCh`, `vmErrCh` under `lock`; two channels of capacity 1; a variable `cmd` shared with a goroutine | `Start`, `Stop`, `WaitForShutdown`; the monitor goroutine that reruns bhyve on every reboot | three parties, a mutex held over a `select`, a racy read, handles that go stale at a reboot |
| Builder (`builder.go`) | the step list, the state bag | `Prepare`, `Run` | which steps run, in what order, and what a failed or cancelled build returns |
| Runner (SDK) | index of the step, context, `cancelled` and `halted` keys | run each step, clean up in reverse | cancellation at any moment, noted by a goroutine of its own; cleanups also after a failed `Run` and after a panic |
| `stepBhyve` | none | launch; destroy with `bhyvectl` | destroys by name while the monitor may be between two boots |
| `stepShutdown` | a timer | wait for the guest, send a command and wait, or kill | timeout against a late end, asynchronous kill |
| `stepPrepareOutputDir` | output directory | remove and make; remove on failure | check made long before, ignored errors, retries |
| `stepCreateDisk`, `stepCreateZvol`, `stepCreateSnapshot` | disk file, zvol, snapshot | external commands; destroy with 4 attempts | partial failure, EBUSY |
| `stepCreateVNIC` | VNIC | create; delete with 4 attempts | EBUSY, default name shared by builds |
| `stepConfigureVNC` | a listener with a lock file | find a port; unlock it | the port is free between the search and bhyve's bind; builds compete for ports, without a timeout |
| `stepTypeBootCommand` | VNC connection | wait, connect, type | unchecked reads of the state bag, cancellation, a reboot while it types |
| `stepWaitGuestAddress` | none | find the MAC, poll `arp` | conversion of the MAC, timeout, stale rows |
| `stepHTTPIPDiscover` | none | look at the host's NIC | halts without an error |
| `Config`, `CommConfig`, `CPUConfig` | the configuration | `Prepare`, `cmdline`, `getMaxCPUs` | order of defaults and checks, zero values, products |
| `commHost`, `commPort`, `Artifact`, `main.go`, generated schema | immutable or none | look-ups, accessors | nothing |

How they interact. `Builder.Run` puts the driver in the state bag and hands the
steps to the SDK's runner. The steps talk to each other only through keys of the
state bag and through what they leave on the host. `stepBhyve` and `stepShutdown`
call the driver; its monitor goroutine outlives the call of `Start` and, when a
build fails, may outlive the build. `stepBhyve`'s cleanup does not go through the
driver: it destroys the VM by name, behind the monitor's back.

Several builds may run on one host, each a process of its own. What they share has
names: output directories, zvols, VNICs and VMs, which the configuration names (the VNIC has
one default name for all builds), and the VNC ports, which have lock files. Commands act on
a name, whoever made the thing.

What makes each part correct: an answer of the driver is true of the process;
nobody blocks for ever on its mutex or channels; the VM boots from the CD once;
the image is taken of a VM that is down; a VM that runs has its disk, VNIC and
port; a key is in the state bag before it is read; a finished build has removed
what it made or has said so; an artifact is complete; a build ends, unless it searches
for a port that is never free or is left at the pause of `-debug`, and a cancelled one always; an
accepted configuration has a range of ports to search; a build takes nothing from another; what is typed
reaches one boot of one VM, in order; the communicator connects to the guest.

## Modules

* **`BhyveDriver`** is `driver.go`. `client` says where the builder's goroutine is
  in its calls (`starting` is the `select` of line 165, `startErr` the receive of
  line 168, `waiting` the `select` of line 203); `monitor` says where the goroutine of
  lines 104-162 is (`create` the head of its loop, `start` line 121, `wait` line 132,
  `send` line 154, `clear` line 156). `vmCmd` and `vmRetCh` are the driver's fields; `cmd`,
  `first`, `rc`, `retCh`, `errCh` the variables of `Start`; a command is named by its
  number, so that a stale one can be told from the current one. `vmErrCh` is written
  and never read, and is left out. `proc`, `status`, `cdrom` and `doomed` are the kernel's: the
  bhyve of the current command, its exit status, whether it has the CD, and
  whether it was killed or its VM destroyed. Each action is one critical section or
  one step between two blocking operations; `Start` holds the mutex from its first
  line to its return, which is `LockHeld`. A channel of capacity one is the set of what
  it holds. `Publish` reads `cmd` as the race on it allows: whatever the monitor last
  wrote.
* **`VMLifecycle`** is what the steps may rely on, the `Driver` interface: a machine
  that is off, up or ended, a launch that succeeds or fails, and answers. A failed
  launch and the answer "down" are given only for a machine that has ended.
  `BhyveDriver` implements it (`ImplementsLifecycle`): reboots, channels and the
  internal phases of `Start` are stuttering steps.
* **`BhyveBuild`** is one build: it EXTENDS `BhyveDriver`, adds `builder.go` and the
  steps, and calls the driver's actions from the steps that call the driver. `at` and
  `phase` are the runner's; `bag` is the set of keys in the state bag, which begins with `FirstKeys`, and `Reads`
  the keys that a step, or the driver under it, reads with an unchecked type assertion; `host` the set of things that
  exist (output directory, disk, zvol, snapshot, VNIC, port lock). Every project step has
  an action for `Run` and, where it has a body, one for `Cleanup`; the SDK's steps are one action,
  `SDKRun`. A retried cleanup is one action per attempt. With `config.debug` the runner and the boot command step
  pause for the user (`Paused`), and the search for a VNC port may last until the build is cancelled (`Searching`). The runner is external and modelled
  from the SDK's documented contract: a cleanup is due for every step whose `Run` was called,
  in reverse, after a panic too.
* **`BuildConfig`** is `config.go` and `comm_config.go`: the decoded template becomes an accepted or
  a refused configuration (`Prepare`), and an accepted one is launched with the CPU argument of
  `cmdline`. Prepare sets each default before any check that looks at its field, so the model
  composes `Defaulted` and `Refused`; `AcceptedIsSettled` is what that order is for. The checks
  of the SDK's parts are one Boolean of the template. CPU counts are integers, negative ones included, since
  nothing in the code refuses them; they are at most `CountLimit` in size, so that the product of three does not overflow.
* **`BhyveClaims`** states what comments and messages of the source say, for the runs that
  find the code to differ.
* **`BuildHost`** is what the builds on one host do to what they share: `dirBy` and `inDir` are the output
  directories and whose disks are in them, `zvolBy`, `vnicBy` and `vmBy` who made the thing of a name, `locks`
  the lock files of the ports. `pc` is where a build is in the steps that touch these; the others are the
  one place `run`. A cleanup acts on the name (`VNICCleanup` removes the VNIC of that name, whoever
  made it, as `dladm delete-vnic` does). A guest may reboot at any time and its driver start it again, after
  the build's cleanup too (see `claim_destroy`): such a VM is called escaped, and what the builds owe each
  other has to survive it. `Serial` says whether builds that share a name are run one after the other. Every
  build makes its own VNIC here; a late cancellation, during the cleanup, is in `BhyveBuild` only.
* **`Ownership`** is what builds owe to each other: a thing belongs to at most one build, and goes from nobody to
  a build and back by a step of that build. `BuildHost` implements it when `Serial`
  (`ImplementsOwnership`); a VM may come and go by itself.
* **`GuestAddress`** is `step_wait_guest_address.go` with `commHost` of `ssh.go`. A MAC address is a
  sequence of octets, and its printed forms are sequences of their digits: `DladmForm` leaves out a leading
  zero, `VNICMac` is the padding of lines 84-91, `ArpForm` what the table shows. `Fields` and `Matches` are the
  two lengths of a row of lines 119-134. Around the step other machines take and lose addresses, and the
  rows of the table come, go and outlive what they say. `clock` counts intervals of the polling. `unseen` is
  a history variable: when the table last did not show the guest, or could not be read.
* **`BootCommand`** is `step_type_boot_command.go`: the boot wait, the connection, the loop over the boot
  steps and the keys one by one, which are under way (`wire`) before the VM has them (`received`), while the VM
  may exit and be started again by the driver.
* **`StepOutcome`** is what the runner and the later steps are told by a step that waits: its `Run` answers once, and
  with the answer the state bag gets what the step produces or its error. `GuestAddress` and `BootCommand`
  implement it (`ImplementsStep`).
* **`MC*`** modules give TLC its instances.
* **`BhyveDriver_proofs`, `BhyveBuild_proofs`, `BuildConfig_proofs`, `BuildHost_proofs`,
  `GuestAddress_proofs`, `BootCommand_proofs`** hold the theorems about the module they are named for, with the
  inductive invariants and the measures that only the proofs need.

How they fit together: `BhyveBuild` composes one build with the driver's model, step by step.
`BuildHost` abstracts each such build to what it does to shared names and composes several. `GuestAddress` and
`BootCommand` open up the two steps whose outcome alone is in `BhyveBuild` (`AddressRun`, `TypeRun`). `StepOutcome` is
where they meet: either module implements it, and the two actions of `BhyveBuild` are exactly its outcomes.

An operator whose name is that of another with a suffix, such as
`LockHeld_Released`, is a mutation of it: the definition with a plausible fault. It is no
part of the specification. Each property of each passing run has one that TLC finds
it violated by; they are listed in `PROJECT.json`.

## What is checked

| Run | Module | States | Shows |
|---|---|---|---|
| `driver` | `MCBhyveDriver` | 2,472 | every interleaving of client, monitor and guest over three boots |
| `build` | `MCBhyveBuild` | 1,215,892 | a whole build, with any step failing, cancelled at any moment, the guest rebooting or ending at any moment |
| `config` | `MCBuildConfig` | 9,823 | `Prepare` at both sides of every boundary, the CPU argument of every small topology, negative counts included |
| `host` | `MCBuildHost` | 281,260 | three builds, one port that another program may take; two that share every name run one after the other, the third beside them |
| `address` | `MCGuestAddress` | 77,288 | the poll of the ARP table on a link with two machines |
| `boot` | `MCBootCommand` | 15,000 | every shape of template, typed to a VM that may reboot at any key |
| `claim_*` | `MCBhyveClaims`, `MCBuildConfig` | up to 195,000 | one disagreement each, below |

**`driver`.** `ShutdownIsFinal`: when `WaitForShutdown` returns true no bhyve is left and
none is started again, although the monitor restarts it for reboots.
`StartErrorMeansNoVM`: nor is one when `Start` fails. `ChannelsNeverBlock`: the receive
made with the mutex held and the sends to channels of capacity one never block. `NoStaleHandle`: the critical sections that set and clear the
fields cannot end in the wrong order, because `Start` keeps the mutex over its `select`.
`InstallMediaOnce`: the CD is in the first boot only. `ImplementsLifecycle`:
refinement. `StartAlwaysReturns`, `MonitorFinishes`: liveness.

**`build`.** `ArtifactIsComplete`: an artifact has the whole disk, and no snapshot is left.
`KeysPresent`: no step of the plugin, nor the driver it starts, finds a key missing that it reads with an
unchecked type assertion (`Reads`), in a debug build either. `VMHasItsResources`: until the VM is
destroyed, a running bhyve has its disk, VNIC, output directory and port lock.
`ImageOfStoppedVM`: no snapshot or image appears while a VM that the build waited for may run.
`NothingLeaksSilently`: zvol, VNIC and port lock are gone, or it was logged that they are not, after a panic of `Stop` too.
`FailedBuildLeavesNoOutput`: the same of the output directory of a failed build, except
for an earlier output that the build did not come to touch. `BuildEnds`: a build ends, whatever the VM does, with two
exceptions, both of a build that is not cancelled: one that searches for a VNC port for ever
(`step_configure_vnc.go:60-65` has no timeout), and a debug build that its user leaves at a pause.

**`config`.** `AcceptedPortRanges`: an accepted build has a range of VNC ports from 5900 to 65535 that is not empty, and a
lower host port that is positive and not above the upper one (which has no upper bound, and neither is used),
whatever the template gave or left out. `AcceptedIsSettled`: preparing an accepted
configuration again changes nothing and finds nothing wrong, so no check came before its
default. `CPUsFitTopology`: the CPU count against a reference definition of the topology's size, unless the CPU
count or the first count of the topology is negative (see below).

**`host`.** `PortHeld`: from before its first boot to the end of its last a build holds the lock
of its port, and no other build's VM is on it unless it has escaped. `VMUsesItsOwn`: a VM runs
on the VNIC and the zvol its own build made. `OutputIsSafe`: output is removed or overwritten only by its own
build or by a forced build of that directory. `ImplementsOwnership`: refinement. `BuildsEnd`: every build
that was started ends, although the search for a port has no timeout and there are fewer ports than builds, unless
an escaped VM or another program keeps a port. These are of builds that share a name and run one after the other. When
they run at the same time, what remains is `PortHeld` and that a lock passes between nobody and a build by a step of that
build; both are proved (`PortsHeld`, `HostLocksOwned`), for any names shared. The rest does not remain:
a build that fails to create a VNIC or a zvol that exists removes, in its own cleanup, the one of the other
build; one whose directory appears after `Prepare` has looked shares it with the other; and an artifact destroyed late
takes with it what another build has put there. Nothing in the repository says that builds may share these names, so no
claim is made of it; the default name of the VNIC makes it easy to meet.

**`address`.** `MacIsRecognized`: the MAC address made from `dladm`'s output is the one `arp` prints, and no other machine's.
`ConnectsToItsGuest`: the communicator connects to the configured host or to an address the guest has had.
`FoundInTime`: a guest the table shows for the whole last interval is found before the step gives up.
`ImplementsStep`: the step answers once, and with the address in the state bag when it continues; when its hour is
over it halts and the bag has nothing. `AddressStepEnds`: liveness.

**`boot`.** `ReceivedInOrder`: the VM receives a prefix of what the template asks for, each key once.
`ReceivedInOneBoot`: all of it in one boot, because the step dials once. `ContinuesWhenSent`: a step that continues has
sent all. `ImplementsStep`: a halt has an error with it, unless the build is cancelled. `BootStepEnds`: it ends, unless a user leaves a debug build at its pause.

**Disagreements found.** Each `claim_*` run checks one property that states what the
source says, and TLC finds a behaviour of the code that violates it.

| Run | The source says | The code does |
|---|---|---|
| `claim_forced` | "ultimately forcefully shuts it down if that fails" (`step_shutdown.go:15-16`) | after the timeout the step halts with an error and kills nothing; the VM is destroyed only by the cleanup of the failed build |
| `claim_down` | "VM shut down." (`step_shutdown.go:92`) | after `Stop` has sent the kill, nothing waits for the process: the snapshot may be taken while it runs |
| `claim_stop` | forced shutdown; VM restarted for the later steps (`driver.go:96-98`) | after a reboot `vmCmd` is the command of the first boot: `Stop` fails and the VM runs on |
| `claim_exit` | only power off and halt are converted to success (`driver.go:134-146`) | `WaitForShutdown` drops the code: a triple fault or an error gives an artifact too |
| `claim_ports` | "must both be below 65535" (`config.go:201`), "vnc_port_min must be less than vnc_port_max" (`config.go:206`), "host_port_min must be less than host_port_max" (`comm_config.go:30`) | the comparisons are with `>`: 65535 and equal ends are accepted |
| `claim_destroy` | "Stopping bhyve VM" (`step_bhyve.go:42-44`) | between two boots there is nothing to destroy, and the monitor boots the VM again |

**Seen in the models, not checked by a run.** These behaviours are in the models; each follows from one
or two definitions, and a run would only repeat them.

* `builder.go:113` returns the error "if there was an error", but some halts put none in the bag
  (`step_bhyve.go:26`, `step_http_ip_discover.go:27`, the end of the hour in `step_wait_guest_address.go:55`,
  a cancelled boot wait): the build then returns "Build was halted." (`Halts`, `Return`).
* A failed `zfs send` leaves the snapshot (`step_create_snapshot.go:56`), and no attempt to destroy the zvol can
  succeed, although the retries are meant for an EBUSY that passes (`step_create_zvol.go:61-62`): `Removable`.
* The output directory is looked for in `Prepare` (`config.go:167-173`) and made later with `MkdirAll`
  (`step_prepare_output_dir.go:24`), which accepts one that has appeared since: `OutputDirRun` in `BuildHost`.
* A row of the ARP table that is older than this build counts as the guest's address
  (`step_wait_guest_address.go:44`): `Stale`, and `had` rather than `holds` in `ConnectsToItsGuest`.
* `Stop` panics if the command published has not been started (`StopPanic`).
* When a VM powers off within `Start`'s two seconds, a `WaitForShutdown` that comes before the monitor's
  last critical section waits for a code that `Start` has already consumed.
* The error of a forced removal is ignored (`step_prepare_output_dir.go:21`): files of an earlier build may
  stay, and the artifact lists them (`stale`). No property is stated of it.
* Nothing refuses negative CPU counts (`config.go:19-85`). A negative one after the first of a topology is passed over, but
  `cpus` of -1, or a first count of -1 without `cpus`, is accepted and bhyve is given `cpus=-1` (`VCPUs`). No text of
  the repository says which counts are allowed.
* The error of unlocking the VNC port is only logged (`step_configure_vnc.go:90-93`): the lock file stays (`VNCCleanup` in `BhyveBuild`).

### Bounds

* `MaxBoots`, the commands run for one VM: 3 in `driver`, so that the current command,
  the published one and one in between differ; 2 with the build, which has one
  reboot. A guest that would reboot once more runs on instead. The theorems hold for every value.
* `ExitCodes`: one code of each kind the monitor tells apart, death by a signal (-1) among them.
* `MaxBusy`, the attempts that EBUSY may make fail once a VM is on its way out: 4, so that
  a cleanup may also give up.
* `Configs`: every way to shut down, zvol and disk file, with and without a VNIC and an
  earlier output. The three flags only add or exchange steps that do not look at each
  other, so not all combinations are run. One of them is a debug build.
* Time is not measured: a timer may fire at any moment after it is armed. That includes
  schedules no host will show, such as two seconds passing before the monitor has made its
  first command. What holds holds for those too; the claims are stated so that their
  counterexamples do not depend on them.
* `host`: three builds are the fewest with two that share every name and one that only competes for the one port,
  so that a build waits for a port while another fails, reboots or escapes, or while another program has taken it. The first
  sharer has a zvol; the second is forced, over the output of the first, and has a disk file, as has the third. The theorems
  hold for any number of builds, names and ports.
* `address`: two machines whose MAC addresses have the same digits in a row once zeros are left out (2:10 and 21:0),
  two IP addresses, the guest known from before or not, and a deadline of three polls instead of 360.
* `boot`: three boots of the VM; commands with a key in common, without keys, and one that cannot be parsed; boot steps with
  empty ones among them; every combination of boot command, wait, debug and VNC disabled.
* `Templates`: port values at, below and above each bound and each default (5900, 6000, 65535, 2222, 4444),
  in every combination; the options of Prepare; all counts from -1 to 9 CPUs, 3 sockets,
  2 cores and 2 threads. The theorems hold for every value, of the counts up to `CountLimit`. `claim_ports` has one template,
  whose ranges have one port each.

Deadlock is not checked: the builder may simply be done, the driver's client may stop calling, and a
configuration that was refused or launched, a step that has ended and builds that are over stay as they are.

### Fairness

The Go scheduler lets a goroutine that can go on do so: weak fairness of `Monitor`,
of the returns of `Start` (a timer that is armed fires) and `WaitForShutdown` (so does
the one of `step_shutdown.go:42`), and of the builder's goroutine, except while it searches for a VNC port or is paused in a debug build
(`Searching`, `Paused`): that ends for certain only when the build is cancelled, which the runner's goroutine then
notes (`NoteCancel`, fair as any goroutine). `Dies`: a process that
was killed or whose VM was destroyed ends. Nothing makes a guest reboot, power off or answer,
nor the client of the driver call again. For the steps that wait for the guest,
the code has a timeout (the address: one hour, `builder.go:49`; the SDK's connect: its own), and a provisioner
or a command is taken to end. In `BuildHost` every build is a process that goes on when it can (`Run(b)`, `Cleanup(b)`), and no one has to
start or interrupt one: a search for a port is fair only while a port is free, and no program has to leave one. In `GuestAddress` the step and the clock
go on, nothing is asked of the guest or of the table. In `BootCommand` the step goes on, nothing is asked of the
user who was asked to resume, nor of the VM.

## What is proved

`BhyveDriver_proofs` proves, for every set of exit codes with -1, 0, 1 and 2 in it and every
positive bound on boots (`ExitCodesAssumption`, `MaxBootsAssumption`), type correctness, the
other safety properties of the run `driver`, and that the driver implements `VMLifecycle`.

None of the properties is inductive. `ShutdownIsFinal`, for instance, needs to know that a code in
`retCh` means the monitor has left its loop, and that a driver without a channel, once
`Start` has returned, has a monitor that is done. `DriverInv` adds those facts, as four
conjuncts named for what they relate:

* `ProcessInv`: where the monitor is says whether a process can be there;
* `CommandInv`: where it is says whether a command was made, and that `first` and
  the CD agree with its number;
* `ChannelInv`: `retCh` holds nothing but `rc` and only after the send, `errCh` is empty until the loop is
  left, and a code other than 0 has an error with it until `Start` has taken it;
* `HandleInv`: the fields are set only from `Start`'s return to the monitor's last
  critical section, and while `Start` is in its `select` the monitor cannot be done,
  because it needs the mutex.

`InitInv` and `NextInv` show that it is inductive, with one step per action; each property
then follows from it, and the refinement from `LifecycleInitMaps` and `LifecycleStepMaps`, which
says of each action which abstract action it is. `StopKillsFirstBoot` marks out what `claim_stop` shows: as long as the
VM has not rebooted, a `Stop` that finds the process of the published command alive kills it.

`BuildConfig_proofs` proves the three properties of the run `config` for every set of
templates of the right type (`TemplatesAssumption`). They rest on two lemmas about the operators:
`DefaultedTwice` (a default is not defaulted again) and `MaxCPUsIsProduct` (the cases of
`getMaxCPUs` amount to the product of the counts that are given, unless the first is negative). `CPUArgument` says of
negative counts what `CPUsFitTopology` says, and `ConfigTypeCorrect` that bhyve is never given the count 0. `AcceptedPortRanges` follows
from `AcceptedIsSettled`: a settled configuration has no zero port and none that is refused.

`BhyveBuild_proofs` proves type correctness and the six safety properties of the run `build`, for every set
of configurations and exit codes, every bound on boots and every number of EBUSY answers. `ListOfSteps` and
`PlacesOfSteps` say what the list of steps is for each configuration. `RunOutcome` and `CleanupOutcome` reduce the
fourteen actions of `Run` and the six of `Cleanup` to what the runner sees of them: the keys and things a step
gives, and what a cleanup removes or gives up. `BuildInv` adds to `DriverInv`

* `DoneInv`: the bag has the builder's first keys; it has the keys, and the host the things, of every step before the runner's;
* `StopInv`: an error in the bag comes with a halt or a cancellation, which is what the cleanup of the output
  directory goes by;
* `LeftInv`: a zvol, VNIC or lock that is there was given up, or its step is still to be cleaned up;
* `OutputInv`: what is in the output directory while the build runs, when it was not abandoned and when it
  failed before touching it;
* `VMInv`: nothing calls the driver before its step, and past a shutdown that waits the answer is "down".

`StoppedVMImaged` joins the last with the driver's `ShutdownIsFinal`: a build that comes to the snapshot has the
answer, and the answer means that no bhyve is left. `BuildSeesLifecycle`, `BuildShutdownFinal` and
`BuildStartErrorClean` carry the driver's refinement and promises over to the whole build, where `bhyvectl` destroys
the VM behind the driver's back.

`BuildIsBounded` is the safety half of `BuildEnds`: a measure, `ToGo`, of the steps the builder's goroutine has still to make
becomes smaller with each of them, by any list of steps, and nothing the VM, the host or the user does makes it
larger. It counts the calls of the driver, the steps left to run and, six for each step, the attempts to clean
up. What it leaves to TLC is that each step is taken. `WaitingStepsAreOutcomes` says that the two actions for
the boot command and the address step are the outcomes `StepOutcome` allows them.

`BuildHost_proofs` proves, for any builds, names, ports and configurations (`HostAssumption`), type correctness with
who holds which lock, and `PortHeld`; and, assuming `Serial`, `VMUsesItsOwn`, `OutputIsSafe` and the refinement of
`Ownership`. `HostInv` adds where a build has a lock (`PortInv`), that a thing of a name was made by a build of that
name (`NameInv`), that of the builds sharing a name one at most is active (`SerialInv`), and that what an active
build has made is there (`MadeInv`). The last is not inductive without the others: what keeps another build from
removing a VNIC by its name is that no other build of that name is active. `HostLocksOwned` is the part of the refinement
that needs no `Serial`: whatever builds share, none gives back a lock that another holds.

`GuestAddress_proofs` proves type correctness and the three safety properties of the run `address`, for any MAC and IP
addresses and any timeout. They rest on lemmas about octets: `PaddedOctet` (padding gives two digits, and
arp's), `ArpFormInjective` (no other address has that form) and `RowMatches` (a row matches if it
has the VNIC's address). `AddressStepAnswers` proves that the step implements `StepOutcome`, and `PollingIsBounded`
that it makes at most three steps and ticks for each interval of its timeout, and four.

`BootCommand_proofs` proves type correctness and the three safety properties of the run `boot`, for any templates, commands and
number of boots. `BootInv` is the conjunction of

* `OneBootInv`: nothing is sent before the handshake, and the connection never changes;
* `TypedInv`: what was sent is as long as the number of keys before the place the loops are at, and each key of it is the one
  wanted there;
* `WireInv`: what the VM has received and what is under way is a prefix of what was sent.

`Wanted`, the sequence of keys a template asks for, is stated by rank: a key of a boot step is the one that as many keys come
before, in a boot step before it or earlier in its own. The rank is the size of a finite set of places, so the proofs count
places, with the lemmas on finite sets, where a definition by concatenation would need induction over
the boot steps. `KeysInOrder` and `AllKeysSent` follow. `BootStepAnswers` proves that the step
implements `StepOutcome`, and `TypingIsBounded` that it makes at most three steps for each boot step, one for each key and
five, however the VM reboots.

Only model-checked: the liveness properties (`StartAlwaysReturns`, `MonitorFinishes`, `BuildEnds`, `BuildsEnd`,
`AddressStepEnds`, `BootStepEnds`), which are out of the prover's reach, though `BuildIsBounded`, `PollingIsBounded` and
`TypingIsBounded` prove that three of them can fail only by a step that is never taken; that `Wanted` is the
concatenation of the keys (`WantedIsSpelled`, which TLC evaluates on the templates of the run `boot`), as concatenation over a sequence of any length
is recursive; and the claims.

## Not modelled

* The argument lists of bhyve, messages, logs and passwords: no property tells them apart.
* Decoding and interpolating the template, and the checks the SDK makes of its own parts.
* Rendering and parsing a boot command, which are the SDK's: a command has keys or is refused.
* `commPort` always answers 22, since nothing puts `commHostPort` in the bag, and so `host_port_min` and `host_port_max`
  are checked and never used. The accessors of `artifact.go` return immutable fields; its `Destroy` is
  `Release` in `BuildHost`. `main.go` registers the builder. `config.hcl2spec.go` is generated. The SDK is not
  in the repository.
* The `-on-error` modes of the runner other than its default, `cleanup`: `abort`, which skips the cleanups after a failure,
  `ask`, which asks the user whether to, and `run-cleanup-provisioner`. The SDK chooses among them (`builder.go:110`). What
  `build` shows of a finished build is of the default.
* In `BuildHost`, an unlock of a port that fails, which is in `BhyveBuild`: the port is then lost to the host's builds like one that another
  program keeps.
* A crash of the plugin itself: nothing is persisted and no code recovers from one.

## Plan

Done: the driver and its abstract specification, the build over the driver, the configuration, the builds of one host
and their abstract specification, the address and boot command steps and the contract they share; proofs of every safety
property of the runs and of the refinements; bounded progress of the build and of the two waiting steps; the claims.

Next: that a build of `BhyveBuild` is one of `BuildHost`, with the runner's index mapped to `pc` and the things on the host to
their owners, which is said above and not checked; an abstract specification of the runner, whose cleanups undo
the steps that were run, last first; bounded progress of a build in `BuildHost`, whose only unbounded step is the search
for a port. Of the code, what is not modelled has no state.
