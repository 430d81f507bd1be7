----------------------------- MODULE BuildHost -----------------------------
(***************************************************************************)
(* Several builds on one host.  Each is a process of its own, and all they *)
(* share is named: output directories, zvols, VNICs, virtual machines and  *)
(* VNC ports.  Names come from the configuration, and the default name of  *)
(* the VNIC is the same for every build.                                   *)
(*                                                                         *)
(* A build is what its steps do to these (see BhyveBuild for one build in  *)
(* full): the steps that do nothing to them are one place, "run".  The     *)
(* commands act by name, whoever made the thing: zfs and dladm refuse to   *)
(* create what exists and to remove what a VM uses, bhyve refuses a name,  *)
(* a VNIC or a port in use.  A guest may reboot at any time, and a driver  *)
(* starts it again even after the build has cleaned up (see BhyveClaims):  *)
(* what the builds owe each other must survive such a VM.                  *)
(***************************************************************************)
EXTENDS Integers

CONSTANTS
  Builds,    \* the builds
  NoBuild,   \* no build
  Names,     \* of output directories, zvols, VNICs and VMs
  Ports,     \* the VNC ports of the host
  Conf,      \* the configuration of each build
  Outsiders, \* the ports that other programs may listen on
  Serial     \* are builds that share a name run one after the other?

NoPort == 0

ConfType ==
  [out : Names, disk : Names, vnic : Names, vm : Names,
   ports : SUBSET Ports, zvol : BOOLEAN, force : BOOLEAN]

ASSUME HostAssumption ==
  /\ NoBuild \notin Builds
  /\ Ports \subseteq Nat \ {NoPort}
  /\ Conf \in [Builds -> ConfType]
  /\ Outsiders \subseteq Ports
  /\ Serial \in BOOLEAN

VARIABLES
  pc,     \* where each build is
  failed, \* is it cancelled or halted?
  port,   \* the port in its stepConfigureVNC.l
  again,  \* has its guest rebooted, so that its driver will start it again?
  dirBy,  \* who made the output directory of a name; NoBuild: there is none
  inDir,  \* whose disk or image is in it
  zvolBy, \* who made the zvol of a name
  vnicBy, \* who made the VNIC of a name
  vmBy,   \* whose bhyve runs the VM of a name
  locks,  \* who holds the lock file of a port
  taken   \* the ports other programs listen on

places   == <<pc, failed>>
things   == <<dirBy, inDir, zvolBy, vnicBy, vmBy>>
vnc      == <<port, locks>>
hostVars == <<places, things, vnc, again, taken>>

\* The cleanup that is the first to run when a step halts: its own.
Undo == [outDir |-> "unOutDir", disk |-> "unDisk", vnic |-> "unVNIC", vnc |-> "unVNC",
         bhyve |-> "unBhyve", run |-> "unBhyve", image |-> "unBhyve"]

\* And when the build is cancelled before a step: that of the step before.
UndoBefore == [outDir |-> "done", disk |-> "unOutDir", vnic |-> "unDisk", vnc |-> "unVNIC",
               bhyve |-> "unVNC", run |-> "unBhyve", image |-> "unBhyve"]

Steps    == DOMAIN Undo
Inactive == {"template", "refused", "over"}
Places   == Steps \cup Inactive
              \cup {"unBhyve", "unVNC", "unVNIC", "unDisk", "unOutDir", "done"}

Active(b) == pc[b] \notin Inactive
Up(b)     == vmBy[Conf[b].vm] = b

HostTypeOK ==
  /\ pc \in [Builds -> Places]
  /\ failed \in [Builds -> BOOLEAN]
  /\ port \in [Builds -> Ports \cup {NoPort}]
  /\ again \in [Builds -> BOOLEAN]
  /\ dirBy \in [Names -> Builds \cup {NoBuild}]
  /\ inDir \in [Names -> SUBSET Builds]
  /\ zvolBy \in [Names -> Builds \cup {NoBuild}]
  /\ vnicBy \in [Names -> Builds \cup {NoBuild}]
  /\ vmBy \in [Names -> Builds \cup {NoBuild}]
  /\ locks \in [Ports -> Builds \cup {NoBuild}]
  /\ \A p \in Ports : \A b \in Builds :
       locks[p] = b => port[b] = p /\ pc[b] \in {"bhyve", "run", "image", "unBhyve", "unVNC"}
  /\ taken \in SUBSET Outsiders

HostInit ==
  /\ pc = [b \in Builds |-> "template"]
  /\ failed = [b \in Builds |-> FALSE]
  /\ port = [b \in Builds |-> NoPort]
  /\ again = [b \in Builds |-> FALSE]
  /\ dirBy = [n \in Names |-> NoBuild]
  /\ inDir = [n \in Names |-> {}]
  /\ zvolBy = [n \in Names |-> NoBuild]
  /\ vnicBy = [n \in Names |-> NoBuild]
  /\ vmBy = [n \in Names |-> NoBuild]
  /\ locks = [p \in Ports |-> NoBuild]
  /\ taken = {}

-----------------------------------------------------------------------------
(* The way through the steps.                                               *)

Goto(b, place) == pc' = [pc EXCEPT ![b] = place] /\ UNCHANGED failed

Fail(b, place) ==
  /\ pc' = [pc EXCEPT ![b] = place]
  /\ failed' = [failed EXCEPT ![b] = TRUE]

\* Any step may halt, having done nothing to the host, and any build may be
\* cancelled between two steps.  A search for a port ends in no other way than
\* with a port or, when it is cancelled, with an error.
Halt(b) ==
  /\ pc[b] \in Steps \ {"vnc"}
  /\ Fail(b, Undo[pc[b]])
  /\ UNCHANGED <<things, vnc, again, taken>>

Interrupt(b) ==
  /\ pc[b] \in Steps
  /\ Fail(b, UndoBefore[pc[b]]) \/ (pc[b] = "vnc" /\ Fail(b, Undo[pc[b]]))
  /\ UNCHANGED <<things, vnc, again, taken>>

-----------------------------------------------------------------------------
(* The steps.                                                               *)

SharesName(b, c) ==
  /\ b # c
  /\ \/ Conf[b].out = Conf[c].out \/ Conf[b].disk = Conf[c].disk
     \/ Conf[b].vnic = Conf[c].vnic \/ Conf[b].vm = Conf[c].vm

\* Mutation: the output directory is not looked for.
Prepare_NoStat(b) ==
  /\ pc[b] = "template"
  /\ Serial => \A c \in Builds : SharesName(b, c) => ~Active(c)
  /\ Goto(b, "outDir")
  /\ UNCHANGED <<things, vnc, again, taken>>

\* Config.Prepare refuses an existing output directory, unless it is forced.
Prepare(b) ==
  /\ pc[b] = "template"
  /\ Serial => \A c \in Builds : SharesName(b, c) => ~Active(c)
  /\ \/ /\ Conf[b].force \/ dirBy[Conf[b].out] = NoBuild
        /\ Goto(b, "outDir")
     \/ /\ ~Conf[b].force /\ dirBy[Conf[b].out] # NoBuild
        /\ Goto(b, "refused")
  /\ UNCHANGED <<things, vnc, again, taken>>

\* stepPrepareOutputDir: a forced build removes what is there, and ignores
\* that it could not; MkdirAll is content with a directory that exists.
OutputDirRun(b) ==
  LET d == Conf[b].out IN
  /\ pc[b] = "outDir"
  /\ \/ /\ Conf[b].force
        /\ dirBy' = [dirBy EXCEPT ![d] = b]
        /\ inDir' = [inDir EXCEPT ![d] = {}]
     \/ /\ dirBy' = [dirBy EXCEPT ![d] = IF @ = NoBuild THEN b ELSE @]
        /\ UNCHANGED inDir
  /\ Goto(b, "disk")
  /\ UNCHANGED <<zvolBy, vnicBy, vmBy, vnc, again, taken>>

\* The file a build's disk is in: the image of the zvol is named for the VM.
File(b) == IF Conf[b].zvol THEN Conf[b].vm ELSE Conf[b].disk

\* b's file is written, over one of the same name.
Written(b) ==
  LET d == Conf[b].out IN
  [inDir EXCEPT ![d] = {c \in @ : File(c) # File(b)} \cup {b}]

\* stepCreateZvol and stepCreateDisk.
ZvolRun(b) ==
  /\ pc[b] = "disk" /\ Conf[b].zvol
  /\ zvolBy[Conf[b].disk] = NoBuild
  /\ zvolBy' = [zvolBy EXCEPT ![Conf[b].disk] = b]
  /\ Goto(b, "vnic")
  /\ UNCHANGED <<dirBy, inDir, vnicBy, vmBy, vnc, again, taken>>

DiskRun(b) ==
  /\ pc[b] = "disk" /\ ~Conf[b].zvol
  /\ dirBy[Conf[b].out] # NoBuild
  /\ inDir' = Written(b)
  /\ Goto(b, "vnic")
  /\ UNCHANGED <<dirBy, zvolBy, vnicBy, vmBy, vnc, again, taken>>

\* Mutation: dladm's error is ignored.
VNICRun_ErrorIgnored(b) ==
  LET n == Conf[b].vnic IN
  /\ pc[b] = "vnic"
  /\ vnicBy' = [vnicBy EXCEPT ![n] = IF @ = NoBuild THEN b ELSE @]
  /\ Goto(b, "vnc")
  /\ UNCHANGED <<dirBy, inDir, zvolBy, vmBy, vnc, again, taken>>

VNICRun(b) ==
  /\ pc[b] = "vnic"
  /\ vnicBy[Conf[b].vnic] = NoBuild
  /\ vnicBy' = [vnicBy EXCEPT ![Conf[b].vnic] = b]
  /\ Goto(b, "vnc")
  /\ UNCHANGED <<dirBy, inDir, zvolBy, vmBy, vnc, again, taken>>

\* Does anything listen on p?
Listening(p) == p \in taken \/ \E c \in Builds : Up(c) /\ port[c] = p

\* Mutation: the lock file is released with the port.
VNCRun_Unlocks(b) ==
  /\ pc[b] = "vnc"
  /\ \E p \in Conf[b].ports :
       /\ locks[p] = NoBuild /\ ~Listening(p)
       /\ port' = [port EXCEPT ![b] = p]
  /\ Goto(b, "bhyve")
  /\ UNCHANGED <<things, locks, again, taken>>

\* stepConfigureVNC: a port that is neither locked nor listened on, for as
\* long as it takes.  The listener is closed, the lock file is kept.
VNCRun(b) ==
  /\ pc[b] = "vnc"
  /\ \E p \in Conf[b].ports :
       /\ locks[p] = NoBuild /\ ~Listening(p)
       /\ port' = [port EXCEPT ![b] = p]
       /\ locks' = [locks EXCEPT ![p] = b]
  /\ Goto(b, "bhyve")
  /\ UNCHANGED <<things, again, taken>>

\* bhyve is started: its VM, port and VNIC are free, and its disk is there.
CanBoot(b) ==
  /\ vmBy[Conf[b].vm] = NoBuild
  /\ ~Listening(port[b])
  /\ vnicBy[Conf[b].vnic] # NoBuild
  /\ \A c \in Builds : Up(c) => Conf[c].vnic # Conf[b].vnic
  /\ IF Conf[b].zvol THEN zvolBy[Conf[b].disk] # NoBuild
     ELSE \E c \in inDir[Conf[b].out] : File(c) = File(b)

Boots(b) == vmBy' = [vmBy EXCEPT ![Conf[b].vm] = b]

BhyveRun(b) ==
  /\ pc[b] = "bhyve" /\ CanBoot(b)
  /\ Boots(b)
  /\ Goto(b, "run")
  /\ UNCHANGED <<dirBy, inDir, zvolBy, vnicBy, vnc, again, taken>>

\* The guest reboots, powers off or crashes: bhyve exits, and its name, port
\* and VNIC are free ...
GuestExit(b) ==
  /\ Up(b)
  /\ vmBy' = [vmBy EXCEPT ![Conf[b].vm] = NoBuild]
  /\ again' \in {[again EXCEPT ![b] = reboots] : reboots \in {FALSE, Active(b)}}
  /\ UNCHANGED <<places, dirBy, inDir, zvolBy, vnicBy, vnc, taken>>

\* ... until the driver has started it again, or failed to.
Reboot(b) ==
  /\ again[b] /\ again' = [again EXCEPT ![b] = FALSE]
  /\ \/ CanBoot(b) /\ Boots(b)
     \/ UNCHANGED vmBy
  /\ UNCHANGED <<places, dirBy, inDir, zvolBy, vnicBy, vnc, taken>>

\* The VM has been provisioned, and has shut down or been sent a kill.
Shutdown(b) ==
  /\ pc[b] = "run" /\ ~again[b]
  /\ Goto(b, IF Conf[b].zvol THEN "image" ELSE "unBhyve")
  /\ UNCHANGED <<things, vnc, again, taken>>

\* stepCreateSnapshot.
ImageRun(b) ==
  /\ pc[b] = "image"
  /\ dirBy[Conf[b].out] # NoBuild /\ zvolBy[Conf[b].disk] # NoBuild
  /\ inDir' = Written(b)
  /\ Goto(b, "unBhyve")
  /\ UNCHANGED <<dirBy, zvolBy, vnicBy, vmBy, vnc, again, taken>>

-----------------------------------------------------------------------------
(* The cleanups, by name.                                                   *)

BhyveCleanup(b) ==
  /\ pc[b] = "unBhyve"
  /\ vmBy' = [vmBy EXCEPT ![Conf[b].vm] = NoBuild]
  /\ Goto(b, "unVNC")
  /\ UNCHANGED <<dirBy, inDir, zvolBy, vnicBy, vnc, again, taken>>

\* Mutation: the lock file is left when the build succeeds.
VNCCleanup_FailedOnly(b) ==
  /\ pc[b] = "unVNC"
  /\ locks' = [p \in Ports |-> IF p = port[b] /\ failed[b] THEN NoBuild ELSE locks[p]]
  /\ Goto(b, "unVNIC")
  /\ UNCHANGED <<things, port, again, taken>>

\* Mutation: the lock file of every port of the range is released.
VNCCleanup_WholeRange(b) ==
  /\ pc[b] = "unVNC"
  /\ locks' = [p \in Ports |-> IF p \in Conf[b].ports THEN NoBuild ELSE locks[p]]
  /\ Goto(b, "unVNIC")
  /\ UNCHANGED <<things, port, again, taken>>

\* The lock file of the build's port is released.  An unlock that fails, which
\* the code only logs, is in BhyveBuild and is left out here.
VNCCleanup(b) ==
  /\ pc[b] = "unVNC"
  /\ locks' = [p \in Ports |-> IF p = port[b] THEN NoBuild ELSE locks[p]]
  /\ Goto(b, "unVNIC")
  /\ UNCHANGED <<things, port, again, taken>>

\* The last of four attempts may have failed too: the thing stays.
VNICCleanup(b) ==
  LET n == Conf[b].vnic IN
  /\ pc[b] = "unVNIC"
  /\ \/ /\ \A c \in Builds : Up(c) => Conf[c].vnic # n
        /\ vnicBy' = [vnicBy EXCEPT ![n] = NoBuild]
     \/ UNCHANGED vnicBy
  /\ Goto(b, "unDisk")
  /\ UNCHANGED <<dirBy, inDir, zvolBy, vmBy, vnc, again, taken>>

ZvolCleanup(b) ==
  LET n == Conf[b].disk IN
  /\ pc[b] = "unDisk"
  /\ \/ /\ Conf[b].zvol
        /\ \A c \in Builds : Up(c) /\ Conf[c].zvol => Conf[c].disk # n
        /\ zvolBy' = [zvolBy EXCEPT ![n] = NoBuild]
     \/ UNCHANGED zvolBy
  /\ Goto(b, "unOutDir")
  /\ UNCHANGED <<dirBy, inDir, vnicBy, vmBy, vnc, again, taken>>

RemoveDir(d) ==
  /\ dirBy' = [dirBy EXCEPT ![d] = NoBuild]
  /\ inDir' = [inDir EXCEPT ![d] = {}]

\* stepPrepareOutputDir removes the directory of a build that failed.
OutputDirCleanup(b) ==
  /\ pc[b] = "unOutDir"
  /\ \/ failed[b] /\ RemoveDir(Conf[b].out)
     \/ UNCHANGED <<dirBy, inDir>>
  /\ Goto(b, "done")
  /\ UNCHANGED <<zvolBy, vnicBy, vmBy, vnc, again, taken>>

\* The artifact of a build that succeeded is kept, or is destroyed once it has
\* been post-processed.  The driver ends with its program.
Release(b) ==
  /\ pc[b] = "done"
  /\ \/ ~failed[b] /\ RemoveDir(Conf[b].out)
     \/ UNCHANGED <<dirBy, inDir>>
  /\ Goto(b, "over")
  /\ again' = [again EXCEPT ![b] = FALSE]
  /\ UNCHANGED <<zvolBy, vnicBy, vmBy, vnc, taken>>

-----------------------------------------------------------------------------
\* Other programs take and leave ports.
Outsider ==
  /\ \E p \in Outsiders :
       \/ ~Listening(p) /\ taken' = taken \cup {p}
       \/ taken' = taken \ {p}
  /\ UNCHANGED <<places, things, vnc, again>>

Run(b) ==
  \/ OutputDirRun(b) \/ ZvolRun(b) \/ DiskRun(b) \/ VNICRun(b) \/ VNCRun(b)
  \/ BhyveRun(b) \/ Shutdown(b) \/ ImageRun(b) \/ Halt(b)

Cleanup(b) ==
  \/ BhyveCleanup(b) \/ VNCCleanup(b) \/ VNICCleanup(b) \/ ZvolCleanup(b)
  \/ OutputDirCleanup(b) \/ Release(b)

HostNext ==
  \/ \E b \in Builds :
       \/ Prepare(b) \/ Run(b) \/ Interrupt(b) \/ Cleanup(b)
       \/ GuestExit(b) \/ Reboot(b)
  \/ Outsider

HostSpec == HostInit /\ [][HostNext]_hostVars

\* Every build is a process that goes on when it can: a step that waits for
\* the guest has a timeout or is a provisioner, which ends.  Nobody has to
\* start a build, nor to interrupt one.
HostFairSpec ==
  HostSpec /\ \A b \in Builds : WF_hostVars(Run(b)) /\ WF_hostVars(Cleanup(b))

-----------------------------------------------------------------------------
(* Properties.                                                              *)

\* A VM that its own driver has started again after the build's cleanup.
Escaped(b) == Up(b) /\ pc[b] \notin {"run", "image", "unBhyve"}

\* From before its first boot to the end of its last a build holds the lock of
\* its port, so that no VM of another build is on it, but for one that has
\* escaped (step_configure_vnc.go:50-72, driver.go:62-65).
PortHeld ==
  \A b \in Builds : pc[b] \in {"bhyve", "run", "image", "unBhyve"} =>
    /\ port[b] # NoPort /\ locks[port[b]] = b
    /\ \A c \in Builds \ {b} : Up(c) /\ port[c] = port[b] => Escaped(c)

\* A VM that has not escaped runs on the VNIC and the zvol its own build has
\* made, and not on what another build, or its VM, left behind
\* (step_create_vnic.go:20-44, step_create_zvol.go:18-46).
VMUsesItsOwn ==
  \A b \in Builds :
    (Up(b) /\ ~Escaped(b)) =>
      /\ vnicBy[Conf[b].vnic] = b
      /\ Conf[b].zvol => zvolBy[Conf[b].disk] = b

\* What a build has left in an output directory is removed or overwritten by
\* that build, until its artifact is given up, or by a forced build of the
\* same directory (config.go:167-173, step_prepare_output_dir.go:19-50,
\* artifact.go:36-38).
OutputIsSafe ==
  [][\A d \in Names : \A c \in inDir[d] \ inDir'[d] :
       Active(c) \/ \E b \in Builds : Active(b) /\ Conf[b].force /\ Conf[b].out = d]_hostVars

\* Every build that was started comes to an end, also when there are fewer
\* ports than builds: a port is given back (step_configure_vnc.go:60-71, 88-95).
\* A VM that escapes, or another program, may keep the last port, which is
\* searched without timeout.
BuildsEnd ==
  \A b \in Builds :
    Active(b) ~> (pc[b] = "over" \/ taken # {} \/ \E c \in Builds : Escaped(c))

\* Builds that share names and run one after the other, beside others that
\* share but the range of ports, take nothing from each other: each thing
\* is made and removed by its own build.  What a build could not remove is
\* nobody's once the build is over.
Things   == ({"dir", "zvol", "vnic", "vm"} \X Names) \cup ({"lock"} \X Ports)
Restless == {"vm"} \X Names

Maker(t) ==
  CASE t[1] = "dir"  -> dirBy[t[2]]
    [] t[1] = "zvol" -> zvolBy[t[2]]
    [] t[1] = "vnic" -> vnicBy[t[2]]
    [] t[1] = "vm"   -> vmBy[t[2]]
    [] t[1] = "lock" -> locks[t[2]]

owner ==
  [t \in Things |->
     IF Maker(t) # NoBuild /\ Active(Maker(t)) THEN Maker(t) ELSE NoBuild]

Owners == INSTANCE Ownership WITH at <- pc

ImplementsOwnership == Owners!OwnershipSpec
=============================================================================
