-------------------------- MODULE BuildHost_proofs --------------------------
(***************************************************************************)
(* Proofs about builds on one host, for any number of builds, names and    *)
(* ports and every configuration of the builds.                            *)
(***************************************************************************)
EXTENDS BuildHost, TLAPS

-----------------------------------------------------------------------------
(* The inductive invariant.                                                 *)

\* A build has the lock of the port it has found, and a
\* thing of a name is made by a build of that name.  Among builds that are run
\* one after the other, what a build has made is there until it removes it, and
\* nothing of another build is in its output directory unless it is forced.
PortInv ==
  \A b \in Builds :
    /\ pc[b] \in {"bhyve", "run", "image", "unBhyve"} => port[b] # NoPort /\ locks[port[b]] = b
    /\ pc[b] = "unVNC" => port[b] = NoPort \/ locks[port[b]] = b
    /\ pc[b] \in {"template", "outDir", "disk", "vnic", "vnc"} => port[b] = NoPort

NameInv ==
  \A n \in Names : \A b \in Builds :
    /\ dirBy[n] = b \/ b \in inDir[n] => Conf[b].out = n
    /\ zvolBy[n] = b => Conf[b].disk = n
    /\ vnicBy[n] = b => Conf[b].vnic = n
    /\ vmBy[n] = b => Conf[b].vm = n

SerialInv ==
  \A b, c \in Builds : SharesName(b, c) /\ Active(b) => ~Active(c)

MadeInv ==
  \A b \in Builds :
    /\ pc[b] \in {"vnc", "bhyve", "run", "image", "unBhyve", "unVNC"} => vnicBy[Conf[b].vnic] = b
    /\ Conf[b].zvol /\ pc[b] \in {"vnic", "vnc", "bhyve", "run", "image", "unBhyve", "unVNC", "unVNIC"}
         => zvolBy[Conf[b].disk] = b

OutputInv ==
  /\ \A d \in Names : dirBy[d] = NoBuild => inDir[d] = {}
  /\ Serial => \A b \in Builds : Active(b) /\ ~Conf[b].force => inDir[Conf[b].out] \subseteq {b}

HostInv ==
  /\ HostTypeOK /\ PortInv /\ NameInv /\ OutputInv
  /\ Serial => SerialInv /\ MadeInv

-----------------------------------------------------------------------------
(* Facts about the constants and the steps.                                 *)

LEMMA ConfFacts ==
  ASSUME NEW b \in Builds
  PROVE  /\ Conf[b].out \in Names /\ Conf[b].disk \in Names
         /\ Conf[b].vnic \in Names /\ Conf[b].vm \in Names
         /\ Conf[b].ports \subseteq Ports
         /\ Conf[b].zvol \in BOOLEAN /\ Conf[b].force \in BOOLEAN
<1>1. Conf[b] \in ConfType  BY HostAssumption
<1> QED  BY <1>1 DEF ConfType

LEMMA NotABuild == NoBuild \notin Builds /\ NoPort \notin Ports /\ Serial \in BOOLEAN
BY HostAssumption DEF NoPort

\* The places a step or a cancellation goes to.
LEMMA UndoFacts ==
  /\ Steps = {"outDir", "disk", "vnic", "vnc", "bhyve", "run", "image"}
  /\ Undo["outDir"] = "unOutDir" /\ UndoBefore["outDir"] = "done"
  /\ Undo["disk"] = "unDisk" /\ UndoBefore["disk"] = "unOutDir"
  /\ Undo["vnic"] = "unVNIC" /\ UndoBefore["vnic"] = "unDisk"
  /\ Undo["vnc"] = "unVNC" /\ UndoBefore["vnc"] = "unVNIC"
  /\ Undo["bhyve"] = "unBhyve" /\ UndoBefore["bhyve"] = "unVNC"
  /\ Undo["run"] = "unBhyve" /\ UndoBefore["run"] = "unBhyve"
  /\ Undo["image"] = "unBhyve" /\ UndoBefore["image"] = "unBhyve"
BY DEF Undo, UndoBefore, Steps

\* A build that fails at a step goes on with the cleanup of that one or of the
\* one before.
LEMMA FailFacts ==
  ASSUME NEW b \in Builds, Halt(b) \/ Interrupt(b), pc \in [Builds -> Places]
  PROVE  \E place \in Places :
           /\ pc[b] \in Steps /\ Fail(b, place)
           /\ \/ pc[b] = "outDir" /\ place \in {"unOutDir", "done"}
              \/ pc[b] = "disk" /\ place \in {"unDisk", "unOutDir"}
              \/ pc[b] = "vnic" /\ place \in {"unVNIC", "unDisk"}
              \/ pc[b] = "vnc" /\ place \in {"unVNC", "unVNIC"}
              \/ pc[b] = "bhyve" /\ place \in {"unBhyve", "unVNC"}
              \/ pc[b] \in {"run", "image"} /\ place = "unBhyve"
           /\ UNCHANGED <<things, vnc, again, taken>>
<1>1. pc[b] \in Steps /\ UNCHANGED <<things, vnc, again, taken>>  BY DEF Halt, Interrupt
<1>2. Fail(b, Undo[pc[b]]) \/ Fail(b, UndoBefore[pc[b]])  BY DEF Halt, Interrupt
<1>3. Undo[pc[b]] \in Places /\ UndoBefore[pc[b]] \in Places  BY <1>1, UndoFacts DEF Places
<1> HIDE DEF Fail
<1> QED  BY <1>1, <1>2, <1>3, UndoFacts

\* Where a build may be after its next step.
Way ==
  [template |-> {"outDir", "refused"},
   outDir |-> {"disk", "unOutDir", "done"}, disk |-> {"vnic", "unDisk", "unOutDir"},
   vnic |-> {"vnc", "unVNIC", "unDisk"}, vnc |-> {"bhyve", "unVNC", "unVNIC"},
   bhyve |-> {"run", "unBhyve", "unVNC"}, run |-> {"image", "unBhyve"},
   image |-> {"unBhyve"}, unBhyve |-> {"unVNC"}, unVNC |-> {"unVNIC"},
   unVNIC |-> {"unDisk"}, unDisk |-> {"unOutDir"}, unOutDir |-> {"done"},
   done |-> {"over"}]

BuildStep(b) == Prepare(b) \/ Run(b) \/ Interrupt(b) \/ Cleanup(b)

LEMMA WayTaken ==
  ASSUME NEW b \in Builds, BuildStep(b), pc \in [Builds -> Places]
  PROVE  /\ pc[b] \in DOMAIN Way
         /\ \E place \in Way[pc[b]] : pc' = [pc EXCEPT ![b] = place]
<1>1. CASE Halt(b) \/ Interrupt(b)
  <2>1. PICK place \in Places :
          /\ pc[b] \in Steps /\ Fail(b, place)
          /\ \/ pc[b] = "outDir" /\ place \in {"unOutDir", "done"}
             \/ pc[b] = "disk" /\ place \in {"unDisk", "unOutDir"}
             \/ pc[b] = "vnic" /\ place \in {"unVNIC", "unDisk"}
             \/ pc[b] = "vnc" /\ place \in {"unVNC", "unVNIC"}
             \/ pc[b] = "bhyve" /\ place \in {"unBhyve", "unVNC"}
             \/ pc[b] \in {"run", "image"} /\ place = "unBhyve"
    BY <1>1, FailFacts, Zenon
  <2>2. pc[b] \in DOMAIN Way /\ place \in Way[pc[b]]
    <3> HIDE DEF Places, Steps, Fail
    <3> QED  BY <2>1, UndoFacts DEF Way
  <2>3. pc' = [pc EXCEPT ![b] = place]  BY <2>1 DEF Fail
  <2> HIDE DEF Way
  <2> QED  BY <2>2, <2>3
<1>2. CASE Prepare(b)  BY <1>2 DEF Prepare, Goto, Way
<1>3. CASE OutputDirRun(b) \/ ZvolRun(b) \/ DiskRun(b)
  BY <1>3 DEF OutputDirRun, ZvolRun, DiskRun, Goto, Way
<1>4. CASE VNICRun(b) \/ VNCRun(b)  BY <1>4 DEF VNICRun, VNCRun, Goto, Way
<1>5. CASE BhyveRun(b) \/ Shutdown(b) \/ ImageRun(b)
  BY <1>5 DEF BhyveRun, Shutdown, ImageRun, Goto, Way
<1>6. CASE BhyveCleanup(b) \/ VNCCleanup(b) \/ VNICCleanup(b)
  BY <1>6 DEF BhyveCleanup, VNCCleanup, VNICCleanup, Goto, Way
<1>7. CASE ZvolCleanup(b) \/ OutputDirCleanup(b) \/ Release(b)
  BY <1>7 DEF ZvolCleanup, OutputDirCleanup, Release, Goto, Way
<1>8. \/ Halt(b) \/ Interrupt(b) \/ Prepare(b)
      \/ OutputDirRun(b) \/ ZvolRun(b) \/ DiskRun(b) \/ VNICRun(b) \/ VNCRun(b)
      \/ BhyveRun(b) \/ Shutdown(b) \/ ImageRun(b)
      \/ BhyveCleanup(b) \/ VNCCleanup(b) \/ VNICCleanup(b)
      \/ ZvolCleanup(b) \/ OutputDirCleanup(b) \/ Release(b)
  BY Zenon DEF BuildStep, Run, Cleanup
<1> HIDE DEF Way
<1> QED  BY <1>1, <1>2, <1>3, <1>4, <1>5, <1>6, <1>7, <1>8, Zenon

\* Only two steps touch a port or a lock.
LEMMA VNCUntouched ==
  ASSUME NEW b \in Builds, BuildStep(b), ~VNCRun(b), ~VNCCleanup(b)
  PROVE  UNCHANGED vnc
BY DEF BuildStep, Prepare, Run, Interrupt, Cleanup, Halt, OutputDirRun, ZvolRun, DiskRun,
       VNICRun, BhyveRun, Shutdown, ImageRun, BhyveCleanup, VNICCleanup, ZvolCleanup,
       OutputDirCleanup, Release

LEMMA StepKinds ==
  ASSUME [HostNext]_hostVars
  PROVE  \/ \E b \in Builds : BuildStep(b)
         \/ UNCHANGED <<places, vnc>>
BY DEF HostNext, BuildStep, GuestExit, Reboot, Outsider, hostVars

LEMMA HostInitInv == HostInit => HostInv
<1> SUFFICES ASSUME HostInit PROVE HostInv
  OBVIOUS
<1> USE NotABuild DEF HostInit
<1>1. HostTypeOK  BY DEF HostTypeOK, Places, Inactive
<1>2. PortInv  BY DEF PortInv
<1>3. NameInv  BY DEF NameInv
<1>4. OutputInv  BY ConfFacts DEF OutputInv, Active, Inactive
<1>5. SerialInv /\ MadeInv  BY DEF SerialInv, MadeInv, Active, Inactive
<1> QED  BY <1>1, <1>2, <1>3, <1>4, <1>5 DEF HostInv

\* Type correctness.
LEMMA TypeStep == HostInv /\ [HostNext]_hostVars => HostTypeOK'
<1> SUFFICES ASSUME HostInv, [HostNext]_hostVars PROVE HostTypeOK'
  OBVIOUS
<1> USE NotABuild DEF HostInv, HostTypeOK, Goto, Fail, places, things, vnc
<1>1. ASSUME NEW b \in Builds, Prepare(b) PROVE HostTypeOK'
  <2>1. pc[b] = "template" /\ UNCHANGED <<failed, things, vnc, again, taken>>
    BY <1>1 DEF Prepare
  <2>2. PICK place \in {"outDir", "refused"} : pc' = [pc EXCEPT ![b] = place]
    BY <1>1 DEF Prepare
  <2>3. place \in Places  BY UndoFacts DEF Places, Inactive
  <2> HIDE DEF Places
  <2> QED  BY <2>1, <2>2, <2>3
<1>2. ASSUME NEW b \in Builds, OutputDirRun(b) PROVE HostTypeOK'
  <2>1. pc[b] = "outDir" /\ pc' = [pc EXCEPT ![b] = "disk"]
        /\ UNCHANGED <<failed, zvolBy, vnicBy, vmBy, vnc, again, taken>>
    BY <1>2 DEF OutputDirRun
  <2>2. dirBy' \in [Names -> Builds \cup {NoBuild}]  BY <1>2, ConfFacts DEF OutputDirRun
  <2>3. inDir' \in [Names -> SUBSET Builds]  BY <1>2, ConfFacts DEF OutputDirRun
  <2>4. "disk" \in Places  BY UndoFacts DEF Places
  <2> HIDE DEF Places
  <2> QED  BY <2>1, <2>2, <2>3, <2>4
<1>3. ASSUME NEW b \in Builds, ZvolRun(b) PROVE HostTypeOK'
  BY <1>3, ConfFacts DEF ZvolRun, Places, Steps, Undo
<1>4. ASSUME NEW b \in Builds, DiskRun(b) PROVE HostTypeOK'
  BY <1>4, ConfFacts DEF DiskRun, Written, Places, Steps, Undo
<1>5. ASSUME NEW b \in Builds, VNICRun(b) PROVE HostTypeOK'
  BY <1>5, ConfFacts DEF VNICRun, Places, Steps, Undo
<1>6. ASSUME NEW b \in Builds, VNCRun(b) PROVE HostTypeOK'
  BY <1>6, ConfFacts DEF VNCRun, Places, Steps, Undo
<1>7. ASSUME NEW b \in Builds, BhyveRun(b) PROVE HostTypeOK'
  <2>1. vmBy' \in [Names -> Builds \cup {NoBuild}]  BY <1>7, ConfFacts DEF BhyveRun, Boots
  <2>2. pc' = [pc EXCEPT ![b] = "run"] /\ pc[b] = "bhyve"  BY <1>7 DEF BhyveRun
  <2>3. UNCHANGED <<failed, port, again, dirBy, inDir, zvolBy, vnicBy, locks, taken>>
    BY <1>7 DEF BhyveRun
  <2>4. "run" \in Places  BY UndoFacts DEF Places
  <2> HIDE DEF Places
  <2> QED  BY <2>1, <2>2, <2>3, <2>4
<1>8. ASSUME NEW b \in Builds, Shutdown(b) PROVE HostTypeOK'
  BY <1>8, ConfFacts DEF Shutdown, Places, Steps, Undo
<1>9. ASSUME NEW b \in Builds, ImageRun(b) PROVE HostTypeOK'
  BY <1>9, ConfFacts DEF ImageRun, Written, Places, Steps, Undo
<1>10. ASSUME NEW b \in Builds, Halt(b) \/ Interrupt(b) PROVE HostTypeOK'
  <2>1. PICK place \in Places :
          /\ Fail(b, place)
          /\ pc[b] \in {"bhyve", "run", "image"} => place \in {"unBhyve", "unVNC"}
          /\ pc[b] \in Steps /\ UNCHANGED <<things, vnc, again, taken>>
    BY <1>10, FailFacts, Zenon
  <2>2. pc' = [pc EXCEPT ![b] = place] /\ failed' = [failed EXCEPT ![b] = TRUE]  BY <2>1
  <2>3. pc[b] \notin {"unBhyve", "unVNC"}  BY <2>1, UndoFacts
  <2> HIDE DEF Places, Steps
  <2> QED  BY <2>1, <2>2, <2>3
<1>11. ASSUME NEW b \in Builds, BhyveCleanup(b) PROVE HostTypeOK'
  BY <1>11, ConfFacts DEF BhyveCleanup, Places
<1>12. ASSUME NEW b \in Builds, VNCCleanup(b) PROVE HostTypeOK'
  <2>1. pc' = [pc EXCEPT ![b] = "unVNIC"] /\ pc[b] = "unVNC"  BY <1>12 DEF VNCCleanup
  <2>2. locks' = [p \in Ports |-> IF p = port[b] THEN NoBuild ELSE locks[p]]
    BY <1>12 DEF VNCCleanup
  <2>3. UNCHANGED <<failed, port, again, dirBy, inDir, zvolBy, vnicBy, vmBy, taken>>
    BY <1>12 DEF VNCCleanup
  <2>4. "unVNIC" \in Places  BY DEF Places
  <2>5. locks[port[b]] \in Builds \cup {NoBuild} \/ port[b] = NoPort  OBVIOUS
  <2> HIDE DEF Places
  <2>6. ASSUME NEW p \in Ports, NEW c \in Builds, locks'[p] = c
        PROVE  port'[c] = p /\ pc'[c] \in {"bhyve", "run", "image", "unBhyve", "unVNC"}
    <3>1. locks[p] = c /\ p # port[b]  BY <2>2, <2>6
    <3>2. port[c] = p /\ c # b  BY <3>1
    <3> QED  BY <3>1, <3>2, <2>1, <2>3
  <2> QED  BY <2>1, <2>2, <2>3, <2>4, <2>6
<1>13. ASSUME NEW b \in Builds, VNICCleanup(b) PROVE HostTypeOK'
  BY <1>13, ConfFacts DEF VNICCleanup, Places
<1>14. ASSUME NEW b \in Builds, ZvolCleanup(b) PROVE HostTypeOK'
  BY <1>14, ConfFacts DEF ZvolCleanup, Places
<1>15. ASSUME NEW b \in Builds, OutputDirCleanup(b) PROVE HostTypeOK'
  BY <1>15, ConfFacts DEF OutputDirCleanup, RemoveDir, Places
<1>16. ASSUME NEW b \in Builds, Release(b) PROVE HostTypeOK'
  BY <1>16, ConfFacts DEF Release, RemoveDir, Places, Inactive
<1>17. ASSUME NEW b \in Builds, GuestExit(b) PROVE HostTypeOK'
  <2>1. vmBy' \in [Names -> Builds \cup {NoBuild}]  BY <1>17, ConfFacts DEF GuestExit
  <2>2. again' \in [Builds -> BOOLEAN]
    <3>1. PICK reboots \in {FALSE, Active(b)} : again' = [again EXCEPT ![b] = reboots]
      BY <1>17 DEF GuestExit
    <3>2. Active(b) \in BOOLEAN  BY DEF Active
    <3>3. reboots \in BOOLEAN  BY <3>1, <3>2
    <3> QED  BY <3>1, <3>3
  <2>3. UNCHANGED <<pc, failed, port, dirBy, inDir, zvolBy, vnicBy, locks, taken>>
    BY <1>17 DEF GuestExit
  <2> HIDE DEF Places
  <2> QED  BY <2>1, <2>2, <2>3
<1>18. ASSUME NEW b \in Builds, Reboot(b) PROVE HostTypeOK'
  <2>1. vmBy' \in [Names -> Builds \cup {NoBuild}]  BY <1>18, ConfFacts DEF Reboot, Boots
  <2>2. again' \in [Builds -> BOOLEAN]  BY <1>18 DEF Reboot
  <2>3. UNCHANGED <<pc, failed, port, dirBy, inDir, zvolBy, vnicBy, locks, taken>>
    BY <1>18 DEF Reboot
  <2> HIDE DEF Places
  <2> QED  BY <2>1, <2>2, <2>3
<1>19. CASE Outsider
  <2>1. taken' \in SUBSET Outsiders  BY <1>19 DEF Outsider
  <2>2. UNCHANGED <<pc, failed, port, again, dirBy, inDir, zvolBy, vnicBy, vmBy, locks>>
    BY <1>19 DEF Outsider
  <2> HIDE DEF Places
  <2> QED  BY <2>1, <2>2
<1>20. CASE UNCHANGED hostVars
  <2> HIDE DEF Places
  <2> QED  BY <1>20 DEF hostVars
<1> QED
  BY <1>1, <1>2, <1>3, <1>4, <1>5, <1>6, <1>7, <1>8, <1>9, <1>10, <1>11, <1>12,
     <1>13, <1>14, <1>15, <1>16, <1>17, <1>18, <1>19, <1>20
  DEF HostNext, Run, Cleanup

\* A build has the lock of the port it has found.
LEMMA PortStep == HostInv /\ [HostNext]_hostVars => PortInv'
<1> SUFFICES ASSUME HostInv, [HostNext]_hostVars PROVE PortInv'
  OBVIOUS
<1> USE NotABuild DEF HostInv
<1>1. pc \in [Builds -> Places] /\ port \in [Builds -> Ports \cup {NoPort}]
      /\ locks \in [Ports -> Builds \cup {NoBuild}]
  BY DEF HostTypeOK
<1>2. CASE UNCHANGED <<places, vnc>>  BY <1>2 DEF PortInv, places, vnc
<1>3. ASSUME NEW b \in Builds, BuildStep(b) PROVE PortInv'
  <2>1. PICK place \in Way[pc[b]] : pc[b] \in DOMAIN Way /\ pc' = [pc EXCEPT ![b] = place]
    BY <1>1, <1>3, WayTaken, Zenon
  <2>2. CASE VNCRun(b)
    <3>1. pc[b] = "vnc" /\ pc' = [pc EXCEPT ![b] = "bhyve"]  BY <2>2 DEF VNCRun, Goto
    <3>2. PICK p \in Ports : /\ locks[p] = NoBuild /\ port' = [port EXCEPT ![b] = p]
                             /\ locks' = [locks EXCEPT ![p] = b]
      BY <2>2, ConfFacts DEF VNCRun
    <3> QED  BY <1>1, <3>1, <3>2 DEF PortInv
  <2>3. CASE VNCCleanup(b)
    <3>1. pc[b] = "unVNC" /\ pc' = [pc EXCEPT ![b] = "unVNIC"] /\ port' = port
      BY <2>3 DEF VNCCleanup, Goto
    <3>2. locks' = [p \in Ports |-> IF p = port[b] THEN NoBuild ELSE locks[p]]
      BY <2>3 DEF VNCCleanup
    <3>3. ASSUME NEW c \in Builds \ {b}, port[c] # NoPort, locks[port[c]] = c
          PROVE  locks'[port[c]] = c
      <4>1. port[b] = NoPort \/ locks[port[b]] = b  BY <3>1 DEF PortInv
      <4>2. port[c] # port[b] /\ port[c] \in Ports  BY <1>1, <3>3, <4>1
      <4> QED  BY <3>2, <3>3, <4>2
    <3> QED  BY <1>1, <3>1, <3>3 DEF PortInv
  <2>4. CASE ~VNCRun(b) /\ ~VNCCleanup(b)
    <3>1. UNCHANGED vnc  BY <1>3, <2>4, VNCUntouched
    <3>2. pc[b] = "vnc" => place # "bhyve"
      <4> SUFFICES ASSUME pc[b] = "vnc" PROVE pc'[b] # "bhyve"
        BY <1>1, <2>1
      <4>1. Halt(b) \/ Interrupt(b)
        BY <1>3, <2>4 DEF BuildStep, Prepare, Run, Cleanup, OutputDirRun, ZvolRun,
           DiskRun, VNICRun, BhyveRun, Shutdown, ImageRun, BhyveCleanup, VNICCleanup,
           ZvolCleanup, OutputDirCleanup, Release
      <4>2. Interrupt(b)  BY <4>1 DEF Halt
      <4> QED  BY <1>1, <4>2, UndoFacts DEF Interrupt, Fail
    <3> QED  BY <1>1, <2>1, <3>1, <3>2 DEF PortInv, vnc, Way
  <2> QED  BY <2>2, <2>3, <2>4
<1> QED  BY <1>2, <1>3, StepKinds

\* The steps that do nothing to a thing.
LEMMA ThingsUntouched ==
  ASSUME NEW b \in Builds,
         Prepare(b) \/ Halt(b) \/ Interrupt(b) \/ VNCRun(b) \/ VNCCleanup(b) \/ Shutdown(b)
  PROVE  UNCHANGED things
BY DEF Prepare, Halt, Interrupt, VNCRun, VNCCleanup, Shutdown

\* What a step of a build does to the things of each kind.
LEMMA DirStep ==
  ASSUME NEW b \in Builds, BuildStep(b) \/ GuestExit(b) \/ Reboot(b)
  PROVE  \/ UNCHANGED <<dirBy, inDir>>
         \/ OutputDirRun(b) \/ DiskRun(b) \/ ImageRun(b) \/ OutputDirCleanup(b) \/ Release(b)
BY ThingsUntouched DEF BuildStep, Run, Cleanup, ZvolRun, VNICRun, BhyveRun, BhyveCleanup,
   VNICCleanup, ZvolCleanup, GuestExit, Reboot, things

LEMMA ZvolStep ==
  ASSUME NEW b \in Builds, BuildStep(b) \/ GuestExit(b) \/ Reboot(b)
  PROVE  UNCHANGED zvolBy \/ ZvolRun(b) \/ ZvolCleanup(b)
BY ThingsUntouched DEF BuildStep, Run, Cleanup, OutputDirRun, DiskRun, VNICRun, BhyveRun,
   ImageRun, BhyveCleanup, VNICCleanup, OutputDirCleanup, Release, GuestExit, Reboot, things

LEMMA VNICStep ==
  ASSUME NEW b \in Builds, BuildStep(b) \/ GuestExit(b) \/ Reboot(b)
  PROVE  UNCHANGED vnicBy \/ VNICRun(b) \/ VNICCleanup(b)
BY ThingsUntouched DEF BuildStep, Run, Cleanup, OutputDirRun, ZvolRun, DiskRun, BhyveRun,
   ImageRun, BhyveCleanup, ZvolCleanup, OutputDirCleanup, Release, GuestExit, Reboot, things

LEMMA VMStep ==
  ASSUME NEW b \in Builds, BuildStep(b) \/ GuestExit(b) \/ Reboot(b)
  PROVE  UNCHANGED vmBy \/ BhyveRun(b) \/ BhyveCleanup(b) \/ GuestExit(b) \/ Reboot(b)
BY ThingsUntouched DEF BuildStep, Run, Cleanup, OutputDirRun, ZvolRun, DiskRun, VNICRun,
   ImageRun, VNICCleanup, ZvolCleanup, OutputDirCleanup, Release, things

LEMMA SomebodysStep ==
  ASSUME [HostNext]_hostVars
  PROVE  \/ \E b \in Builds : BuildStep(b) \/ GuestExit(b) \/ Reboot(b)
         \/ UNCHANGED <<places, things, vnc>>
BY DEF HostNext, BuildStep, Outsider, hostVars

\* A thing of a name was made by a build of that name.
LEMMA NameStep == HostInv /\ [HostNext]_hostVars => NameInv'
<1> SUFFICES ASSUME HostInv, [HostNext]_hostVars PROVE NameInv'
  OBVIOUS
<1> USE NotABuild DEF HostInv
<1>1. CASE UNCHANGED <<places, things, vnc>>  BY <1>1 DEF NameInv, things
<1>2. ASSUME NEW b \in Builds, BuildStep(b) \/ GuestExit(b) \/ Reboot(b) PROVE NameInv'
  <2> SUFFICES ASSUME NEW n \in Names, NEW c \in Builds
               PROVE  /\ dirBy'[n] = c \/ c \in inDir'[n] => Conf[c].out = n
                      /\ zvolBy'[n] = c => Conf[c].disk = n
                      /\ vnicBy'[n] = c => Conf[c].vnic = n
                      /\ vmBy'[n] = c => Conf[c].vm = n
    BY DEF NameInv
  <2>1. /\ dirBy[n] = c \/ c \in inDir[n] => Conf[c].out = n
        /\ zvolBy[n] = c => Conf[c].disk = n
        /\ vnicBy[n] = c => Conf[c].vnic = n
        /\ vmBy[n] = c => Conf[c].vm = n
    BY DEF NameInv
  <2>2. dirBy'[n] = c \/ c \in inDir'[n] => Conf[c].out = n
    BY <1>2, <2>1, DirStep, ConfFacts
    DEF HostTypeOK, OutputDirRun, DiskRun, ImageRun, Written, OutputDirCleanup, Release, RemoveDir
  <2>3. zvolBy'[n] = c => Conf[c].disk = n
    BY <1>2, <2>1, ZvolStep, ConfFacts DEF HostTypeOK, ZvolRun, ZvolCleanup
  <2>4. vnicBy'[n] = c => Conf[c].vnic = n
    BY <1>2, <2>1, VNICStep, ConfFacts DEF HostTypeOK, VNICRun, VNICCleanup
  <2>5. vmBy'[n] = c => Conf[c].vm = n
    BY <1>2, <2>1, VMStep, ConfFacts DEF HostTypeOK, BhyveRun, BhyveCleanup, GuestExit, Reboot, Boots
  <2> QED  BY <2>2, <2>3, <2>4, <2>5
<1> QED  BY <1>1, <1>2, SomebodysStep

\* Builds that share a name are not active together.
LEMMA SerialStep == HostInv /\ [HostNext]_hostVars /\ Serial => SerialInv'
<1> SUFFICES ASSUME HostInv, [HostNext]_hostVars, Serial PROVE SerialInv'
  OBVIOUS
<1>1. pc \in [Builds -> Places] /\ SerialInv  BY DEF HostInv, HostTypeOK
<1>2. CASE UNCHANGED <<places, vnc>>  BY <1>1, <1>2 DEF SerialInv, Active, places
<1>3. ASSUME NEW b \in Builds, BuildStep(b) PROVE SerialInv'
  <2>1. PICK place \in Way[pc[b]] : pc[b] \in DOMAIN Way /\ pc' = [pc EXCEPT ![b] = place]
    BY <1>1, <1>3, WayTaken, Zenon
  <2>2. \A c \in Builds : SharesName(b, c) <=> SharesName(c, b)  BY DEF SharesName
  <2>3. CASE pc[b] = "template"
    <3>1. Prepare(b)
      BY <1>3, <2>3, UndoFacts DEF BuildStep, Run, Cleanup, Halt, Interrupt, OutputDirRun,
         ZvolRun, DiskRun, VNICRun, VNCRun, BhyveRun, Shutdown, ImageRun, BhyveCleanup,
         VNCCleanup, VNICCleanup, ZvolCleanup, OutputDirCleanup, Release
    <3>2. \A c \in Builds : SharesName(b, c) => ~Active(c)  BY <3>1 DEF Prepare
    <3>3. \A c \in Builds \ {b} : pc'[c] = pc[c]  BY <1>1, <2>1
    <3>4. ~SharesName(b, b)  BY DEF SharesName
    <3> HIDE DEF SharesName
    <3> QED  BY <1>1, <2>2, <3>2, <3>3, <3>4 DEF SerialInv, Active
  <2>4. CASE pc[b] # "template"
    <3>1. Active(b)  BY <2>1, <2>4 DEF Active, Inactive, Way
    <3>2. \A c \in Builds : Active(c)' => Active(c)  BY <1>1, <2>1, <3>1 DEF Active
    <3> HIDE DEF SharesName
    <3> QED  BY <1>1, <3>2 DEF SerialInv
  <2> QED  BY <2>3, <2>4
<1> QED  BY <1>2, <1>3, StepKinds

\* Nothing is in a directory that is not there, nor of another build in that of
\* a build that is not forced.
LEMMA OutputStep == HostInv /\ [HostNext]_hostVars => OutputInv'
<1> SUFFICES ASSUME HostInv, [HostNext]_hostVars PROVE OutputInv'
  OBVIOUS
<1> USE NotABuild DEF HostInv
<1>1. CASE UNCHANGED <<places, things, vnc>>
  BY <1>1 DEF OutputInv, things, places, Active
<1>2. ASSUME NEW b \in Builds, BuildStep(b) \/ GuestExit(b) \/ Reboot(b) PROVE OutputInv'
  <2>1. ASSUME NEW d \in Names, dirBy'[d] = NoBuild PROVE inDir'[d] = {}
    <3>1. dirBy[d] = NoBuild => inDir[d] = {}  BY DEF OutputInv
    <3> QED
      BY <1>2, <2>1, <3>1, DirStep, ConfFacts
      DEF HostTypeOK, OutputDirRun, DiskRun, ImageRun, Written, OutputDirCleanup, Release, RemoveDir
  <2>2. ASSUME Serial, NEW c \in Builds, Active(c)', ~Conf[c].force
        PROVE  inDir'[Conf[c].out] \subseteq {c}
    <3>1. CASE Active(c)
      <4>1. inDir[Conf[c].out] \subseteq {c}  BY <2>2, <3>1 DEF OutputInv
      <4>2. CASE DiskRun(b) \/ ImageRun(b)
        <5>1. Active(b)  BY <4>2 DEF DiskRun, ImageRun, Active, Inactive
        <5>2. c = b \/ Conf[c].out # Conf[b].out
          BY <2>2, <3>1, <5>1 DEF SerialInv, SharesName
        <5>3. inDir' = [inDir EXCEPT ![Conf[b].out] = {e \in @ : File(e) # File(b)} \cup {b}]
          BY <4>2 DEF DiskRun, ImageRun, Written
        <5> QED  BY <4>1, <5>2, <5>3, ConfFacts DEF HostTypeOK
      <4>3. CASE UNCHANGED <<dirBy, inDir>>  BY <4>1, <4>3
      <4>4. CASE OutputDirRun(b) \/ OutputDirCleanup(b) \/ Release(b)
        BY <4>1, <4>4, ConfFacts
        DEF HostTypeOK, OutputDirRun, OutputDirCleanup, Release, RemoveDir
      <4> QED  BY <1>2, <4>2, <4>3, <4>4, DirStep
    <3>2. CASE ~Active(c)
      <4>1. pc \in [Builds -> Places]  BY DEF HostTypeOK
      <4>2. BuildStep(b)  BY <1>2, <2>2, <3>2 DEF GuestExit, Reboot, places, Active
      <4>3. PICK place \in Way[pc[b]] : pc[b] \in DOMAIN Way /\ pc' = [pc EXCEPT ![b] = place]
        BY <4>1, <4>2, WayTaken, Zenon
      <4>4. c = b /\ pc[b] = "template"
        BY <2>2, <3>2, <4>1, <4>3 DEF Active, Inactive, Way
      <4>5. Prepare(b) /\ pc'[b] # "refused"
        BY <2>2, <4>2, <4>4, UndoFacts DEF BuildStep, Run, Cleanup, Halt, Interrupt,
           OutputDirRun, ZvolRun, DiskRun, VNICRun, VNCRun, BhyveRun, Shutdown, ImageRun,
           BhyveCleanup, VNCCleanup, VNICCleanup, ZvolCleanup, OutputDirCleanup, Release,
           Active, Inactive
      <4>6. dirBy[Conf[b].out] = NoBuild /\ UNCHANGED inDir
        BY <2>2, <4>1, <4>4, <4>5 DEF Prepare, Goto, things
      <4>7. inDir[Conf[c].out] = {}  BY <4>4, <4>6, ConfFacts DEF OutputInv
      <4> QED  BY <4>6, <4>7
    <3> QED  BY <3>1, <3>2
  <2> QED  BY <2>1, <2>2 DEF OutputInv
<1> QED  BY <1>1, <1>2, SomebodysStep

\* What a build has made is there until it removes it.
LEMMA MadeStep == HostInv /\ [HostNext]_hostVars /\ Serial => MadeInv'
<1> SUFFICES ASSUME HostInv, [HostNext]_hostVars, Serial PROVE MadeInv'
  OBVIOUS
<1> USE NotABuild DEF HostInv
<1>1. pc \in [Builds -> Places] /\ zvolBy \in [Names -> Builds \cup {NoBuild}]
      /\ vnicBy \in [Names -> Builds \cup {NoBuild}]
  BY DEF HostTypeOK
<1>2. CASE UNCHANGED <<places, things>>  BY <1>2 DEF MadeInv, things, places
<1>3. ASSUME NEW b \in Builds, GuestExit(b) \/ Reboot(b) PROVE MadeInv'
  BY <1>3 DEF MadeInv, GuestExit, Reboot, places
<1>4. ASSUME NEW b \in Builds, BuildStep(b) PROVE MadeInv'
  <2>1. PICK place \in Way[pc[b]] : pc[b] \in DOMAIN Way /\ pc' = [pc EXCEPT ![b] = place]
    BY <1>1, <1>4, WayTaken, Zenon
  <2>2. ASSUME NEW c \in Builds,
               pc'[c] \in {"vnc", "bhyve", "run", "image", "unBhyve", "unVNC"}
        PROVE  vnicBy'[Conf[c].vnic] = c
    <3>1. CASE VNICRun(b)
      BY <1>1, <2>2, <3>1, ConfFacts DEF MadeInv, VNICRun, Goto
    <3>2. CASE ~VNICRun(b)
      <4>1. pc[c] \in {"vnc", "bhyve", "run", "image", "unBhyve", "unVNC"}
        <5>1. CASE c # b  BY <1>1, <2>1, <2>2, <5>1
        <5>2. CASE c = b /\ pc[b] # "vnic"  BY <1>1, <2>1, <2>2, <5>2 DEF Way
        <5>3. CASE c = b /\ pc[b] = "vnic"
          <6>1. Halt(b) \/ Interrupt(b)
            BY <1>4, <3>2, <5>3 DEF BuildStep, Prepare, Run, Cleanup, OutputDirRun, ZvolRun,
               DiskRun, VNCRun, BhyveRun, Shutdown, ImageRun, BhyveCleanup, VNCCleanup,
               VNICCleanup, ZvolCleanup, OutputDirCleanup, Release
          <6> QED  BY <1>1, <2>2, <5>3, <6>1, UndoFacts DEF Halt, Interrupt, Fail
        <5> QED  BY <5>1, <5>2, <5>3
      <4>2. vnicBy[Conf[c].vnic] = c  BY <4>1 DEF MadeInv
      <4>3. CASE VNICCleanup(b)
        <5>1. pc[b] = "unVNIC" /\ pc'[b] = "unDisk"  BY <1>1, <4>3 DEF VNICCleanup, Goto
        <5>2. Active(b) /\ Active(c) /\ c # b
          BY <2>2, <4>1, <5>1 DEF Active, Inactive
        <5>3. Conf[c].vnic # Conf[b].vnic  BY <5>2 DEF SerialInv, SharesName
        <5> QED  BY <1>1, <4>2, <4>3, <5>3, ConfFacts DEF VNICCleanup
      <4> QED  BY <1>4, <3>2, <4>2, <4>3, VNICStep
    <3> QED  BY <3>1, <3>2
  <2>3. ASSUME NEW c \in Builds, Conf[c].zvol,
               pc'[c] \in {"vnic", "vnc", "bhyve", "run", "image", "unBhyve", "unVNC", "unVNIC"}
        PROVE  zvolBy'[Conf[c].disk] = c
    <3>1. CASE ZvolRun(b)
      BY <1>1, <2>3, <3>1, ConfFacts DEF MadeInv, ZvolRun, Goto
    <3>2. CASE ~ZvolRun(b)
      <4>1. pc[c] \in {"vnic", "vnc", "bhyve", "run", "image", "unBhyve", "unVNC", "unVNIC"}
        <5>1. CASE c # b  BY <1>1, <2>1, <2>3, <5>1
        <5>2. CASE c = b /\ pc[b] # "disk"  BY <1>1, <2>1, <2>3, <5>2 DEF Way
        <5>3. CASE c = b /\ pc[b] = "disk"
          <6>1. Halt(b) \/ Interrupt(b)
            BY <1>4, <2>3, <3>2, <5>3 DEF BuildStep, Prepare, Run, Cleanup, OutputDirRun,
               DiskRun, VNICRun, VNCRun, BhyveRun, Shutdown, ImageRun, BhyveCleanup,
               VNCCleanup, VNICCleanup, ZvolCleanup, OutputDirCleanup, Release
          <6> QED  BY <1>1, <2>3, <5>3, <6>1, UndoFacts DEF Halt, Interrupt, Fail
        <5> QED  BY <5>1, <5>2, <5>3
      <4>2. zvolBy[Conf[c].disk] = c  BY <2>3, <4>1 DEF MadeInv
      <4>3. CASE ZvolCleanup(b)
        <5>1. pc[b] = "unDisk" /\ pc'[b] = "unOutDir"  BY <1>1, <4>3 DEF ZvolCleanup, Goto
        <5>2. Active(b) /\ Active(c) /\ c # b
          BY <2>3, <4>1, <5>1 DEF Active, Inactive
        <5>3. Conf[c].disk # Conf[b].disk  BY <5>2 DEF SerialInv, SharesName
        <5> QED  BY <1>1, <4>2, <4>3, <5>3, ConfFacts DEF ZvolCleanup
      <4> QED  BY <1>4, <3>2, <4>2, <4>3, ZvolStep
    <3> QED  BY <3>1, <3>2
  <2> QED  BY <2>2, <2>3 DEF MadeInv
<1> QED  BY <1>2, <1>3, <1>4, SomebodysStep

-----------------------------------------------------------------------------
(* The theorems.                                                            *)

\* The inductive invariant: types and locks, what each build has made and under
\* which name, and, for builds that run one after the other, that it is there
\* until its maker removes it.
THEOREM HostInvariant == HostSpec => []HostInv
<1>1. HostInit => HostInv  BY HostInitInv
<1>2. HostInv /\ [HostNext]_hostVars => HostInv'
  <2> SUFFICES ASSUME HostInv, [HostNext]_hostVars PROVE HostInv'
    OBVIOUS
  <2>1. HostTypeOK' /\ PortInv' /\ NameInv' /\ OutputInv'
    BY TypeStep, PortStep, NameStep, OutputStep
  <2>2. Serial => SerialInv' /\ MadeInv'  BY SerialStep, MadeStep
  <2> QED  BY <2>1, <2>2 DEF HostInv
<1> QED  BY <1>1, <1>2, PTL DEF HostSpec

\* Type correctness: also, that who holds a lock file has that port, and is at
\* a step or cleanup that is to give it back.
THEOREM HostTypeCorrect == HostSpec => []HostTypeOK
<1>1. HostInv => HostTypeOK  BY DEF HostInv
<1> QED  BY <1>1, HostInvariant, PTL

\* Two builds never boot on one port (step_configure_vnc.go:50-72), however
\* many run in parallel and whatever names they share.
THEOREM PortsHeld == HostSpec => []PortHeld
<1>1. HostInv => PortHeld
  <2> SUFFICES ASSUME HostInv, NEW b \in Builds,
                      pc[b] \in {"bhyve", "run", "image", "unBhyve"}
               PROVE  /\ port[b] # NoPort /\ locks[port[b]] = b
                      /\ \A c \in Builds \ {b} : Up(c) /\ port[c] = port[b] => Escaped(c)
    BY DEF PortHeld
  <2>1. port[b] # NoPort /\ locks[port[b]] = b  BY DEF HostInv, PortInv
  <2>2. ASSUME NEW c \in Builds \ {b}, Up(c), port[c] = port[b], ~Escaped(c) PROVE FALSE
    <3>1. pc[c] \in {"run", "image", "unBhyve"}  BY <2>2 DEF Escaped
    <3>2. locks[port[c]] = c  BY <3>1 DEF HostInv, PortInv
    <3> QED  BY <2>1, <2>2, <3>2
  <2> QED  BY <2>1, <2>2
<1> QED  BY <1>1, HostInvariant, PTL

\* A VM that has not escaped runs on the VNIC and the zvol of its own build
\* (step_create_vnic.go:20-44, step_create_zvol.go:18-46), if builds that share
\* a name run one after the other.
THEOREM OwnVNICAndZvol ==
  ASSUME Serial PROVE HostSpec => []VMUsesItsOwn
<1>1. HostInv => VMUsesItsOwn  BY DEF HostInv, MadeInv, VMUsesItsOwn, Escaped
<1> QED  BY <1>1, HostInvariant, PTL

\* Output is removed or overwritten by its own build, or by a forced one
\* (config.go:167-173), if builds that share a name run one after the other.
THEOREM OutputSafe ==
  ASSUME Serial PROVE HostSpec => OutputIsSafe
<1>1. HostInv /\ [HostNext]_hostVars =>
        [\A d \in Names : \A c \in inDir[d] \ inDir'[d] :
           Active(c) \/ \E b \in Builds : Active(b) /\ Conf[b].force /\ Conf[b].out = d]_hostVars
  <2> SUFFICES ASSUME HostInv, [HostNext]_hostVars,
                      NEW d \in Names, NEW c \in inDir[d] \ inDir'[d]
               PROVE  \/ Active(c)
                      \/ \E b \in Builds : Active(b) /\ Conf[b].force /\ Conf[b].out = d
    OBVIOUS
  <2>1. CASE UNCHANGED <<places, things, vnc>>  BY <2>1 DEF things
  <2>2. ASSUME NEW b \in Builds, BuildStep(b) \/ GuestExit(b) \/ Reboot(b)
        PROVE  \/ Active(c)
               \/ \E e \in Builds : Active(e) /\ Conf[e].force /\ Conf[e].out = d
    <3>1. \/ OutputDirRun(b) \/ DiskRun(b) \/ ImageRun(b)
          \/ OutputDirCleanup(b) \/ Release(b)
      BY <2>2, DirStep
    <3>2. Active(b)
      BY <3>1 DEF OutputDirRun, DiskRun, ImageRun, OutputDirCleanup, Release, Active, Inactive
    <3>3. Conf[b].out = d
      BY <3>1, ConfFacts DEF HostInv, HostTypeOK, OutputDirRun, DiskRun, ImageRun, Written,
         OutputDirCleanup, Release, RemoveDir
    <3>4. CASE Conf[b].force  BY <3>2, <3>3, <3>4
    <3>5. CASE ~Conf[b].force
      <4>1. inDir[d] \subseteq {b}  BY <3>2, <3>3, <3>5 DEF HostInv, OutputInv
      <4> QED  BY <3>2, <4>1
    <3> QED  BY <3>4, <3>5
  <2> QED  BY <2>1, <2>2, SomebodysStep
<1> QED  BY <1>1, HostInvariant, PTL DEF HostSpec, OutputIsSafe

-----------------------------------------------------------------------------
(* The builds implement Ownership.                                          *)

LEMMA MakerFacts ==
  /\ \A n \in Names :
       /\ Maker(<<"dir", n>>) = dirBy[n] /\ Maker(<<"dir", n>>)' = dirBy'[n]
       /\ Maker(<<"zvol", n>>) = zvolBy[n] /\ Maker(<<"zvol", n>>)' = zvolBy'[n]
       /\ Maker(<<"vnic", n>>) = vnicBy[n] /\ Maker(<<"vnic", n>>)' = vnicBy'[n]
       /\ Maker(<<"vm", n>>) = vmBy[n] /\ Maker(<<"vm", n>>)' = vmBy'[n]
  /\ \A p \in Ports : Maker(<<"lock", p>>) = locks[p] /\ Maker(<<"lock", p>>)' = locks'[p]
BY DEF Maker

LEMMA ThingKinds ==
  ASSUME NEW t \in Things
  PROVE  \/ \E n \in Names : t \in {<<"dir", n>>, <<"zvol", n>>, <<"vnic", n>>}
         \/ \E n \in Names : t = <<"vm", n>> /\ t \in Restless
         \/ \E p \in Ports : t = <<"lock", p>>
BY DEF Things, Restless

\* Who may be relieved of a thing by b: nobody, b, or a build that is over.
Yields(m, b) == m \in {b, NoBuild} \/ (m \in Builds /\ ~Active(m))

\* Only such makers are followed by another in a step of b.
LEMMA MakersYield ==
  ASSUME HostInv, Serial, NEW b \in Builds, BuildStep(b) \/ GuestExit(b) \/ Reboot(b),
         NEW t \in Things
  PROVE  \/ Maker(t)' = Maker(t)
         \/ /\ Yields(Maker(t), b) /\ Maker(t)' \in {b, NoBuild}
            /\ t \in Restless \/ BuildStep(b)
<1> USE NotABuild
<1>1. HostTypeOK /\ PortInv /\ NameInv /\ SerialInv  BY DEF HostInv
<1>2. ASSUME NEW n \in Names, t = <<"dir", n>>, dirBy'[n] # dirBy[n]
      PROVE  Yields(dirBy[n], b) /\ dirBy'[n] \in {b, NoBuild} /\ BuildStep(b)
  <2>1. OutputDirRun(b) \/ OutputDirCleanup(b) \/ Release(b)
    BY <1>2, DirStep DEF DiskRun, ImageRun
  <2>2. BuildStep(b)  BY <2>1 DEF BuildStep, Run, Cleanup
  <2>3. Active(b)  BY <2>1 DEF OutputDirRun, OutputDirCleanup, Release, Active, Inactive
  <2>4. n = Conf[b].out /\ dirBy'[n] \in {b, NoBuild}
    BY <1>1, <1>2, <2>1, ConfFacts
    DEF HostTypeOK, OutputDirRun, OutputDirCleanup, Release, RemoveDir
  <2>5. dirBy[n] \in {b, NoBuild} \/ (dirBy[n] \in Builds /\ SharesName(b, dirBy[n]))
    BY <1>1, <1>2, <2>4 DEF HostTypeOK, NameInv, SharesName
  <2> HIDE DEF SharesName
  <2> QED  BY <1>1, <2>2, <2>3, <2>4, <2>5 DEF SerialInv, Yields
<1>3. ASSUME NEW n \in Names, t = <<"zvol", n>>, zvolBy'[n] # zvolBy[n]
      PROVE  Yields(zvolBy[n], b) /\ zvolBy'[n] \in {b, NoBuild} /\ BuildStep(b)
  <2>1. ZvolRun(b) \/ ZvolCleanup(b)  BY <1>3, ZvolStep
  <2>2. BuildStep(b)  BY <2>1 DEF BuildStep, Run, Cleanup
  <2>3. Active(b)  BY <2>1 DEF ZvolRun, ZvolCleanup, Active, Inactive
  <2>4. n = Conf[b].disk /\ zvolBy'[n] \in {b, NoBuild}
    BY <1>1, <1>3, <2>1, ConfFacts DEF HostTypeOK, ZvolRun, ZvolCleanup
  <2>5. zvolBy[n] \in {b, NoBuild} \/ (zvolBy[n] \in Builds /\ SharesName(b, zvolBy[n]))
    BY <1>1, <1>3, <2>4 DEF HostTypeOK, NameInv, SharesName
  <2> HIDE DEF SharesName
  <2> QED  BY <1>1, <2>2, <2>3, <2>4, <2>5 DEF SerialInv, Yields
<1>4. ASSUME NEW n \in Names, t = <<"vnic", n>>, vnicBy'[n] # vnicBy[n]
      PROVE  Yields(vnicBy[n], b) /\ vnicBy'[n] \in {b, NoBuild} /\ BuildStep(b)
  <2>1. VNICRun(b) \/ VNICCleanup(b)  BY <1>4, VNICStep
  <2>2. BuildStep(b)  BY <2>1 DEF BuildStep, Run, Cleanup
  <2>3. Active(b)  BY <2>1 DEF VNICRun, VNICCleanup, Active, Inactive
  <2>4. n = Conf[b].vnic /\ vnicBy'[n] \in {b, NoBuild}
    BY <1>1, <1>4, <2>1, ConfFacts DEF HostTypeOK, VNICRun, VNICCleanup
  <2>5. vnicBy[n] \in {b, NoBuild} \/ (vnicBy[n] \in Builds /\ SharesName(b, vnicBy[n]))
    BY <1>1, <1>4, <2>4 DEF HostTypeOK, NameInv, SharesName
  <2> HIDE DEF SharesName
  <2> QED  BY <1>1, <2>2, <2>3, <2>4, <2>5 DEF SerialInv, Yields
<1>5. ASSUME NEW n \in Names, t = <<"vm", n>>, vmBy'[n] # vmBy[n]
      PROVE  Yields(vmBy[n], b) /\ vmBy'[n] \in {b, NoBuild}
  <2>1. BhyveRun(b) \/ BhyveCleanup(b) \/ GuestExit(b) \/ Reboot(b)  BY <1>5, VMStep
  <2>2. n = Conf[b].vm /\ vmBy'[n] \in {b, NoBuild}
    BY <1>1, <1>5, <2>1, ConfFacts
    DEF HostTypeOK, BhyveRun, BhyveCleanup, GuestExit, Reboot, Boots
  <2>3. CASE BhyveRun(b) \/ GuestExit(b) \/ Reboot(b)
    <3>1. vmBy[n] \in {b, NoBuild}
      BY <1>5, <2>2, <2>3 DEF BhyveRun, GuestExit, Reboot, CanBoot, Up
    <3> QED  BY <2>2, <3>1 DEF Yields
  <2>4. CASE BhyveCleanup(b)
    <3>1. Active(b)  BY <2>4 DEF BhyveCleanup, Active, Inactive
    <3>2. vmBy[n] \in {b, NoBuild} \/ (vmBy[n] \in Builds /\ SharesName(b, vmBy[n]))
      BY <1>1, <1>5, <2>2 DEF HostTypeOK, NameInv, SharesName
    <3> HIDE DEF SharesName
    <3> QED  BY <1>1, <2>2, <3>1, <3>2 DEF SerialInv, Yields
  <2> QED  BY <2>1, <2>3, <2>4
<1>6. ASSUME NEW p \in Ports, t = <<"lock", p>>, locks'[p] # locks[p]
      PROVE  Yields(locks[p], b) /\ locks'[p] \in {b, NoBuild} /\ BuildStep(b)
  <2>1. VNCRun(b) \/ VNCCleanup(b)
    BY <1>6, VNCUntouched DEF vnc, GuestExit, Reboot
  <2>2. BuildStep(b)  BY <2>1 DEF BuildStep, Run, Cleanup
  <2>3. CASE VNCRun(b)
    <3>1. locks[p] = NoBuild /\ locks'[p] = b
      BY <1>1, <1>6, <2>3, ConfFacts DEF VNCRun, HostTypeOK
    <3> QED  BY <2>2, <3>1 DEF Yields
  <2>4. CASE VNCCleanup(b)
    <3>1. p = port[b] /\ locks'[p] = NoBuild /\ pc[b] = "unVNC"
      BY <1>6, <2>4 DEF VNCCleanup
    <3>2. locks[p] = b  BY <1>1, <3>1 DEF PortInv
    <3> QED  BY <2>2, <3>1, <3>2 DEF Yields
  <2> QED  BY <2>1, <2>3, <2>4
<1>7. CASE \E n \in Names : t \in {<<"dir", n>>, <<"zvol", n>>, <<"vnic", n>>}
  <2>1. PICK n \in Names : t \in {<<"dir", n>>, <<"zvol", n>>, <<"vnic", n>>}
    BY <1>7
  <2>2. CASE t = <<"dir", n>>  BY <1>2, <2>2, MakerFacts
  <2>3. CASE t = <<"zvol", n>>  BY <1>3, <2>3, MakerFacts
  <2>4. CASE t = <<"vnic", n>>  BY <1>4, <2>4, MakerFacts
  <2> QED  BY <2>1, <2>2, <2>3, <2>4
<1>8. CASE \E n \in Names : t = <<"vm", n>> /\ t \in Restless
  BY <1>5, <1>8, MakerFacts
<1>9. CASE \E p \in Ports : t = <<"lock", p>>
  BY <1>6, <1>9, MakerFacts
<1> QED  BY <1>7, <1>8, <1>9, ThingKinds

MakersAreBuilds == \A t \in Things : Maker(t) \in Builds \cup {NoBuild}

LEMMA MakerType == HostTypeOK => MakersAreBuilds
<1> SUFFICES ASSUME HostTypeOK, NEW t \in Things PROVE Maker(t) \in Builds \cup {NoBuild}
  BY DEF MakersAreBuilds
<1>1. CASE \E n \in Names : t \in {<<"dir", n>>, <<"zvol", n>>, <<"vnic", n>>}
  <2>1. PICK n \in Names : t \in {<<"dir", n>>, <<"zvol", n>>, <<"vnic", n>>}
    BY <1>1
  <2>2. /\ dirBy[n] \in Builds \cup {NoBuild} /\ zvolBy[n] \in Builds \cup {NoBuild}
        /\ vnicBy[n] \in Builds \cup {NoBuild}
    BY DEF HostTypeOK
  <2>3. Maker(t) \in {dirBy[n], zvolBy[n], vnicBy[n]}  BY <2>1, MakerFacts
  <2> QED  BY <2>2, <2>3
<1>2. CASE \E n \in Names : t = <<"vm", n>> /\ t \in Restless
  <2>1. PICK n \in Names : t = <<"vm", n>>  BY <1>2
  <2>2. vmBy[n] \in Builds \cup {NoBuild}  BY DEF HostTypeOK
  <2>3. Maker(t) = vmBy[n]  BY <2>1, MakerFacts
  <2> QED  BY <2>2, <2>3
<1>3. CASE \E p \in Ports : t = <<"lock", p>>
  <2>1. PICK p \in Ports : t = <<"lock", p>>  BY <1>3
  <2>2. locks[p] \in Builds \cup {NoBuild}  BY DEF HostTypeOK
  <2>3. Maker(t) = locks[p]  BY <2>1, MakerFacts
  <2> QED  BY <2>2, <2>3
<1> QED  BY <1>1, <1>2, <1>3, ThingKinds

\* A thing passes between nobody and the build that takes the step.
LEMMA OwnerMoves ==
  ASSUME HostInv, HostInv', Serial, NEW b \in Builds,
         BuildStep(b) \/ GuestExit(b) \/ Reboot(b)
  PROVE  Owners!Moves(b)
<1> USE NotABuild
<1>1. HostTypeOK /\ HostTypeOK'  BY DEF HostInv
<1>2. MakersAreBuilds /\ MakersAreBuilds'  BY <1>1, MakerType, PTL
<1>3. \A c \in Builds \ {b} : pc'[c] = pc[c]
  <2>1. CASE BuildStep(b)
    <3>1. pc \in [Builds -> Places]  BY <1>1 DEF HostTypeOK
    <3>2. PICK place \in Way[pc[b]] : pc[b] \in DOMAIN Way /\ pc' = [pc EXCEPT ![b] = place]
      BY <2>1, <3>1, WayTaken, Zenon
    <3> QED  BY <3>1, <3>2
  <2>2. CASE GuestExit(b) \/ Reboot(b)  BY <2>2 DEF GuestExit, Reboot, places
  <2> QED  BY <2>1, <2>2
<1>4. BuildStep(b) => pc'[b] # pc[b]
  <2> SUFFICES ASSUME BuildStep(b) PROVE pc'[b] # pc[b]
    OBVIOUS
  <2>1. pc \in [Builds -> Places]  BY <1>1 DEF HostTypeOK
  <2>2. PICK place \in Way[pc[b]] : pc[b] \in DOMAIN Way /\ pc' = [pc EXCEPT ![b] = place]
    BY <2>1, WayTaken, Zenon
  <2> QED  BY <2>1, <2>2 DEF Way
<1>5. ASSUME NEW t \in Things
      PROVE  /\ owner'[t] \in Builds \cup {NoBuild}
             /\ \/ owner'[t] = owner[t]
                \/ /\ {owner[t], owner'[t]} = {NoBuild, b}
                   /\ t \in Restless \/ pc'[b] # pc[b]
  <2> DEFINE m == Maker(t)
  <2>1. m \in Builds \cup {NoBuild} /\ m' \in Builds \cup {NoBuild}
    BY <1>2 DEF MakersAreBuilds
  <2>2. /\ owner[t] = IF m # NoBuild /\ pc[m] \notin Inactive THEN m ELSE NoBuild
        /\ owner'[t] = IF m' # NoBuild /\ pc'[m'] \notin Inactive THEN m' ELSE NoBuild
    BY DEF owner, Active
  <2>3. \/ m' = m
        \/ /\ Yields(m, b) /\ m' \in {b, NoBuild}
           /\ t \in Restless \/ BuildStep(b)
    BY MakersYield
  <2> HIDE DEF m
  <2>4. CASE m' = m  BY <1>3, <2>1, <2>2, <2>4
  <2>5. CASE /\ Yields(m, b) /\ m' \in {b, NoBuild}
             /\ t \in Restless \/ BuildStep(b)
    <3>1. owner[t] \in {b, NoBuild}  BY <2>2, <2>5 DEF Yields, Active
    <3>2. owner'[t] \in {b, NoBuild}  BY <2>2, <2>5
    <3> QED  BY <1>4, <2>5, <3>1, <3>2
  <2> QED  BY <2>3, <2>4, <2>5
<1>6. owner' \in [Things -> Builds \cup {NoBuild}]
  <2>1. owner' = [t \in Things |-> owner'[t]]  BY DEF owner
  <2> QED  BY <1>5, <2>1
<1> QED  BY <1>3, <1>5, <1>6 DEF Owners!Moves

\* Builds that share names run one after the other, and everything else in
\* parallel: each thing passes between nobody and its own build, by a step of
\* that build (the creations and cleanups of the steps, and driver.go:109-141
\* for a VM that comes and goes by itself).
THEOREM HostImplementsOwnership ==
  ASSUME Serial PROVE HostSpec => ImplementsOwnership
<1>1. HostInit => Owners!OwnershipInit
  <2> SUFFICES ASSUME HostInit PROVE owner = [t \in Things |-> NoBuild]
    BY DEF Owners!OwnershipInit
  <2>1. \A t \in Things : Maker(t) = NoBuild
    <3> SUFFICES ASSUME NEW t \in Things PROVE Maker(t) = NoBuild
      OBVIOUS
    <3>1. CASE \E n \in Names : t \in {<<"dir", n>>, <<"zvol", n>>, <<"vnic", n>>}
      <4>1. PICK n \in Names : t \in {<<"dir", n>>, <<"zvol", n>>, <<"vnic", n>>}
        BY <3>1
      <4>2. dirBy[n] = NoBuild /\ zvolBy[n] = NoBuild /\ vnicBy[n] = NoBuild  BY DEF HostInit
      <4> QED  BY <4>1, <4>2, MakerFacts
    <3>2. CASE \E n \in Names : t = <<"vm", n>> /\ t \in Restless
      BY <3>2, MakerFacts DEF HostInit
    <3>3. CASE \E p \in Ports : t = <<"lock", p>>  BY <3>3, MakerFacts DEF HostInit
    <3> QED  BY <3>1, <3>2, <3>3, ThingKinds
  <2> QED  BY <2>1 DEF owner
<1>2. HostInv /\ HostInv' /\ [HostNext]_hostVars => [Owners!OwnershipNext]_<<owner, pc>>
  <2> SUFFICES ASSUME HostInv, HostInv', [HostNext]_hostVars
               PROVE  [Owners!OwnershipNext]_<<owner, pc>>
    OBVIOUS
  <2>1. CASE UNCHANGED <<places, things, vnc>>
    <3>1. UNCHANGED <<pc, dirBy, zvolBy, vnicBy, vmBy, locks>>
      BY <2>1 DEF places, things, vnc
    <3> QED  BY <3>1 DEF owner, Maker, Active
  <2>2. ASSUME NEW b \in Builds, BuildStep(b) \/ GuestExit(b) \/ Reboot(b)
        PROVE  Owners!OwnershipNext
    BY <2>2, OwnerMoves DEF Owners!OwnershipNext
  <2> QED  BY <2>1, <2>2, SomebodysStep
<1> QED
  BY <1>1, <1>2, HostInvariant, PTL
  DEF HostSpec, ImplementsOwnership, Owners!OwnershipSpec

\* Builds that run at the same time and share their names take each other's
\* things, but never a lock file: that is taken from nobody, by the search for a
\* port, and given up by the cleanup of the build that has it
\* (step_configure_vnc.go:50-72, 88-95).
Locks == INSTANCE Ownership WITH Things <- Ports, Restless <- {}, owner <- locks, at <- pc

LocksAreOwned == Locks!OwnershipSpec

\* Lock files are owned without that condition: however many builds run at the
\* same time, on whatever names, a lock file passes between nobody and one
\* build, by a step of that build (step_configure_vnc.go:50-72, 88-95).
THEOREM HostLocksOwned == HostSpec => LocksAreOwned
<1>1. HostInit => Locks!OwnershipInit
  BY DEF HostInit, Locks!OwnershipInit
<1>2. HostInv /\ HostInv' /\ [HostNext]_hostVars => [Locks!OwnershipNext]_<<locks, pc>>
  <2> SUFFICES ASSUME HostInv, HostInv', [HostNext]_hostVars
               PROVE  [Locks!OwnershipNext]_<<locks, pc>>
    OBVIOUS
  <2> USE NotABuild
  <2>1. CASE UNCHANGED <<places, things, vnc>>  BY <2>1 DEF places, vnc
  <2>2. ASSUME NEW b \in Builds, GuestExit(b) \/ Reboot(b)
        PROVE  UNCHANGED <<locks, pc>>
    BY <2>2 DEF GuestExit, Reboot, places, vnc
  <2>3. ASSUME NEW b \in Builds, BuildStep(b)
        PROVE  Locks!Moves(b)
    <3>1. /\ HostTypeOK /\ PortInv /\ pc \in [Builds -> Places]
          /\ locks' \in [Ports -> Builds \cup {NoBuild}]
      BY DEF HostInv, HostTypeOK
    <3>2. PICK place \in Way[pc[b]] : pc[b] \in DOMAIN Way /\ pc' = [pc EXCEPT ![b] = place]
      BY <2>3, <3>1, WayTaken, Zenon
    <3>3. pc'[b] # pc[b] /\ \A c \in Builds \ {b} : pc'[c] = pc[c]
      BY <3>1, <3>2 DEF Way
    <3>4. ASSUME NEW p \in Ports, locks'[p] # locks[p]
          PROVE  {locks[p], locks'[p]} = {NoBuild, b}
      <4>1. VNCRun(b) \/ VNCCleanup(b)
        BY <2>3, <3>4, VNCUntouched DEF vnc
      <4>2. CASE VNCRun(b)
        <5>1. locks[p] = NoBuild /\ locks'[p] = b
          BY <3>1, <3>4, <4>2, ConfFacts DEF VNCRun, HostTypeOK
        <5> QED  BY <5>1
      <4>3. CASE VNCCleanup(b)
        <5>1. p = port[b] /\ locks'[p] = NoBuild /\ pc[b] = "unVNC"
          BY <3>4, <4>3 DEF VNCCleanup
        <5>2. locks[p] = b  BY <3>1, <5>1 DEF PortInv
        <5> QED  BY <5>1, <5>2
      <4> QED  BY <4>1, <4>2, <4>3
    <3> QED  BY <3>1, <3>3, <3>4 DEF Locks!Moves
  <2> QED  BY <2>1, <2>2, <2>3, SomebodysStep DEF Locks!OwnershipNext
<1> QED
  BY <1>1, <1>2, HostInvariant, PTL DEF HostSpec, LocksAreOwned, Locks!OwnershipSpec
=============================================================================
