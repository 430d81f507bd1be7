-------------------------- MODULE BhyveBuild_proofs --------------------------
(***************************************************************************)
(* Proofs about the build (BhyveBuild): for every set of configurations,   *)
(* of exit codes, bound on reboots and number of EBUSY answers.            *)
(***************************************************************************)
EXTENDS BhyveBuild, BhyveDriver_proofs

-----------------------------------------------------------------------------
(* The inductive invariant behind the safety properties.                    *)

\* The keys and things a step that continues leaves.
Gives(s) ==
  CASE s = "download"          -> {"iso_path"}
    [] s = "httpIP"            -> {"http_ip"}
    [] s = "httpServer"        -> {"http_port"}
    [] s \in {"zvol", "disk"}  -> {"bhyve_disk_path"}
    [] s = "vnc"               -> {"vnc_port", "vnc_password"}
    [] s = "connect"           -> IF config.shutdown = "wait" THEN {} ELSE {"communicator"}
    [] OTHER                   -> {}

Makes(s) ==
  CASE s = "outputDir"                -> {"outDir"}
    [] s \in {"zvol", "disk", "vnic"} -> {s}
    [] s = "vnc"                      -> {"portLock"}
    [] s = "snapshot"                 -> {"image"}
    [] OTHER                          -> {}

Running == phase \in {"loop", "run"}

\* The bag keeps every key, and the host every thing of the steps before the
\* runner's: those are cleaned up later.
DoneInv ==
  /\ FirstKeys \subseteq bag
  /\ \A i \in 1..(at - 1) : Gives(Steps[i]) \subseteq bag /\ Makes(Steps[i]) \subseteq host

\* A build that stops for a failure is one the output cleanup knows as such.
StopInv ==
  /\ Running => at > 0 /\ result = "none"
  /\ phase = "cleanup" => result = "none"
  /\ phase = "done" => at = 0
  /\ Running => bag \cap {"error", "halted"} = {}
  /\ "error" \in bag => Abandoned
  /\ result \in {"error", "halted"} => bag \cap {"error", "halted"} # {}

\* What is left on the host is of a step still to be cleaned up, or given up.
LeftInv ==
  \A r \in host \cap {"zvol", "vnic", "portLock"} :
    r \in gaveUp \/ \E i \in 1..(IF phase = "loop" THEN at - 1 ELSE at) : r \in Makes(Steps[i])

\* Complete is what ArtifactIsComplete promises.
Complete ==
  /\ "outDir" \in host
  /\ (IF config.zvol THEN "image" ELSE "disk") \in host
  /\ host \cap {"partial", "snapshot"} = {}

OutputInv ==
  /\ Running => host \cap {"image", "partial", "snapshot"} = {}
  /\ Running /\ at <= 2 => host \cap Output \in {{}, {"outDir", "stale"}}
  /\ ~Running /\ at < 2 /\ bag \cap {"error", "halted"} # {} /\ "outDir" \in host =>
       "outDir" \in gaveUp \/ host \cap Output = {"outDir", "stale"}
  /\ phase = "cleanup" /\ ~Abandoned /\ client # "panicked" => Complete
  /\ result = "artifact" => Complete

\* The VM is launched by its step, and the answer of the driver stays.
VMInv ==
  /\ Running /\ (\A i \in 1..at : Steps[i] # "bhyve") => client = "idle"
  /\ client = "waiting" => answer = "none"
  /\ config.shutdown # "stop" => answer \notin {"stopped", "stopErr"}
  /\ Running /\ config.shutdown # "stop" /\ (\E i \in 1..(at - 1) : Steps[i] = "shutdown")
       => answer = "down"

BuildInv ==
  /\ DriverInv /\ BuildTypeOK
  /\ DoneInv /\ StopInv /\ LeftInv /\ OutputInv /\ VMInv

-----------------------------------------------------------------------------
(* The list of steps (builder.go:51-107).                                   *)

LEMMA ListOfSteps ==
  ASSUME config \in ConfigType
  PROVE  /\ Steps[1] = "download" /\ Steps[2] = "outputDir" /\ Steps[3] = "cd"
         /\ Steps[4] = "httpIP" /\ Steps[5] = "httpServer"
         /\ Steps[6] = IF config.zvol THEN "zvol" ELSE "disk"
         /\ config.vnic =>
              /\ Len(Steps) = IF config.zvol THEN 15 ELSE 14
              /\ Steps[7] = "vnic" /\ Steps[8] = "vnc" /\ Steps[9] = "bhyve"
              /\ Steps[10] = "type" /\ Steps[11] = "address" /\ Steps[12] = "connect"
              /\ Steps[13] = "provision" /\ Steps[14] = "shutdown"
              /\ config.zvol => Steps[15] = "snapshot"
         /\ ~config.vnic =>
              /\ Len(Steps) = IF config.zvol THEN 14 ELSE 13
              /\ Steps[7] = "vnc" /\ Steps[8] = "bhyve"
              /\ Steps[9] = "type" /\ Steps[10] = "address" /\ Steps[11] = "connect"
              /\ Steps[12] = "provision" /\ Steps[13] = "shutdown"
              /\ config.zvol => Steps[14] = "snapshot"
<1>1. CASE config.zvol /\ config.vnic  BY <1>1 DEF Steps
<1>2. CASE config.zvol /\ ~config.vnic  BY <1>2 DEF Steps
<1>3. CASE ~config.zvol /\ config.vnic  BY <1>3 DEF Steps
<1>4. CASE ~config.zvol /\ ~config.vnic  BY <1>4 DEF Steps
<1> QED  BY <1>1, <1>2, <1>3, <1>4

\* The list's length, and where the steps stand that others depend on.
LEMMA PlacesOfSteps ==
  ASSUME config \in ConfigType
  PROVE  /\ Len(Steps) \in 13..15
         /\ \A i, j \in 1..Len(Steps) : Steps[i] = Steps[j] => i = j
         /\ \A i \in 1..Len(Steps) :
              /\ Steps[i] = "snapshot" => i = Len(Steps) /\ config.zvol
              /\ Steps[i] = "outputDir" => i = 2
              /\ Steps[i] = "bhyve" => i > 7 /\ Steps[i - 1] = "vnc"
              /\ Steps[i] = "bhyve" /\ config.vnic => i > 8
              /\ Steps[i] = "type" => i > 8 /\ Steps[i - 2] = "vnc"
              /\ Steps[i] = "shutdown" => i > 8 /\ Steps[i - 2] = "connect"
         /\ Steps[Len(Steps)] = (IF config.zvol THEN "snapshot" ELSE "shutdown")
         /\ config.zvol => Steps[Len(Steps) - 1] = "shutdown"
<1>1. config \in [zvol : BOOLEAN, vnic : BOOLEAN, force : BOOLEAN,
                  debug : BOOLEAN, shutdown : {"wait", "command", "stop"}]
  BY DEF ConfigType
<1>2. CASE config.zvol /\ config.vnic
  <2>1. Len(Steps) = 15  BY <1>2, ListOfSteps
  <2>2. \A i, j \in 1..Len(Steps) : Steps[i] = Steps[j] => i = j
    BY <1>2, <2>1, ListOfSteps
  <2> QED  BY <1>2, <2>1, <2>2, ListOfSteps
<1>3. CASE config.zvol /\ ~config.vnic
  <2>1. Len(Steps) = 14  BY <1>3, ListOfSteps
  <2>2. \A i, j \in 1..Len(Steps) : Steps[i] = Steps[j] => i = j
    BY <1>3, <2>1, ListOfSteps
  <2> QED  BY <1>3, <2>1, <2>2, ListOfSteps
<1>4. CASE ~config.zvol /\ config.vnic
  <2>1. Len(Steps) = 14  BY <1>4, ListOfSteps
  <2>2. \A i, j \in 1..Len(Steps) : Steps[i] = Steps[j] => i = j
    BY <1>4, <2>1, ListOfSteps
  <2> QED  BY <1>4, <2>1, <2>2, ListOfSteps
<1>5. CASE ~config.zvol /\ ~config.vnic
  <2>1. Len(Steps) = 13  BY <1>5, ListOfSteps
  <2>2. \A i, j \in 1..Len(Steps) : Steps[i] = Steps[j] => i = j
    BY <1>5, <2>1, ListOfSteps
  <2> QED  BY <1>5, <2>1, <2>2, ListOfSteps
<1> QED  BY <1>1, <1>2, <1>3, <1>4, <1>5

-----------------------------------------------------------------------------
(* What the steps' Run methods may do.                                      *)

\* The keys a step that returns action has put in the bag, and the host it
\* leaves.
Outcome(action, keys, new) ==
  /\ action \in {"continue", "halt"}
  /\ keys \subseteq Keys \ {"cancelled", "halted"}
  /\ new \subseteq Things
  /\ action = "continue" =>
       /\ "error" \notin keys
       /\ Gives(Step) \subseteq keys /\ Makes(Step) \subseteq new
       /\ new \cap {"partial", "snapshot"} \subseteq host
       /\ Step = "shutdown" => answer \in {"down", "stopped"}
  /\ action = "halt" => keys \subseteq {"error"}
  /\ Step # "outputDir" => host \subseteq new
  /\ host \ new \subseteq Output
  /\ Step \in {"download", "shutdown"} => new = host
  /\ Step # "snapshot" => new \cap {"image", "partial", "snapshot"} \subseteq host
  /\ new \cap {"zvol", "vnic", "portLock"} \subseteq host \cup Makes(Step)

Ran ==
  /\ UNCHANGED vars
  /\ \E action \in {"continue", "halt"}, keys \in SUBSET Keys, new \in SUBSET Things :
       Finish(action, keys, new) /\ Outcome(action, keys, new)

Panicked ==
  /\ phase = "run" /\ client = "panicked" /\ phase' = "cleanup"
  /\ UNCHANGED <<vars, config, at, ctxDone, bag, host, tries, gaveUp, result>>

Called ==
  /\ Step \in {"bhyve", "shutdown"} /\ phase = "run"
  /\ Start \/ WaitForShutdown \/ Stop
  /\ Start => Step = "bhyve"
  /\ WaitForShutdown \/ Stop => answer = "none" /\ Step = "shutdown"
  /\ Stop => config.shutdown = "stop"
  /\ UNCHANGED build

LEMMA FinishRan ==
  ASSUME NEW action, NEW keys, NEW new,
         Outcome(action, keys, new), Finish(action, keys, new), UNCHANGED vars
  PROVE  Ran
  BY DEF Ran, Outcome

\* Whatever step it is, it may fail without having done anything ...
LEMMA HaltOutcome ==
  ASSUME host \subseteq Things, NEW keys \in SUBSET {"error"}
  PROVE  Outcome("halt", keys, host)
  BY DEF Outcome, Keys

\* ... and most steps that go on have done what they are there for.
LEMMA ContinueOutcome ==
  ASSUME host \subseteq Things,
         Step \in {"download", "outputDir", "cd", "httpIP", "httpServer", "zvol", "disk",
                   "vnic", "vnc", "bhyve", "type", "address", "connect", "provision",
                   "snapshot"},
         NEW keys, keys = Gives(Step) \/ (Step = "address" /\ keys = {"guestAddress"}),
         NEW things, things = Makes(Step)
  PROVE  Outcome("continue", keys, host \cup things)
<1>1. Makes(Step) \subseteq Things /\ Gives(Step) \subseteq Keys \ {"error", "cancelled", "halted"}
  BY DEF Makes, Gives, Keys, Things, Output
<1>2. Step = "address" => Gives(Step) = {}  BY DEF Gives
<1>3. Step = "download" => Makes(Step) = {}  BY DEF Makes
<1>4. Makes(Step) \cap {"partial", "snapshot"} = {}
  BY DEF Makes
<1>5. Step # "snapshot" => "image" \notin Makes(Step)
  BY DEF Makes
<1> QED  BY <1>1, <1>2, <1>3, <1>4, <1>5 DEF Outcome, Keys

LEMMA RunOutcome ==
  ASSUME BuildTypeOK, Run
  PROVE  Ran \/ Panicked \/ Called
<1>h. host \subseteq Things  BY DEF BuildTypeOK
<1>f. Fails /\ UNCHANGED vars => Ran
  <2>1. Outcome("halt", {"error"}, host)  BY <1>h, HaltOutcome
  <2> QED  BY <2>1, FinishRan DEF Fails
<1>g. Halts /\ UNCHANGED vars => Ran
  <2>1. Outcome("halt", {}, host)  BY <1>h, HaltOutcome
  <2> QED  BY <2>1, FinishRan DEF Halts
<1>c. ASSUME NEW keys, NEW things, Outcome("continue", keys, host \cup things)
      PROVE  Continues(keys, things) /\ UNCHANGED vars => Ran
  BY <1>c, FinishRan DEF Continues
<1>1. CASE SDKRun
  <2>1. Step \in {"download", "cd", "httpServer", "connect", "provision"}
    BY <1>1 DEF SDKRun, SDKPuts
  <2>2. SDKPuts[Step] = Gives(Step) /\ Makes(Step) = {}
    BY <2>1 DEF SDKPuts, Gives, Makes
  <2>3. Outcome("continue", SDKPuts[Step], host \cup {})
    BY <2>1, <2>2, <1>h, ContinueOutcome
  <2> QED  BY <1>1, <1>f, <1>g, <1>c, <2>3 DEF SDKRun
<1>2. CASE OutputDirRun
  <2>1. Step = "outputDir"  BY <1>2 DEF OutputDirRun, At
  <2>2. PICK left \in {host, host \ Output} :
          Finish("continue", {}, left \cup {"outDir"}) \/ Finish("halt", {"error"}, left)
    BY <1>2 DEF OutputDirRun
  <2>3. Makes(Step) = {"outDir"} /\ Gives(Step) = {}  BY <2>1 DEF Makes, Gives
  <2>4. Outcome("continue", {}, left \cup {"outDir"})
    BY <2>1, <2>3, <1>h DEF Outcome, Things, Output
  <2>5. Outcome("halt", {"error"}, left)
    BY <2>1, <1>h DEF Outcome, Keys, Things, Output
  <2> QED  BY <1>2, <2>2, <2>4, <2>5, FinishRan DEF OutputDirRun
<1>3. CASE HTTPIPRun
  <2>1. Step = "httpIP"  BY <1>3 DEF HTTPIPRun, At
  <2>2. Gives(Step) = {"http_ip"} /\ Makes(Step) = {}  BY <2>1 DEF Makes, Gives
  <2>3. Outcome("continue", {"http_ip"}, host \cup {})
    BY <2>1, <2>2, <1>h, ContinueOutcome
  <2> QED  BY <1>3, <1>g, <1>c, <2>3 DEF HTTPIPRun
<1>4. CASE ZvolRun
  <2>1. Step = "zvol"  BY <1>4 DEF ZvolRun, At
  <2>2. Gives(Step) = {"bhyve_disk_path"} /\ Makes(Step) = {"zvol"}  BY <2>1 DEF Makes, Gives
  <2>3. Outcome("continue", {"bhyve_disk_path"}, host \cup {"zvol"})
    BY <2>1, <2>2, <1>h, ContinueOutcome
  <2> QED  BY <1>4, <1>f, <1>c, <2>3 DEF ZvolRun
<1>5. CASE DiskRun
  <2>1. Step = "disk"  BY <1>5 DEF DiskRun, At
  <2>2. Gives(Step) = {"bhyve_disk_path"} /\ Makes(Step) = {"disk"}  BY <2>1 DEF Makes, Gives
  <2>3. Outcome("continue", {"bhyve_disk_path"}, host \cup {"disk"})
    BY <2>1, <2>2, <1>h, ContinueOutcome
  <2> QED  BY <1>5, <1>f, <1>c, <2>3 DEF DiskRun
<1>6. CASE VNICRun
  <2>1. Step = "vnic"  BY <1>6 DEF VNICRun, At
  <2>2. Gives(Step) = {} /\ Makes(Step) = {"vnic"}  BY <2>1 DEF Makes, Gives
  <2>3. Outcome("continue", {}, host \cup {"vnic"})
    BY <2>1, <2>2, <1>h, ContinueOutcome
  <2> QED  BY <1>6, <1>f, <1>c, <2>3 DEF VNICRun
<1>7. CASE VNCRun
  <2>1. Step = "vnc"  BY <1>7 DEF VNCRun, At
  <2>2. Gives(Step) = {"vnc_port", "vnc_password"} /\ Makes(Step) = {"portLock"}  BY <2>1 DEF Makes, Gives
  <2>3. Outcome("continue", {"vnc_port", "vnc_password"}, host \cup {"portLock"})
    BY <2>1, <2>2, <1>h, ContinueOutcome
  <2> QED  BY <1>7, <1>f, <1>c, <2>3 DEF VNCRun
<1>8. CASE BhyveRun
  <2>1. Step = "bhyve" /\ phase = "run"  BY <1>8 DEF BhyveRun, At
  <2>2. Gives(Step) = {} /\ Makes(Step) = {}  BY <2>1 DEF Makes, Gives
  <2>3. Outcome("continue", {}, host \cup {})
    BY <2>1, <2>2, <1>h, ContinueOutcome
  <2>4. CASE Start /\ UNCHANGED build
    <3>1. ~WaitForShutdown /\ ~Stop
      BY <2>4 DEF Start, WaitForShutdown, Stop, StopIdle, StopKill, StopError, StopPanic
    <3> QED  BY <2>1, <2>4, <3>1 DEF Called
  <2> QED  BY <1>8, <1>g, <1>c, <2>3, <2>4 DEF BhyveRun
<1>9. CASE TypeRun
  <2>1. Step = "type"  BY <1>9 DEF TypeRun, At
  <2>2. Gives(Step) = {} /\ Makes(Step) = {}  BY <2>1 DEF Makes, Gives
  <2>3. Outcome("continue", {}, host \cup {})
    BY <2>1, <2>2, <1>h, ContinueOutcome
  <2> QED  BY <1>9, <1>f, <1>g, <1>c, <2>3 DEF TypeRun
<1>10. CASE AddressRun
  <2>1. Step = "address"  BY <1>10 DEF AddressRun, At
  <2>2. Makes(Step) = {}  BY <2>1 DEF Makes
  <2>3. Outcome("continue", {"guestAddress"}, host \cup {})
    BY <2>1, <2>2, <1>h, ContinueOutcome
  <2> QED  BY <1>10, <1>f, <1>g, <1>c, <2>3 DEF AddressRun
<1>11. CASE ShutdownCall
  <2>1. Step = "shutdown" /\ phase = "run" /\ answer = "none"  BY <1>11 DEF ShutdownCall, At
  <2>2. CASE WaitForShutdown /\ UNCHANGED build /\ config.shutdown # "stop"
    <3>1. ~Start /\ ~Stop
      BY <2>2 DEF Start, WaitForShutdown, Stop, StopIdle, StopKill, StopError, StopPanic
    <3> QED  BY <2>1, <2>2, <3>1 DEF Called
  <2>3. CASE Stop /\ UNCHANGED build /\ config.shutdown = "stop"
    <3>1. ~Start
      BY <2>3 DEF Start, Stop, StopIdle, StopKill, StopError, StopPanic
    <3> QED  BY <2>1, <2>3, <3>1 DEF Called
  <2> QED  BY <1>11, <1>f, <2>2, <2>3 DEF ShutdownCall
<1>12. CASE ShutdownReturn
  <2>1. Step = "shutdown"  BY <1>12 DEF ShutdownReturn, At
  <2>2. Gives(Step) = {} /\ Makes(Step) = {}  BY <2>1 DEF Makes, Gives
  <2>3. answer \in {"down", "stopped"} => Outcome("continue", {}, host \cup {})
    BY <2>1, <2>2, <1>h DEF Outcome
  <2> QED  BY <1>12, <1>f, <1>c, <2>3 DEF ShutdownReturn
<1>13. CASE ShutdownPanic  BY <1>13 DEF ShutdownPanic, Panicked
<1>14. CASE SnapshotRun
  <2>1. Step = "snapshot"  BY <1>14 DEF SnapshotRun, At
  <2>2. Gives(Step) = {} /\ Makes(Step) = {"image"}  BY <2>1 DEF Makes, Gives
  <2>3. Outcome("continue", {}, host \cup {"image"})
    BY <2>1, <2>2, <1>h, ContinueOutcome
  <2>4. ASSUME NEW left \in {{}, {"snapshot"}, {"snapshot", "partial"}, {"snapshot", "image"}}
        PROVE  Outcome("halt", {"error"}, host \cup left)
    BY <2>1, <1>h DEF Outcome, Keys, Things, Output
  <2>5. CASE Continues({}, {"image"})  BY <1>14, <1>c, <2>3, <2>5 DEF SnapshotRun
  <2>6. ASSUME NEW left \in {{}, {"snapshot"}, {"snapshot", "partial"}, {"snapshot", "image"}},
               Finish("halt", {"error"}, host \cup left)
        PROVE  Ran
    BY <1>14, <2>4, <2>6, FinishRan DEF SnapshotRun
  <2> QED  BY <1>14, <2>5, <2>6 DEF SnapshotRun
<1> QED
  BY <1>1, <1>2, <1>3, <1>4, <1>5, <1>6, <1>7, <1>8, <1>9, <1>10, <1>11, <1>12, <1>13, <1>14
  DEF Run

-----------------------------------------------------------------------------
(* What the steps' Cleanup methods may do.                                  *)

Owned == {"zvol", "vnic", "portLock"}

Cleaned ==
  /\ phase = "cleanup" /\ at > 0
  /\ at' \in {at, at - 1}
  /\ tries' \in 0..4 /\ (at' = at => tries < tries')
  /\ UNCHANGED <<config, phase, ctxDone, bag, result>>
  /\ UNCHANGED <<fields, calls, loop, retCh, errCh, proc, status, cdrom>> /\ doomed' \in BOOLEAN
  /\ host' \subseteq host
  /\ gaveUp \subseteq gaveUp' /\ gaveUp' \subseteq {"zvol", "vnic", "outDir", "portLock"}
  /\ Step # "outputDir" \/ ~Abandoned => host \ host' \subseteq (Makes(Step) \cap Owned)
  /\ host \ host' \subseteq (Makes(Step) \cap Owned) \cup Output
  /\ at' = at - 1 => Makes(Step) \cap Owned \cap host' \subseteq gaveUp'
  /\ at' = at - 1 /\ Step = "outputDir" /\ Abandoned =>
       host' \cap Output = {} \/ "outDir" \in gaveUp'

LEMMA CleanupOutcome ==
  ASSUME BuildTypeOK, Cleanup
  PROVE  Cleaned \/ Return
<1> USE DEF CleanedUp, Cleaning
<1>t. /\ at \in Nat /\ tries \in 0..4 /\ gaveUp \subseteq {"zvol", "vnic", "outDir", "portLock"}
      /\ doomed \in BOOLEAN
  BY DEF BuildTypeOK, TypeOK
<1>u. UNCHANGED vars =>
        /\ UNCHANGED <<fields, calls, loop, retCh, errCh, proc, status, cdrom>>
        /\ doomed' \in BOOLEAN
  BY <1>t DEF vars, process
<1>1. CASE PlainCleanup
  <2>1. Makes(Step) \cap Owned = {} /\ Step # "outputDir"
    BY <1>1 DEF PlainCleanup, Makes, Owned
  <2> QED  BY <1>1, <1>t, <1>u, <2>1 DEF PlainCleanup, Cleaned
<1>2. CASE BhyveCleanup
  <2>1. Makes(Step) \cap Owned = {} /\ Step # "outputDir"
    BY <1>2 DEF BhyveCleanup, Makes, Owned
  <2>2. doomed' \in BOOLEAN  BY <1>2, <1>t DEF BhyveCleanup
  <2> QED  BY <1>2, <1>t, <2>1, <2>2 DEF BhyveCleanup, Cleaned
<1>3. CASE VNCCleanup
  <2>1. Makes(Step) \cap Owned = {"portLock"} /\ Step # "outputDir"
    BY <1>3 DEF VNCCleanup, Makes, Owned
  <2>2. CASE host' = host \ {"portLock"} /\ UNCHANGED gaveUp
    BY <1>3, <1>t, <1>u, <2>1, <2>2 DEF VNCCleanup, Cleaned
  <2>3. CASE gaveUp' = gaveUp \cup {"portLock"} /\ UNCHANGED host
    <3>1. host \ host' = {}  BY <2>3
    <3> QED  BY <1>3, <1>t, <1>u, <2>1, <2>3, <3>1 DEF VNCCleanup, Cleaned
  <2> QED  BY <1>3, <2>2, <2>3 DEF VNCCleanup
<1>a. ASSUME NEW r \in {"zvol", "vnic", "outDir"}, NEW retries \in 4..5,
             AttemptFailed(r, retries)
      PROVE  /\ at' \in {at, at - 1} /\ tries' \in 0..4 /\ (at' = at => tries < tries')
             /\ gaveUp \subseteq gaveUp' /\ gaveUp' \subseteq {"zvol", "vnic", "outDir", "portLock"}
             /\ at' = at - 1 => r \in gaveUp'
  <2>1. CASE tries + 1 < retries /\ tries' = tries + 1 /\ UNCHANGED <<at, gaveUp>>
    BY <1>t, <2>1
  <2>2. CASE tries + 1 = retries /\ gaveUp' = gaveUp \cup {r} /\ CleanedUp
    BY <1>t, <2>2
  <2> QED  BY <1>a, <2>1, <2>2 DEF AttemptFailed
<1>4. CASE OutputDirCleanup
  <2> USE <1>4 DEF OutputDirCleanup
  <2>1. Makes(Step) \cap Owned = {} /\ Step = "outputDir"
    BY DEF Makes, Owned
  <2>2. CASE CleanedUp /\ UNCHANGED <<host, gaveUp>> /\ ~Abandoned
    <3>1. host \ host' = {}  BY <2>2
    <3> QED  BY <1>t, <1>u, <2>1, <2>2, <3>1 DEF Cleaned
  <2>3. CASE host' = host \ Output /\ CleanedUp /\ UNCHANGED gaveUp /\ Abandoned
    BY <1>t, <1>u, <2>1, <2>3 DEF Cleaned
  <2>4. CASE AttemptFailed("outDir", 5) /\ UNCHANGED host /\ Abandoned
    <3>1. host \ host' = {}  BY <2>4
    <3>2. at' = at - 1 => "outDir" \in gaveUp'  BY <1>a, <2>4
    <3>3. /\ at' \in {at, at - 1} /\ tries' \in 0..4 /\ (at' = at => tries < tries')
          /\ gaveUp \subseteq gaveUp' /\ gaveUp' \subseteq {"zvol", "vnic", "outDir", "portLock"}
      BY <1>a, <2>4
    <3> QED  BY <1>u, <2>1, <2>4, <3>1, <3>2, <3>3 DEF Cleaned
  <2> QED  BY <2>2, <2>3, <2>4
<1>5. ASSUME NEW r \in {"zvol", "vnic"}, DestroyCleanup(r)
      PROVE  Cleaned
  <2> USE <1>5 DEF DestroyCleanup
  <2>1. Makes(Step) \cap Owned = {r} /\ Step # "outputDir"
    BY DEF Makes, Owned
  <2>2. CASE host' = host \ {r} /\ CleanedUp /\ UNCHANGED gaveUp
    BY <1>t, <1>u, <2>1, <2>2 DEF Cleaned
  <2>3. CASE AttemptFailed(r, 4) /\ UNCHANGED host
    <3>1. host \ host' = {}  BY <2>3
    <3>2. at' = at - 1 => r \in gaveUp'  BY <1>a, <2>3
    <3>3. /\ at' \in {at, at - 1} /\ tries' \in 0..4 /\ (at' = at => tries < tries')
          /\ gaveUp \subseteq gaveUp' /\ gaveUp' \subseteq {"zvol", "vnic", "outDir", "portLock"}
      BY <1>a, <2>3
    <3> QED  BY <1>u, <2>1, <2>3, <3>1, <3>2, <3>3 DEF Cleaned
  <2> QED  BY <2>2, <2>3
<1> QED  BY <1>1, <1>2, <1>3, <1>4, <1>5 DEF Cleanup

-----------------------------------------------------------------------------
(* Every step of the build keeps the driver's invariant and the types.      *)

LEMMA SameSteps ==
  ASSUME config' = config
  PROVE  Steps' = Steps /\ \A s : Gives(s)' = Gives(s)
  BY DEF Steps, Gives

\* The actions of the build, in the forms the lemmas above give them.
LEMMA StepForms ==
  ASSUME BuildTypeOK, [BuildNext]_allVars
  PROVE  \/ LoopHead \/ Ran \/ Panicked \/ Called \/ Cleaned \/ Return
         \/ Cancel \/ NoteCancel
         \/ (StartReturns \/ WaitReturns \/ Monitor \/ Guest) /\ UNCHANGED build
         \/ UNCHANGED allVars
  BY RunOutcome, CleanupOutcome DEF BuildNext, Builder, Background

\* A step of the build is one of the driver, or destroys the VM under it.
LEMMA DriverStep ==
  ASSUME BuildTypeOK, [BuildNext]_allVars
  PROVE  \/ [Next]_vars
         \/ /\ UNCHANGED <<fields, calls, loop, retCh, errCh, proc, status, cdrom>>
            /\ doomed' \in BOOLEAN
<1>1. LoopHead \/ Ran \/ Panicked \/ Return \/ Cancel \/ NoteCancel \/ UNCHANGED allVars
        => UNCHANGED vars
  BY DEF LoopHead, Ran, Panicked, Return, Cancel, NoteCancel, allVars
<1>2. Called => Next  BY DEF Called, Next
<1>3. StartReturns \/ WaitReturns \/ Monitor \/ Guest => Next  BY DEF Next
<1>4. Cleaned => UNCHANGED <<fields, calls, loop, retCh, errCh, proc, status, cdrom>>
             /\ doomed' \in BOOLEAN
  BY DEF Cleaned
<1> QED  BY <1>1, <1>2, <1>3, <1>4, StepForms

LEMMA DriverInvKept ==
  ASSUME DriverInv, BuildTypeOK, [BuildNext]_allVars
  PROVE  DriverInv'
<1>1. CASE [Next]_vars  BY <1>1, NextInv
<1>2. CASE /\ UNCHANGED <<fields, calls, loop, retCh, errCh, proc, status, cdrom>>
           /\ doomed' \in BOOLEAN
  BY <1>2 DEF DriverInv, TypeOK, ProcessInv, CommandInv, ChannelInv, HandleInv,
              fields, calls, loop
<1> QED  BY <1>1, <1>2, DriverStep

\* What Finish does to the runner's own variables.
LEMMA FinishRunner ==
  ASSUME BuildTypeOK, StopInv,
         NEW action \in {"continue", "halt"}, NEW keys \in SUBSET (Keys \ {"cancelled", "halted"}),
         NEW new \in SUBSET Things,
         Finish(action, keys, new)
  PROVE  /\ phase = "run" /\ host' = new
         /\ bag' \subseteq bag \cup keys \cup {"halted"} /\ bag \cup keys \subseteq bag'
         /\ \/ /\ phase' = "loop" /\ at' = at + 1 /\ at < Len(Steps)
               /\ action = "continue" /\ "cancelled" \notin bag /\ bag' = bag \cup keys
            \/ /\ phase' = "cleanup" /\ at' = at
               /\ \/ Abandoned'
                  \/ action = "continue" /\ at = Len(Steps) /\ bag' = bag \cup keys
         /\ UNCHANGED <<config, ctxDone, tries, gaveUp, result>>
<1>1. at \in 1..Len(Steps) /\ bag \subseteq Keys
  BY DEF BuildTypeOK, StopInv, Running, Finish
<1> QED  BY <1>1 DEF Finish, Abandoned

LEMMA KnownSteps ==
  ASSUME BuildTypeOK
  PROVE  /\ config \in ConfigType
         /\ Len(Steps) \in 13..15
         /\ at \in 0..Len(Steps)
<1>1. config \in ConfigType  BY ConfigsAssumption DEF BuildTypeOK
<1> QED  BY <1>1, PlacesOfSteps DEF BuildTypeOK

LEMMA BuildTypesKept ==
  ASSUME DriverInv, BuildTypeOK, StopInv, [BuildNext]_allVars
  PROVE  BuildTypeOK'
<1>1. TypeOK'  BY DriverInvKept DEF DriverInv
<1>2. config' = config
  BY StepForms DEF LoopHead, Ran, Finish, Panicked, Called, Cleaned, Return,
                     Cancel, NoteCancel, build, allVars
<1>3. config' \in Configs /\ Steps' = Steps  BY <1>2, SameSteps DEF BuildTypeOK
<1>4. Len(Steps) \in 13..15 /\ at \in 0..Len(Steps) /\ (Running => at > 0)
  BY KnownSteps DEF StopInv
<1>5. /\ phase \in {"loop", "run", "cleanup", "done"} /\ ctxDone \in BOOLEAN
      /\ bag \subseteq Keys /\ host \subseteq Things /\ tries \in 0..4
      /\ gaveUp \subseteq {"zvol", "vnic", "outDir", "portLock"}
      /\ result \in {"none", "artifact", "error", "cancelled", "halted", "walkError", "panic"}
  BY DEF BuildTypeOK
<1> DEFINE Types ==
      /\ at' \in 0..Len(Steps)
      /\ phase' \in {"loop", "run", "cleanup", "done"}
      /\ ctxDone' \in BOOLEAN
      /\ bag' \subseteq Keys
      /\ host' \subseteq Things
      /\ tries' \in 0..4
      /\ gaveUp' \subseteq {"zvol", "vnic", "outDir", "portLock"}
      /\ result' \in {"none", "artifact", "error", "cancelled", "halted", "walkError", "panic"}
<1>k. {"cancelled", "halted"} \subseteq Keys  BY DEF Keys
<1>6. LoopHead => Types  BY <1>4, <1>5, <1>k DEF LoopHead, Running
<1>7. Ran => Types
  <2> SUFFICES ASSUME Ran PROVE Types
    OBVIOUS
  <2>1. PICK action \in {"continue", "halt"}, keys \in SUBSET Keys, new \in SUBSET Things :
          Finish(action, keys, new) /\ Outcome(action, keys, new)
    BY DEF Ran
  <2>2. keys \in SUBSET (Keys \ {"cancelled", "halted"})  BY <2>1 DEF Outcome
  <2>3. /\ bag' \subseteq bag \cup keys \cup {"halted"} /\ host' = new
        /\ phase' \in {"loop", "cleanup"}
        /\ at' = at \/ (at' = at + 1 /\ at < Len(Steps))
        /\ UNCHANGED <<ctxDone, tries, gaveUp, result>>
    BY <2>1, <2>2, FinishRunner
  <2> QED  BY <2>3, <1>4, <1>5, <1>k
<1>8. Panicked => Types  BY <1>4, <1>5 DEF Panicked
<1>9. Cleaned => Types  BY <1>4, <1>5 DEF Cleaned
<1>10. Return => Types  BY <1>4, <1>5 DEF Return
<1>11. Cancel \/ NoteCancel => Types  BY <1>4, <1>5, <1>k DEF Cancel, NoteCancel
<1>12. UNCHANGED build => Types  BY <1>4, <1>5 DEF build
<1>13. Types
  BY <1>6, <1>7, <1>8, <1>9, <1>10, <1>11, <1>12, StepForms DEF Called, allVars
<1> QED  BY <1>1, <1>3, <1>13 DEF BuildTypeOK

-----------------------------------------------------------------------------
(* The bag and the host keep what the steps so far have given.              *)

\* Removing what one step has made removes nothing of an earlier one.
LEMMA MadeOnce ==
  ASSUME BuildTypeOK, at > 0, NEW i \in 1..(at - 1)
  PROVE  Makes(Steps[i]) \cap Makes(Step) = {}
<1>1. i \in 1..Len(Steps) /\ at \in 1..Len(Steps) /\ i # at  BY KnownSteps
<1>2. Steps[i] # Step  BY <1>1, KnownSteps, PlacesOfSteps DEF Step
<1> QED  BY <1>2 DEF Makes

\* Nothing takes a key out of the bag.
LEMMA BagGrows ==
  ASSUME BuildTypeOK, [BuildNext]_allVars
  PROVE  bag \subseteq bag'
<1>1. CASE Ran  BY <1>1 DEF Ran, Finish
<1>2. CASE LoopHead \/ Panicked \/ Called \/ Cleaned \/ Return \/ Cancel \/ NoteCancel
           \/ UNCHANGED build
  BY <1>2 DEF LoopHead, Panicked, Called, Cleaned, Return, Cancel, NoteCancel, build
<1> QED  BY <1>1, <1>2, StepForms DEF allVars

LEMMA DoneKept ==
  ASSUME BuildTypeOK, DoneInv, StopInv, [BuildNext]_allVars
  PROVE  DoneInv'
<1>1. at \in 0..Len(Steps) /\ Len(Steps) \in 13..15 /\ config \in ConfigType
  BY KnownSteps
<1>n. at \in Nat  BY <1>1
<1>m. ASSUME NEW a \in Nat, NEW i  PROVE /\ i \in 1..(a - 1) => i \in 1..(a - 1)
                                         /\ i \in 1..((a - 1) - 1) => i \in 1..(a - 1)
  OBVIOUS
<1>k. FirstKeys \subseteq bag'  BY BagGrows DEF DoneInv
<1> DEFINE Done(j, b, h) == \A i \in 1..j : Gives(Steps[i]) \subseteq b /\ Makes(Steps[i]) \subseteq h
<1>2. Done(at - 1, bag, host)  BY DEF DoneInv
<1>3. config' = config /\ Done(at' - 1, bag', host') => DoneInv'
  <2> SUFFICES ASSUME config' = config, Done(at' - 1, bag', host'), NEW i \in 1..(at' - 1)
               PROVE  (Gives(Steps[i]))' \subseteq bag' /\ Makes(Steps'[i]) \subseteq host'
    BY <1>k DEF DoneInv, FirstKeys
  <2>1. Steps' = Steps /\ (Gives(Steps[i]))' = Gives(Steps[i])
    BY DEF Steps, Gives
  <2> QED  BY <2>1
<1> HIDE DEF Done
<1>4. ASSUME config' = config, at' \in {at, at - 1}, bag \subseteq bag', host \subseteq host'
      PROVE  DoneInv'
  <2>1. \A i \in 1..(at' - 1) : i \in 1..(at - 1)
    <3>1. CASE at' = at  BY <3>1
    <3>2. CASE at' = at - 1  BY <1>n, <1>m, <3>2
    <3> QED  BY <1>4, <3>1, <3>2
  <2>2. Done(at' - 1, bag', host')  BY <1>2, <1>4, <2>1, Zenon DEF Done
  <2> QED  BY <1>3, <1>4, <2>2
<1>5. CASE LoopHead  BY <1>4, <1>5 DEF LoopHead
<1>6. CASE Ran
  <2>1. PICK action \in {"continue", "halt"}, keys \in SUBSET Keys, new \in SUBSET Things :
          Finish(action, keys, new) /\ Outcome(action, keys, new)
    BY <1>6 DEF Ran
  <2>2. keys \in SUBSET (Keys \ {"cancelled", "halted"})  BY <2>1 DEF Outcome
  <2>3. /\ phase = "run" /\ host' = new /\ bag \cup keys \subseteq bag' /\ config' = config
        /\ \/ at' = at + 1 /\ action = "continue"
           \/ at' = at
    BY <2>1, <2>2, FinishRunner
  <2>4. at > 0  BY <2>3 DEF StopInv, Running
  <2>5. \A i \in 1..(at - 1) : Makes(Steps[i]) \subseteq new
    <3> SUFFICES ASSUME NEW i \in 1..(at - 1)  PROVE Makes(Steps[i]) \subseteq new
      OBVIOUS
    <3>1. Makes(Steps[i]) \subseteq host  BY <1>2 DEF Done
    <3>2. CASE Step # "outputDir"  BY <2>1, <3>1, <3>2 DEF Outcome
    <3>3. CASE Step = "outputDir"
      <4>1. Step = Steps[at]  BY DEF Step
      <4>2. at = 2  BY <1>1, <2>4, <3>3, <4>1, ListOfSteps, PlacesOfSteps
      <4>3. i = 1  BY <4>2
      <4>4. Steps[i] = "download"  BY <1>1, <4>3, ListOfSteps
      <4> QED  BY <4>4 DEF Makes
    <3> QED  BY <3>2, <3>3
  <2>6. action = "continue" => Gives(Step) \subseteq bag' /\ Makes(Step) \subseteq host'
    BY <2>1, <2>3 DEF Outcome
  <2>7. \A i \in 1..(at' - 1) : i \in 1..(at - 1) \/ (i = at /\ action = "continue")
    BY <1>1, <2>3
  <2>8. Done(at' - 1, bag', host')
    BY <1>2, <2>3, <2>5, <2>6, <2>7 DEF Done, Step
  <2> QED  BY <1>3, <2>3, <2>8
<1>7. CASE Panicked  BY <1>4, <1>7 DEF Panicked
<1>8. CASE Cleaned
  <2>1. at > 0 /\ at' \in {at, at - 1} /\ bag' = bag /\ config' = config  BY <1>8 DEF Cleaned
  <2>2. ASSUME NEW i \in 1..(at - 1)
        PROVE  Makes(Steps[i]) \subseteq host'
    <3>1. Makes(Steps[i]) \subseteq host  BY <1>2 DEF Done
    <3>2. CASE host \ host' \subseteq Makes(Step) \cap Owned
      <4>1. Makes(Steps[i]) \cap Makes(Step) = {}  BY <2>1, MadeOnce
      <4> QED  BY <3>1, <3>2, <4>1
    <3>3. CASE Step = "outputDir"
      <4>1. at = 2  BY <1>1, <2>1, <3>3, PlacesOfSteps DEF Step
      <4>2. Steps[i] = "download"  BY <1>1, <4>1, ListOfSteps
      <4> QED  BY <4>2 DEF Makes
    <3> QED  BY <1>8, <3>2, <3>3 DEF Cleaned
  <2>3. \A i \in 1..(at' - 1) : i \in 1..(at - 1)
    <3>1. CASE at' = at  BY <3>1
    <3>2. CASE at' = at - 1  BY <1>n, <1>m, <3>2
    <3> QED  BY <2>1, <3>1, <3>2
  <2>4. Done(at' - 1, bag', host')
    BY <1>2, <2>1, <2>2, <2>3, Zenon DEF Done
  <2> QED  BY <1>3, <2>1, <2>4
<1>9. CASE Return  BY <1>4, <1>9 DEF Return
<1>10. CASE Cancel \/ NoteCancel  BY <1>4, <1>10 DEF Cancel, NoteCancel
<1>11. CASE UNCHANGED build  BY <1>4, <1>11 DEF build
<1> QED
  BY <1>5, <1>6, <1>7, <1>8, <1>9, <1>10, <1>11, StepForms DEF Called, allVars

-----------------------------------------------------------------------------
(* How a build stops is known to its cleanups.                              *)

LEMMA StopKept ==
  ASSUME BuildTypeOK, StopInv, [BuildNext]_allVars
  PROVE  StopInv'
<1>1. at \in Nat /\ phase \in {"loop", "run", "cleanup", "done"}
  BY KnownSteps DEF BuildTypeOK
<1> USE DEF StopInv, Running
<1>2. CASE LoopHead  BY <1>1, <1>2 DEF LoopHead, Abandoned
<1>3. CASE Ran
  <2>1. PICK action \in {"continue", "halt"}, keys \in SUBSET Keys, new \in SUBSET Things :
          Finish(action, keys, new) /\ Outcome(action, keys, new)
    BY <1>3 DEF Ran
  <2>2. /\ keys \in SUBSET (Keys \ {"cancelled", "halted"})
        /\ action = "continue" => "error" \notin keys
    BY <2>1 DEF Outcome
  <2>3. phase = "run" /\ UNCHANGED result /\ bag \subseteq bag'
    BY <2>1, <2>2, FinishRunner
  <2>4. CASE /\ phase' = "loop" /\ at' = at + 1 /\ action = "continue"
             /\ "cancelled" \notin bag /\ bag' = bag \cup keys
    BY <1>1, <2>2, <2>3, <2>4 DEF Abandoned
  <2>5. CASE phase' = "cleanup" /\ Abandoned'
    BY <2>3, <2>5
  <2>6. CASE phase' = "cleanup" /\ action = "continue" /\ bag' = bag \cup keys
    BY <2>2, <2>3, <2>6 DEF Abandoned
  <2> QED  BY <2>1, <2>2, <2>4, <2>5, <2>6, FinishRunner
<1>4. CASE Panicked  BY <1>1, <1>4 DEF Panicked, Abandoned
<1>5. CASE Cleaned  BY <1>1, <1>5 DEF Cleaned, Abandoned
<1>6. CASE Return
  <2>1. /\ phase = "cleanup" /\ at' = 0 /\ phase' = "done" /\ bag' = bag
        /\ result' \in {"error", "halted"} => bag \cap {"error", "halted"} # {}
    BY <1>6 DEF Return
  <2> QED  BY <2>1 DEF Abandoned
<1>7. CASE Cancel  BY <1>1, <1>7 DEF Cancel, Abandoned
<1>8. CASE NoteCancel  BY <1>1, <1>8 DEF NoteCancel, Abandoned
<1>9. CASE UNCHANGED build  BY <1>9 DEF build, Abandoned
<1> QED
  BY <1>2, <1>3, <1>4, <1>5, <1>6, <1>7, <1>8, <1>9, StepForms DEF Called, allVars

-----------------------------------------------------------------------------
(* What is left on the host.                                                *)

LEMMA LeftKept ==
  ASSUME BuildTypeOK, DoneInv, StopInv, LeftInv, [BuildNext]_allVars
  PROVE  LeftInv'
<1>1. at \in Nat /\ phase \in {"loop", "run", "cleanup", "done"}
  BY KnownSteps DEF BuildTypeOK
<1> DEFINE Reached == IF phase = "loop" THEN at - 1 ELSE at
           MadeBy(r, j) == \E i \in 1..j : r \in Makes(Steps[i])
<1>2. \A r \in host \cap Owned : r \in gaveUp \/ MadeBy(r, Reached)
  BY DEF LeftInv, Owned
<1>3. ASSUME config' = config, \A r \in host' \cap Owned : r \in gaveUp' \/ MadeBy(r, Reached')
      PROVE  LeftInv'
  <2>1. Steps' = Steps  BY <1>3, SameSteps
  <2> QED  BY <1>3, <2>1 DEF LeftInv, Owned
<1>4. ASSUME config' = config, Reached' = Reached, host' \subseteq host, gaveUp \subseteq gaveUp'
      PROVE  LeftInv'
  BY <1>2, <1>3, <1>4
<1> HIDE DEF MadeBy
<1>5. CASE LoopHead
  <2>1. Reached = at - 1 /\ Reached' \in {at - 1, at}  BY <1>1, <1>5 DEF LoopHead
  <2>2. \A i \in 1..(at - 1) : i \in 1..at  BY <1>1
  <2>3. \A r : MadeBy(r, at - 1) => MadeBy(r, at)  BY <2>2 DEF MadeBy
  <2>4. config' = config /\ host' = host /\ gaveUp' = gaveUp  BY <1>5 DEF LoopHead
  <2> QED  BY <1>2, <1>3, <2>1, <2>3, <2>4
<1>6. CASE Ran
  <2>1. PICK action \in {"continue", "halt"}, keys \in SUBSET Keys, new \in SUBSET Things :
          Finish(action, keys, new) /\ Outcome(action, keys, new)
    BY <1>6 DEF Ran
  <2>2. keys \in SUBSET (Keys \ {"cancelled", "halted"})  BY <2>1 DEF Outcome
  <2>3. /\ phase = "run" /\ host' = new /\ config' = config /\ gaveUp' = gaveUp
        /\ \/ phase' = "loop" /\ at' = at + 1
           \/ phase' = "cleanup" /\ at' = at
    BY <2>1, <2>2, FinishRunner
  <2>4. Reached = at /\ Reached' = at /\ at > 0
    BY <1>1, <2>3 DEF StopInv, Running
  <2>5. \A r \in new \cap Owned : r \in host \/ r \in Makes(Step)
    BY <2>1 DEF Outcome, Owned
  <2>6. at \in 1..at  BY <1>1, <2>4
  <2>7. \A r : r \in Makes(Step) => MadeBy(r, at)
    BY <2>6 DEF MadeBy, Step
  <2> QED  BY <1>2, <1>3, <2>3, <2>4, <2>5, <2>7
<1>7. CASE Panicked
  <2>1. Reached' = Reached  BY <1>7 DEF Panicked
  <2> QED  BY <1>4, <1>7, <2>1 DEF Panicked
<1>8. CASE Cleaned
  <2>1. /\ phase = "cleanup" /\ phase' = "cleanup" /\ config' = config /\ at > 0
        /\ at' \in {at, at - 1} /\ host' \subseteq host /\ gaveUp \subseteq gaveUp'
        /\ at' = at - 1 => Makes(Step) \cap Owned \cap host' \subseteq gaveUp'
    BY <1>8 DEF Cleaned
  <2>2. Reached = at /\ Reached' = at'  BY <2>1
  <2>3. CASE at' = at  BY <1>4, <2>1, <2>2, <2>3
  <2>4. CASE at' = at - 1
    <3>1. ASSUME NEW r \in host' \cap Owned, r \notin gaveUp'
          PROVE  MadeBy(r, at - 1)
      <4>1. r \in host /\ r \notin gaveUp  BY <2>1, <3>1
      <4>2. PICK i \in 1..at : r \in Makes(Steps[i])
        BY <1>2, <2>2, <3>1, <4>1 DEF MadeBy
      <4>3. i # at  BY <2>1, <2>4, <3>1, <4>2 DEF Step
      <4>4. i \in 1..(at - 1)  BY <1>1, <4>3
      <4> QED  BY <4>2, <4>4 DEF MadeBy
    <3> QED  BY <1>3, <2>1, <2>2, <2>4, <3>1
  <2> QED  BY <2>1, <2>3, <2>4
<1>9. CASE Return
  <2>1. Reached' = Reached  BY <1>9 DEF Return
  <2> QED  BY <1>4, <1>9, <2>1 DEF Return
<1>10. CASE Cancel \/ NoteCancel
  <2>1. Reached' = Reached  BY <1>10 DEF Cancel, NoteCancel
  <2> QED  BY <1>4, <1>10, <2>1 DEF Cancel, NoteCancel
<1>11. CASE UNCHANGED build
  <2>1. Reached' = Reached  BY <1>11 DEF build
  <2> QED  BY <1>4, <1>11, <2>1 DEF build
<1> QED
  BY <1>5, <1>6, <1>7, <1>8, <1>9, <1>10, <1>11, StepForms DEF Called, allVars

-----------------------------------------------------------------------------
(* The output directory, and the VM's image in it.                          *)

\* What the driver and the guest do meanwhile to the client's view.
LEMMA BackgroundClient ==
  ASSUME StartReturns \/ WaitReturns \/ Monitor \/ Guest
  PROVE  /\ client \in {"idle", "panicked"} => client' = client
         /\ client' = "waiting" => client = "waiting" /\ answer' = answer
         /\ answer' \in {answer, "down", "timeout"}
         /\ answer' # answer => client = "waiting"
<1> USE DEF calls, Publish
<1>1. CASE StartReturns
  BY <1>1 DEF StartReturns, StartTimeout, StartEarlyEnd, StartEarlyError, StartReturnError
<1>2. CASE WaitReturns  BY <1>2 DEF WaitReturns, WaitReceive, WaitCancel
<1>3. CASE Monitor
  BY <1>3 DEF Monitor, MonitorCommand, MonitorStartOk, MonitorStartFail, MonitorReboot,
              MonitorExit, MonitorCopyError, MonitorSend, MonitorClear
<1>4. CASE Guest  BY <1>4 DEF Guest, ProcessExit
<1> QED  BY <1>1, <1>2, <1>3, <1>4

LEMMA OutputKept ==
  ASSUME BuildTypeOK, DoneInv, StopInv, OutputInv, [BuildNext]_allVars
  PROVE  OutputInv'
<1>1. /\ at \in Nat /\ phase \in {"loop", "run", "cleanup", "done"}
      /\ config \in ConfigType /\ Len(Steps) \in 13..15
  BY KnownSteps DEF BuildTypeOK
<1> USE DEF StopInv, OutputInv, Running, Complete
<1>2. ASSUME UNCHANGED <<config, at, host, gaveUp, result>>,
             phase' = phase \/ (Running /\ Running'),
             bag' \cap {"error", "halted"} = bag \cap {"error", "halted"},
             bag \subseteq bag',
             phase = "cleanup" => (client = "panicked" => client' = "panicked")
      PROVE  OutputInv'
  BY <1>1, <1>2 DEF Abandoned
<1>3. CASE LoopHead
  <2>1. CASE ctxDone
    <3>1. /\ phase = "loop" /\ phase' = "cleanup" /\ bag' = bag \cup {"cancelled"}
          /\ UNCHANGED <<host, result>>
      BY <1>3, <2>1 DEF LoopHead
    <3>2. Abandoned' /\ bag' \cap {"error", "halted"} = {} /\ result' = "none"
      BY <3>1 DEF Abandoned
    <3> QED  BY <3>1, <3>2
  <2>2. CASE ~ctxDone  BY <1>2, <1>3, <2>2 DEF LoopHead, vars, calls
  <2> QED  BY <2>1, <2>2
<1>4. CASE Ran
  <2>1. PICK action \in {"continue", "halt"}, keys \in SUBSET Keys, new \in SUBSET Things :
          Finish(action, keys, new) /\ Outcome(action, keys, new)
    BY <1>4 DEF Ran
  <2>2. keys \in SUBSET (Keys \ {"cancelled", "halted"})  BY <2>1 DEF Outcome
  <2>3. /\ phase = "run" /\ host' = new /\ bag \cup keys \subseteq bag'
        /\ \/ /\ phase' = "loop" /\ at' = at + 1 /\ at < Len(Steps)
              /\ action = "continue"
           \/ /\ phase' = "cleanup" /\ at' = at
              /\ \/ Abandoned'
                 \/ action = "continue" /\ at = Len(Steps)
        /\ UNCHANGED <<config, gaveUp, result>>
    BY <2>1, <2>2, FinishRunner
  <2>4. at \in 1..Len(Steps) /\ result = "none"
    BY <1>1, <2>3, KnownSteps
  <2>5. at = 1 => host' = host
    BY <1>1, <2>1, <2>3, ListOfSteps DEF Step, Outcome
  <2>6. Running' => host' \cap {"image", "partial", "snapshot"} = {}
    <3> SUFFICES ASSUME Running'  PROVE host' \cap {"image", "partial", "snapshot"} = {}
      OBVIOUS
    <3>1. at < Len(Steps)  BY <2>3
    <3>2. Step # "snapshot"  BY <1>1, <2>4, <3>1, PlacesOfSteps DEF Step
    <3> QED  BY <2>1, <2>3, <3>2 DEF Outcome
  <2>7. Running' /\ at' <= 2 => host' \cap Output \in {{}, {"outDir", "stale"}}
    BY <1>1, <2>3, <2>4, <2>5
  <2>8. ~Running' /\ at' < 2 /\ "outDir" \in host' => host' \cap Output = {"outDir", "stale"}
    <3> SUFFICES ASSUME ~Running', at' < 2, "outDir" \in host'
                 PROVE  host' \cap Output = {"outDir", "stale"}
      OBVIOUS
    <3>1. at = 1  BY <2>3, <2>4
    <3>2. host' = host /\ host \cap Output \in {{}, {"outDir", "stale"}}
      BY <2>3, <2>5, <3>1
    <3>3. "outDir" \in host \cap Output  BY <3>2 DEF Output
    <3> QED  BY <3>2, <3>3
  <2>9. phase' = "cleanup" /\ ~Abandoned' => Complete'
    <3> SUFFICES ASSUME phase' = "cleanup", ~Abandoned'  PROVE Complete'
      OBVIOUS
    <3>1. action = "continue" /\ at = Len(Steps)  BY <2>3
    <3>2. Step = IF config.zvol THEN "snapshot" ELSE "shutdown"
      BY <1>1, <3>1, PlacesOfSteps DEF Step
    <3>3. 2 \in 1..(at - 1) /\ 6 \in 1..(at - 1)  BY <1>1, <3>1
    <3>4. Makes(Steps[2]) \subseteq host /\ Makes(Steps[6]) \subseteq host
      BY <3>3 DEF DoneInv
    <3>5. "outDir" \in host /\ (~config.zvol => "disk" \in host)
      BY <1>1, <3>4, ListOfSteps DEF Makes
    <3>6. host \subseteq new  BY <2>1, <3>2 DEF Outcome
    <3>7. config.zvol => "image" \in new  BY <2>1, <3>1, <3>2 DEF Outcome, Makes
    <3>8. new \cap {"partial", "snapshot"} \subseteq host  BY <2>1, <3>1 DEF Outcome
    <3> QED  BY <2>3, <3>5, <3>6, <3>7, <3>8
  <2> QED  BY <2>3, <2>4, <2>6, <2>7, <2>8, <2>9
<1>5. CASE Panicked
  <2>1. client' = "panicked" /\ phase' = "cleanup" /\ phase = "run"
        /\ UNCHANGED <<at, bag, host, gaveUp, result>>
    BY <1>5 DEF Panicked, vars, calls
  <2> QED  BY <2>1 DEF Abandoned
<1>6. CASE Called  BY <1>2, <1>6 DEF Called, build
<1>7. CASE Cleaned
  <2>1. /\ phase = "cleanup" /\ phase' = "cleanup" /\ at > 0 /\ at' \in {at, at - 1}
        /\ UNCHANGED <<config, bag, result, client>>
        /\ host' \subseteq host /\ gaveUp \subseteq gaveUp'
    BY <1>7 DEF Cleaned, calls
  <2>2. Step = "outputDir" <=> at = 2
    BY <1>1, <2>1, KnownSteps, ListOfSteps, PlacesOfSteps DEF Step
  <2>3. CASE Step # "outputDir" \/ ~Abandoned
    <3>1. host \ host' \subseteq Owned  BY <1>7, <2>3 DEF Cleaned
    <3>2. host' \cap Output = host \cap Output /\ ("snapshot" \in host' <=> "snapshot" \in host)
      BY <2>1, <3>1 DEF Owned, Output
    <3>3. Complete => Complete'  BY <2>1, <3>1, <3>2 DEF Output, Owned
    <3>4. ~Abandoned => bag \cap {"error", "halted"} = {}  BY DEF Abandoned
    <3>5. at' < 2 /\ bag \cap {"error", "halted"} # {} => at < 2
      BY <1>1, <2>1, <2>2, <2>3, <3>4
    <3>6. "outDir" \in host' <=> "outDir" \in host  BY <3>2 DEF Output
    <3> QED  BY <2>1, <3>2, <3>3, <3>5, <3>6 DEF Abandoned
  <2>4. CASE Step = "outputDir" /\ Abandoned
    <3>1. Abandoned'  BY <2>1, <2>4 DEF Abandoned
    <3>2. at' < 2 => at' = at - 1  BY <1>1, <2>1, <2>2, <2>4
    <3>3. at' < 2 /\ "outDir" \in host' => "outDir" \in gaveUp'
      BY <1>7, <2>4, <3>2 DEF Cleaned, Output
    <3> QED  BY <2>1, <3>1, <3>3
  <2> QED  BY <2>3, <2>4
<1>8. CASE Return
  <2>1. /\ phase = "cleanup" /\ phase' = "done" /\ UNCHANGED <<config, at, bag, host, gaveUp, client>>
        /\ result' = "artifact" => client # "panicked" /\ bag \cap {"error", "cancelled", "halted"} = {}
    BY <1>8 DEF Return, vars, calls
  <2>2. result' = "artifact" => Complete  BY <2>1 DEF Abandoned
  <2> QED  BY <2>1, <2>2
<1>9. CASE Cancel  BY <1>2, <1>9 DEF Cancel, vars, calls
<1>10. CASE NoteCancel
  <2>1. bag' \cap {"error", "halted"} = bag \cap {"error", "halted"} /\ bag \subseteq bag'
    BY <1>10 DEF NoteCancel
  <2> QED  BY <1>2, <1>10, <2>1 DEF NoteCancel, vars, calls
<1>11. CASE (StartReturns \/ WaitReturns \/ Monitor \/ Guest) /\ UNCHANGED build
  BY <1>2, <1>11, BackgroundClient DEF build
<1>12. CASE UNCHANGED allVars  BY <1>2, <1>12 DEF allVars, build, vars, calls
<1> QED
  BY <1>3, <1>4, <1>5, <1>6, <1>7, <1>8, <1>9, <1>10, <1>11, <1>12, StepForms

-----------------------------------------------------------------------------
(* The VM is launched and awaited by the steps that are there for it.       *)

LEMMA VMKept ==
  ASSUME BuildTypeOK, StopInv, VMInv, [BuildNext]_allVars
  PROVE  VMInv'
<1>1. /\ at \in Nat /\ phase \in {"loop", "run", "cleanup", "done"}
      /\ config \in ConfigType /\ Len(Steps) \in 13..15 /\ at \in 0..Len(Steps)
  BY KnownSteps DEF BuildTypeOK
<1> DEFINE Launched(j) == \E i \in 1..j : Steps[i] = "bhyve"
           Awaited(j)  == \E i \in 1..(j - 1) : Steps[i] = "shutdown"
<1>2. /\ Running /\ ~Launched(at) => client = "idle"
      /\ client = "waiting" => answer = "none"
      /\ config.shutdown # "stop" => answer \notin {"stopped", "stopErr"}
      /\ Running /\ config.shutdown # "stop" /\ Awaited(at) => answer = "down"
  BY DEF VMInv
<1>3. ASSUME config' = config,
             Running' /\ ~Launched(at') => client' = "idle",
             client' = "waiting" => answer' = "none",
             config.shutdown # "stop" => answer' \notin {"stopped", "stopErr"},
             Running' /\ config.shutdown # "stop" /\ Awaited(at') => answer' = "down"
      PROVE  VMInv'
  <2>1. Steps' = Steps  BY <1>3, SameSteps
  <2> QED  BY <1>3, <2>1 DEF VMInv
<1> HIDE DEF Launched, Awaited
\* A step that leaves the client alone and does not move the runner on.
<1>4. ASSUME config' = config, UNCHANGED calls, Running' => Running /\ at' = at
      PROVE  VMInv'
  BY <1>2, <1>3, <1>4 DEF calls
<1>5. CASE LoopHead  BY <1>4, <1>5 DEF LoopHead, Running, vars
<1>6. CASE Ran
  <2>1. PICK action \in {"continue", "halt"}, keys \in SUBSET Keys, new \in SUBSET Things :
          Finish(action, keys, new) /\ Outcome(action, keys, new)
    BY <1>6 DEF Ran
  <2>2. keys \in SUBSET (Keys \ {"cancelled", "halted"})  BY <2>1 DEF Outcome
  <2>3. /\ phase = "run" /\ config' = config /\ UNCHANGED <<client, answer>>
        /\ \/ phase' = "loop" /\ at' = at + 1 /\ action = "continue"
           \/ phase' = "cleanup" /\ at' = at
    BY <1>6, <2>1, <2>2, FinishRunner DEF Ran, vars, calls
  <2>4. CASE phase' = "cleanup"  BY <1>4, <2>3, <2>4 DEF Running, calls
  <2>5. CASE phase' = "loop" /\ at' = at + 1 /\ action = "continue"
    <3>1. Running  BY <2>3 DEF Running
    <3>2. \A i \in 1..at : i \in 1..(at + 1)  BY <1>1
    <3>3. Launched(at) => Launched(at')  BY <2>5, <3>2 DEF Launched
    <3>4. Awaited(at') => Awaited(at) \/ Step = "shutdown"
      <4>1. \A i \in 1..((at + 1) - 1) : i \in 1..(at - 1) \/ i = at  BY <1>1
      <4> QED  BY <2>5, <4>1 DEF Awaited, Step
    <3>5. Step = "shutdown" /\ config.shutdown # "stop" => answer = "down"
      BY <1>2, <2>1, <2>5 DEF Outcome
    <3> QED  BY <1>2, <1>3, <2>3, <3>1, <3>3, <3>4, <3>5
  <2> QED  BY <2>3, <2>4, <2>5
<1>7. CASE Panicked  BY <1>4, <1>7 DEF Panicked, Running, vars
<1>8. CASE Called
  <2>1. phase = "run" /\ Step \in {"bhyve", "shutdown"} /\ UNCHANGED <<config, at, phase>>
    BY <1>8 DEF Called, build
  <2>2. Running /\ Running' /\ at > 0  BY <2>1 DEF Running, StopInv
  <2>3. Launched(at)
    <3>1. CASE Step = "bhyve"
      <4>1. at \in 1..at  BY <1>1, <2>2
      <4> QED  BY <3>1, <4>1 DEF Launched, Step
    <3>2. CASE Step = "shutdown"
      <4>1. client # "idle"
        BY <1>8, <3>2
        DEF Called, Start, WaitForShutdown, Stop, StopIdle, StopKill, StopError, StopPanic
      <4> QED  BY <1>2, <2>2, <4>1
    <3> QED  BY <2>1, <3>1, <3>2
  <2>4. Step = "shutdown" => ~Awaited(at)
    <3> SUFFICES ASSUME Step = "shutdown", NEW i \in 1..(at - 1)  PROVE Steps[i] # "shutdown"
      BY DEF Awaited
    <3>1. i \in 1..Len(Steps) /\ at \in 1..Len(Steps) /\ i # at  BY <1>1
    <3> QED  BY <1>1, <3>1, PlacesOfSteps DEF Step
  <2>5. CASE Start
    <3>1. client' = "starting" /\ answer' = answer  BY <2>5 DEF Start
    <3> QED  BY <1>2, <1>3, <2>1, <2>2, <2>3, <3>1
  <2>6. CASE WaitForShutdown
    <3>1. Step = "shutdown" /\ answer = "none"  BY <1>8, <2>6 DEF Called
    <3>2. \/ answer' = "down" /\ client' = "ready"
          \/ answer' = "none" /\ client' = "waiting"
      BY <2>6, <3>1 DEF WaitForShutdown
    <3> QED  BY <1>3, <2>1, <2>3, <2>4, <3>1, <3>2
  <2>7. CASE Stop
    <3>1. config.shutdown = "stop" /\ client' \in {"ready", "panicked"}
      BY <1>8, <2>7 DEF Called, Stop, StopIdle, StopKill, StopError, StopPanic
    <3> QED  BY <1>3, <2>1, <2>3, <3>1
  <2> QED  BY <1>8, <2>5, <2>6, <2>7 DEF Called
<1>9. CASE Cleaned  BY <1>4, <1>9 DEF Cleaned, Running
<1>10. CASE Return  BY <1>4, <1>10 DEF Return, Running, vars
<1>11. CASE Cancel \/ NoteCancel  BY <1>4, <1>11 DEF Cancel, NoteCancel, Running, vars
<1>12. CASE (StartReturns \/ WaitReturns \/ Monitor \/ Guest) /\ UNCHANGED build
  <2>1. UNCHANGED <<config, at, phase>>  BY <1>12 DEF build
  <2>2. Running' <=> Running  BY <2>1 DEF Running
  <2> QED  BY <1>2, <1>3, <1>12, <2>1, <2>2, BackgroundClient
<1>13. CASE UNCHANGED allVars  BY <1>4, <1>13 DEF allVars, build, vars, Running
<1> QED
  BY <1>5, <1>6, <1>7, <1>8, <1>9, <1>10, <1>11, <1>12, <1>13, StepForms

-----------------------------------------------------------------------------
(* The inductive invariant.                                                 *)

LEMMA BuildInitInv == BuildInit => BuildInv
<1> SUFFICES ASSUME BuildInit PROVE BuildInv
  OBVIOUS
<1>1. DriverInv  BY InitInv DEF BuildInit
<1>2. /\ config \in Configs /\ config \in ConfigType
      /\ at = 1 /\ phase = "loop" /\ ctxDone = FALSE /\ bag = FirstKeys
      /\ host \in {{}, {"outDir", "stale"}}
      /\ tries = 0 /\ gaveUp = {} /\ result = "none"
      /\ client = "idle" /\ answer = "none"
  BY ConfigsAssumption DEF BuildInit, Init
<1>3. Len(Steps) \in 13..15  BY <1>2, PlacesOfSteps
<1>k. bag \subseteq Keys \ {"error", "cancelled", "halted"}  BY <1>2 DEF FirstKeys, Keys
<1>4. BuildTypeOK
  <2>1. at \in 0..Len(Steps)
    <3>1. \A n \in 13..15 : 1 \in 0..n  OBVIOUS
    <3> QED  BY <1>2, <1>3, <3>1
  <2>2. host \subseteq Things  BY <1>2 DEF Things, Output
  <2>3. tries \in 0..4  BY <1>2
  <2> QED  BY <1>1, <1>2, <1>k, <2>1, <2>2, <2>3 DEF BuildTypeOK, DriverInv
<1>5. DoneInv  BY <1>2 DEF DoneInv
<1>6. StopInv  BY <1>2, <1>k DEF StopInv, Running
<1>7. LeftInv  BY <1>2 DEF LeftInv
<1>8. OutputInv  BY <1>2 DEF OutputInv, Output, Running
<1>9. VMInv  BY <1>2 DEF VMInv
<1> QED  BY <1>1, <1>4, <1>5, <1>6, <1>7, <1>8, <1>9 DEF BuildInv

LEMMA BuildNextInv == BuildInv /\ [BuildNext]_allVars => BuildInv'
  BY DriverInvKept, BuildTypesKept, DoneKept, StopKept, LeftKept, OutputKept, VMKept
  DEF BuildInv

\* The invariant from which the properties below follow: the driver's, and how
\* the bag, the host and the client of the driver follow the runner.
THEOREM BuildInvariant == BuildSpec => []BuildInv
  BY BuildInitInv, BuildNextInv, PTL DEF BuildSpec

\* Type correctness of the runner, of its bag and of the host it leaves.
THEOREM BuildTypeCorrect == BuildSpec => []BuildTypeOK
<1>1. BuildInv => BuildTypeOK  BY DEF BuildInv
<1> QED  BY <1>1, BuildInvariant, PTL

-----------------------------------------------------------------------------
(* The safety properties.                                                   *)

\* A build that returns an artifact has the whole disk in its output directory
\* and has left no snapshot (builder.go:113-151).
THEOREM CompleteArtifact == BuildSpec => []ArtifactIsComplete
<1>1. BuildInv => ArtifactIsComplete
  BY DEF BuildInv, OutputInv, Complete, ArtifactIsComplete
<1> QED  BY <1>1, BuildInvariant, PTL

\* No step's type assertion on a key of the state bag panics, in any of the
\* lists of steps a configuration gives (builder.go:35-110, driver.go:57-86,
\* step_type_boot_command.go:57-85).
THEOREM NoKeyMissing == BuildSpec => []KeysPresent
<1>1. BuildInv => KeysPresent
  <2> SUFFICES ASSUME BuildInv, phase = "run"  PROVE Reads(Step) \subseteq bag
    BY DEF KeysPresent
  <2>1. /\ config \in ConfigType /\ Len(Steps) \in 13..15 /\ at \in 1..Len(Steps)
        /\ \A i \in 1..(at - 1) : Gives(Steps[i]) \subseteq bag
    BY KnownSteps DEF BuildInv, DoneInv, StopInv, Running
  <2>f. /\ {"config", "debug", "ui", "driver"} \subseteq bag
        /\ config.debug => "pauseFn" \in bag
    BY DEF BuildInv, DoneInv, FirstKeys
  <2>2. CASE Step = "bhyve"
    <3>1. at > 7 /\ Steps[at - 1] = "vnc"  BY <2>1, <2>2, PlacesOfSteps DEF Step
    <3>2. 1 \in 1..(at - 1) /\ 6 \in 1..(at - 1) /\ at - 1 \in 1..(at - 1)  BY <2>1, <3>1
    <3>3. /\ Gives(Steps[1]) \subseteq bag /\ Gives(Steps[6]) \subseteq bag
          /\ Gives(Steps[at - 1]) \subseteq bag
      BY <2>1, <3>2
    <3>4. {"iso_path", "bhyve_disk_path", "vnc_port", "vnc_password"} \subseteq bag
      BY <2>1, <3>1, <3>3, ListOfSteps DEF Gives
    <3> QED  BY <2>f, <2>2, <3>4 DEF Reads
  <2>3. CASE Step = "type"
    <3>1. at > 8 /\ Steps[at - 2] = "vnc"  BY <2>1, <2>3, PlacesOfSteps DEF Step
    <3>2. 4 \in 1..(at - 1) /\ 5 \in 1..(at - 1) /\ at - 2 \in 1..(at - 1)  BY <2>1, <3>1
    <3>3. /\ Gives(Steps[4]) \subseteq bag /\ Gives(Steps[5]) \subseteq bag
          /\ Gives(Steps[at - 2]) \subseteq bag
      BY <2>1, <3>2
    <3>4. {"http_port", "http_ip", "vnc_port"} \subseteq bag
      BY <2>1, <3>1, <3>3, ListOfSteps DEF Gives
    <3>5. Reads(Step) \subseteq {"config", "debug", "ui", "http_port", "http_ip", "vnc_port"}
                                \cup (IF config.debug THEN {"pauseFn"} ELSE {})
      BY <2>3 DEF Reads
    <3> QED  BY <2>f, <3>4, <3>5
  <2>4. CASE Step = "shutdown"
    <3>1. at > 8 /\ Steps[at - 2] = "connect"  BY <2>1, <2>4, PlacesOfSteps DEF Step
    <3>2. at - 2 \in 1..(at - 1)  BY <2>1, <3>1
    <3>3. Gives(Steps[at - 2]) \subseteq bag  BY <2>1, <3>2
    <3>4. config.shutdown = "command" => {"communicator"} \subseteq bag
      BY <3>1, <3>3 DEF Gives
    <3>5. Reads(Step) \subseteq {"driver", "ui"}
                                \cup (IF config.shutdown = "command" THEN {"communicator"} ELSE {})
      BY <2>4 DEF Reads
    <3> QED  BY <2>f, <3>4, <3>5
  <2>5. CASE Step \notin {"bhyve", "type", "shutdown"}
    <3>1. Reads(Step) \subseteq {"config", "ui"}  BY <2>5 DEF Reads
    <3> QED  BY <2>f, <3>1
  <2> QED  BY <2>2, <2>3, <2>4, <2>5
<1> QED  BY <1>1, BuildInvariant, PTL

\* A bhyve that bhyvectl has not destroyed has its disk, its VNIC and the lock
\* on its VNC port, whatever the cleanups do (builder.go:71-85).
THEOREM VMKeepsItsResources == BuildSpec => []VMHasItsResources
<1>1. BuildInv => VMHasItsResources
  <2> SUFFICES ASSUME BuildInv, VMMayRun, proc = "alive"
               PROVE  {"outDir", "portLock"}
                        \cup (IF config.zvol THEN {"zvol"} ELSE {"disk"})
                        \cup (IF config.vnic THEN {"vnic"} ELSE {}) \subseteq host
    BY DEF VMHasItsResources
  <2>1. /\ config \in ConfigType /\ Len(Steps) \in 13..15 /\ at \in 0..Len(Steps)
        /\ \A i \in 1..(at - 1) : Makes(Steps[i]) \subseteq host
    BY KnownSteps DEF BuildInv, DoneInv
  <2>2. client # "idle"
    <3>1. monitor # "none"  BY DEF BuildInv, DriverInv, ProcessInv
    <3> QED  BY <3>1 DEF BuildInv, DriverInv, HandleInv
  <2>3. PICK b \in 1..at : Steps[b] = "bhyve"
    BY <2>2 DEF VMMayRun, BuildInv, VMInv, Running
  <2>4. /\ b \in 1..Len(Steps) /\ b > 7 /\ Steps[b - 1] = "vnc"
        /\ config.vnic => b > 8
    BY <2>1, <2>3, PlacesOfSteps
  <2>5. /\ 2 \in 1..(at - 1) /\ 6 \in 1..(at - 1) /\ b - 1 \in 1..(at - 1)
        /\ config.vnic => 7 \in 1..(at - 1)
    BY <2>1, <2>3, <2>4
  <2>6. /\ Makes(Steps[2]) \subseteq host /\ Makes(Steps[6]) \subseteq host
        /\ Makes(Steps[b - 1]) \subseteq host
        /\ config.vnic => Makes(Steps[7]) \subseteq host
    BY <2>1, <2>5
  <2>7. "outDir" \in host /\ "portLock" \in host
    BY <2>1, <2>4, <2>6, ListOfSteps DEF Makes
  <2>8. IF config.zvol THEN "zvol" \in host ELSE "disk" \in host
    BY <2>1, <2>6, ListOfSteps DEF Makes
  <2>9. config.vnic => "vnic" \in host
    BY <2>1, <2>6, ListOfSteps DEF Makes
  <2> QED  BY <2>7, <2>8, <2>9
<1> QED  BY <1>1, BuildInvariant, PTL

\* A build that is over holds no port, no zvol and no VNIC that it has not
\* logged, panic or not (step_configure_vnc.go:88-95, step_create_zvol.go:61-77,
\* step_create_vnic.go:57-73).
THEOREM NoSilentLeak == BuildSpec => []NothingLeaksSilently
<1>1. BuildInv => NothingLeaksSilently
  <2> SUFFICES ASSUME BuildInv, phase = "done", NEW r \in host \cap {"zvol", "vnic", "portLock"}
               PROVE  r \in gaveUp
    BY DEF NothingLeaksSilently
  <2>1. at = 0  BY DEF BuildInv, StopInv
  <2>2. r \in gaveUp \/ \E i \in 1..0 : r \in Makes(Steps[i])
    BY <2>1 DEF BuildInv, LeftInv
  <2> QED  BY <2>2
<1> QED  BY <1>1, BuildInvariant, PTL

\* What a failed build leaves of an output directory is logged, or is an
\* earlier build's and untouched (step_prepare_output_dir.go:32-50).
THEOREM FailureLeavesNoOutput == BuildSpec => []FailedBuildLeavesNoOutput
<1>1. BuildInv => FailedBuildLeavesNoOutput
  <2> SUFFICES ASSUME BuildInv, result \in {"error", "halted"}, "outDir" \in host
               PROVE  "outDir" \in gaveUp \/ host \cap Output = {"outDir", "stale"}
    BY DEF FailedBuildLeavesNoOutput
  <2>1. phase \in {"loop", "run", "cleanup", "done"}  BY DEF BuildInv, BuildTypeOK
  <2>2. phase = "done" /\ at = 0 /\ bag \cap {"error", "halted"} # {}
    BY <2>1 DEF BuildInv, StopInv, Running
  <2> QED  BY <2>2 DEF BuildInv, OutputInv, Running
<1> QED  BY <1>1, BuildInvariant, PTL

\* The image is taken of a disk whose VM is down for good: the build that
\* waited for it comes to the snapshot with the driver's word, and that word
\* is final (step_shutdown.go:38-81, step_create_snapshot.go:31-61).
THEOREM StoppedVMImaged == BuildSpec => ImageOfStoppedVM
<1>1. ASSUME BuildInv, [BuildNext]_allVars
      PROVE  [config.shutdown # "stop" /\ ~(host' \cap {"image", "snapshot"} \subseteq host)
                => Ended]_allVars
  <2> SUFFICES ASSUME config.shutdown # "stop", ~(host' \cap {"image", "snapshot"} \subseteq host)
               PROVE  Ended
    OBVIOUS
  <2>1. Ran
    BY <1>1, StepForms
    DEF BuildInv, LoopHead, Panicked, Called, Cleaned, Return, Cancel, NoteCancel, build, allVars
  <2>2. PICK action \in {"continue", "halt"}, keys \in SUBSET Keys, new \in SUBSET Things :
          Finish(action, keys, new) /\ Outcome(action, keys, new)
    BY <2>1 DEF Ran
  <2>3. phase = "run" /\ host' = new  BY <2>2 DEF Finish
  <2>4. Step = "snapshot"  BY <2>2, <2>3 DEF Outcome
  <2>5. /\ config \in ConfigType /\ Len(Steps) \in 13..15 /\ at \in 1..Len(Steps)
    BY <1>1, <2>3, KnownSteps DEF BuildInv, StopInv, Running
  <2>6. at = Len(Steps) /\ config.zvol  BY <2>4, <2>5, PlacesOfSteps DEF Step
  <2>7. Steps[at - 1] = "shutdown" /\ at - 1 \in 1..(at - 1)
    BY <2>5, <2>6, PlacesOfSteps
  <2>8. answer = "down"  BY <1>1, <2>3, <2>7 DEF BuildInv, VMInv, Running
  <2> QED  BY <1>1, <2>8 DEF BuildInv, DriverInv, ProcessInv, HandleInv, Ended
<1> QED  BY <1>1, BuildInvariant, PTL DEF BuildSpec, ImageOfStoppedVM

-----------------------------------------------------------------------------
(* The driver under the build.  The build calls it in an order of its own,  *)
(* stops calling it when it is cancelled, and destroys its VM from outside: *)
(* what was proved of the driver alone holds of it here.                    *)

\* The steps see one virtual machine that is launched once, ends once, and is
\* down for good when they are told so: under the build, too, the driver is the
\* machine its interface promises (driver.go:16-20, step_bhyve.go:23-47,
\* step_shutdown.go:27-95).
THEOREM BuildSeesLifecycle == BuildSpec => ImplementsLifecycle
<1>1. BuildInit => Lifecycle!LifecycleInit
  BY LifecycleInitMaps DEF BuildInit
<1>2. BuildInv /\ [BuildNext]_allVars
        => [Lifecycle!LifecycleNext]_(Lifecycle!lifecycleVars)
  <2> SUFFICES ASSUME BuildInv, [BuildNext]_allVars
      PROVE  [Lifecycle!LifecycleNext]_(Lifecycle!lifecycleVars)
    OBVIOUS
  <2>1. DriverInv /\ BuildTypeOK  BY DEF BuildInv
  <2>2. CASE [Next]_vars  BY <2>1, <2>2, LifecycleStepMaps
  <2>3. CASE UNCHANGED <<fields, calls, loop, retCh, errCh, proc, status, cdrom>>
    BY <2>3 DEF fields, calls, loop, vmState, startState, Lifecycle!lifecycleVars
  <2> QED  BY <2>1, <2>2, <2>3, DriverStep
<1> QED
  BY <1>1, <1>2, BuildInvariant, PTL DEF BuildSpec, ImplementsLifecycle, Lifecycle!LifecycleSpec

\* A VM that the shutdown step was told is down stays down, while its zvol is
\* sent and its resources are removed (driver.go:194-209, step_shutdown.go:38-81).
THEOREM BuildShutdownFinal == BuildSpec => []ShutdownIsFinal
<1>1. BuildInv => ShutdownIsFinal
  BY DEF BuildInv, DriverInv, ProcessInv, HandleInv, ShutdownIsFinal, Ended
<1> QED  BY <1>1, BuildInvariant, PTL

\* A build whose launch has failed cleans up with no bhyve process there
\* (driver.go:165-170, step_bhyve.go:31-36).
THEOREM BuildStartErrorClean == BuildSpec => []StartErrorMeansNoVM
<1>1. BuildInv => StartErrorMeansNoVM
  BY DEF BuildInv, DriverInv, ProcessInv, HandleInv, StartErrorMeansNoVM, Ended
<1> QED  BY <1>1, BuildInvariant, PTL

-----------------------------------------------------------------------------
(* The build makes finitely many steps.                                     *)

\* How many calls the steps still make of the driver, and how many steps the
\* builder's goroutine has still to make, at most: two for each step to be run,
\* and no more than six for each to be cleaned up.
CallsToGo ==
  IF client = "idle" THEN 2
  ELSE IF client \in {"starting", "startErr"} \/ (client = "ready" /\ answer = "none") THEN 1
  ELSE 0

ToGo ==
  LET left == 6 * Len(Steps) + 6 + 2 * (Len(Steps) - at) + CallsToGo
  IN CASE phase = "loop"    -> left + 1
       [] phase = "run"     -> left
       [] phase = "cleanup" -> 6 * at + 5 - tries
       [] phase = "done"    -> 0

\* No step, call or attempt of a cleanup is made again and again, whatever the VM
\* and the host do: every step of the builder's goroutine brings the build nearer
\* to its end, and nothing else takes it back (builder.go:109-111,
\* step_create_zvol.go:61-77, step_create_vnic.go:57-73,
\* step_prepare_output_dir.go:38-50).
BuildAdvances ==
  [](ToGo \in Nat) /\ [][ToGo' <= ToGo /\ (Builder => ToGo' < ToGo)]_allVars

\* A step calls the driver at most twice: the calls are used up, and the driver
\* gives none back.
LEMMA CallsAreUsedUp ==
  /\ CallsToGo \in 0..2
  /\ Called => CallsToGo' < CallsToGo
  /\ StartReturns \/ WaitReturns \/ Monitor \/ Guest => CallsToGo' <= CallsToGo
<1>1. CallsToGo \in 0..2  BY DEF CallsToGo
<1>2. Called => CallsToGo' < CallsToGo
  <2>1. CASE Start  BY <2>1 DEF Start, CallsToGo, calls
  <2>2. ASSUME WaitForShutdown, answer = "none" PROVE CallsToGo' < CallsToGo
    BY <2>2 DEF WaitForShutdown, CallsToGo
  <2>3. ASSUME Stop, answer = "none" PROVE CallsToGo' < CallsToGo
    BY <2>3 DEF Stop, StopIdle, StopKill, StopError, StopPanic, CallsToGo
  <2> QED  BY <2>1, <2>2, <2>3 DEF Called
<1>3. ASSUME StartReturns \/ WaitReturns \/ Monitor \/ Guest
      PROVE  CallsToGo' <= CallsToGo
  <2>1. CASE StartReturns
    BY <2>1 DEF StartReturns, StartTimeout, StartEarlyEnd, StartEarlyError,
                StartReturnError, Publish, calls, CallsToGo
  <2>2. CASE WaitReturns
    BY <2>2 DEF WaitReturns, WaitReceive, WaitCancel, CallsToGo
  <2>3. CASE Monitor \/ Guest
    <3>1. UNCHANGED <<client, answer>>
      BY <2>3 DEF Monitor, MonitorCommand, MonitorStartOk, MonitorStartFail, MonitorReboot,
                  MonitorExit, MonitorCopyError, MonitorSend, MonitorClear, Guest, ProcessExit,
                  calls
    <3>2. CallsToGo' = CallsToGo  BY <3>1 DEF CallsToGo
    <3> QED  BY <1>1, <3>2
  <2> QED  BY <1>3, <2>1, <2>2, <2>3
<1> QED  BY <1>1, <1>2, <1>3

\* ToGo, by the phase of the runner.
ToGoByPhase ==
  /\ phase = "loop" => ToGo = 8 * Len(Steps) + 7 - 2 * at + CallsToGo
  /\ phase = "run" => ToGo = 8 * Len(Steps) + 6 - 2 * at + CallsToGo
  /\ phase = "cleanup" => ToGo = 6 * at + 5 - tries
  /\ phase = "done" => ToGo = 0
  /\ phase \in {"loop", "run", "cleanup", "done"}
  /\ Len(Steps) \in 13..15 /\ at \in 0..Len(Steps) /\ tries \in 0..4
  /\ CallsToGo \in 0..2

LEMMA ToGoIs == BuildTypeOK => ToGoByPhase
<1> SUFFICES ASSUME BuildTypeOK PROVE ToGoByPhase
  OBVIOUS
<1>1. /\ Len(Steps) \in 13..15 /\ at \in 0..Len(Steps) /\ tries \in 0..4
      /\ phase \in {"loop", "run", "cleanup", "done"}
  BY KnownSteps DEF BuildTypeOK
<1>2. CallsToGo \in 0..2  BY CallsAreUsedUp
<1>3. phase = "loop" => ToGo = 8 * Len(Steps) + 7 - 2 * at + CallsToGo
  BY <1>1, <1>2 DEF ToGo
<1>4. phase = "run" => ToGo = 8 * Len(Steps) + 6 - 2 * at + CallsToGo
  BY <1>1, <1>2 DEF ToGo
<1>5. phase = "cleanup" => ToGo = 6 * at + 5 - tries  BY DEF ToGo
<1>6. phase = "done" => ToGo = 0  BY DEF ToGo
<1> QED  BY <1>1, <1>2, <1>3, <1>4, <1>5, <1>6 DEF ToGoByPhase

LEMMA ToGoNat == BuildTypeOK => ToGo \in Nat
<1> SUFFICES ASSUME BuildTypeOK PROVE ToGo \in Nat
  OBVIOUS
<1> QED  BY ToGoIs DEF ToGoByPhase

\* The forms of the builder's steps, each nearer to the end of the build.
LEMMA BuilderAdvances ==
  ASSUME BuildInv, BuildInv', LoopHead \/ Ran \/ Panicked \/ Called \/ Cleaned \/ Return
  PROVE  ToGo' < ToGo
<1>1. BuildTypeOK /\ BuildTypeOK' /\ StopInv  BY DEF BuildInv
<1>2. UNCHANGED vars => CallsToGo' = CallsToGo  BY DEF CallsToGo, vars, calls
<1>3. config' = config
  BY DEF LoopHead, Ran, Finish, Panicked, Called, build, Cleaned, Return
<1>4. Steps' = Steps  BY <1>3, SameSteps
<1>5. ToGoByPhase  BY <1>1, ToGoIs
<1>6. ToGoByPhase'
  <2>1. (BuildTypeOK => ToGoByPhase)'  BY ToGoIs, PTL
  <2> QED  BY <1>1, <2>1
<1> USE <1>5, <1>6 DEF ToGoByPhase
<1>7. CASE LoopHead
  <2>1. \/ at' = at /\ phase' = "run"
        \/ at' = at - 1 /\ phase' = "cleanup"
    BY <1>7 DEF LoopHead
  <2> QED  BY <1>2, <1>4, <1>7, <2>1 DEF LoopHead
<1>8. CASE Ran
  <2>1. /\ phase = "run" /\ UNCHANGED vars
        /\ \/ phase' = "loop" /\ at' = at + 1
           \/ phase' = "cleanup" /\ at' = at
    BY <1>8 DEF Ran, Finish
  <2> QED  BY <1>2, <1>4, <2>1
<1>9. CASE Panicked  BY <1>2, <1>4, <1>9 DEF Panicked
<1>10. CASE Called
  <2>1. CallsToGo' < CallsToGo  BY <1>10, CallsAreUsedUp
  <2>2. phase = "run" /\ UNCHANGED <<phase, at>>  BY <1>10 DEF Called, build
  <2> QED  BY <1>4, <2>1, <2>2
<1>11. CASE Cleaned
  <2>1. /\ phase = "cleanup" /\ phase' = "cleanup"
        /\ at' = at - 1 \/ (at' = at /\ tries < tries')
    BY <1>11 DEF Cleaned
  <2>2. ToGo = 6 * at + 5 - tries /\ ToGo' = 6 * at' + 5 - tries'  BY <2>1
  <2>3. at \in Int /\ at' \in Int /\ tries \in 0..4 /\ tries' \in 0..4  OBVIOUS
  <2>4. \A a, b \in Int : \A m, n \in 0..4 :
          b = a - 1 \/ (b = a /\ m < n) => 6 * b + 5 - n < 6 * a + 5 - m
    BY ONLY SMT
  <2> QED  BY ONLY <2>1, <2>2, <2>3, <2>4
<1>12. CASE Return  BY <1>12 DEF Return
<1> QED  BY <1>7, <1>8, <1>9, <1>10, <1>11, <1>12

\* For every list of steps and whatever the VM, the host and the user do, the
\* builder's goroutine makes a bounded number of steps: two for each step of the
\* list and the calls of the driver, then at most six for each cleanup
\* (builder.go:109-111, step_create_zvol.go:61-77, step_create_vnic.go:57-73,
\* step_prepare_output_dir.go:38-50).
THEOREM BuildIsBounded == BuildSpec => BuildAdvances
<1>1. BuildInv => ToGo \in Nat
  <2>1. BuildInv => BuildTypeOK  BY DEF BuildInv
  <2> QED  BY <2>1, ToGoNat
<1>2. (BuildInv => ToGo \in Nat)'  BY <1>1, PTL
<1>3. ASSUME BuildInv, BuildInv', [BuildNext]_allVars
      PROVE  ToGo' <= ToGo /\ (Builder => ToGo' < ToGo)
  <2>1. ToGo \in Nat /\ ToGo' \in Nat  BY <1>1, <1>2, <1>3
  <2>2. BuildTypeOK /\ Len(Steps) \in 13..15  BY <1>3, KnownSteps DEF BuildInv
  <2>3. Builder => LoopHead \/ Ran \/ Panicked \/ Called \/ Cleaned \/ Return
    BY <2>2, RunOutcome, CleanupOutcome DEF Builder
  <2>4. Builder => ToGo' < ToGo  BY <1>3, <2>3, BuilderAdvances
  <2>5. CASE Builder  BY <2>1, <2>4, <2>5
  <2>6. CASE (Cancel \/ NoteCancel \/ UNCHANGED allVars) /\ ~Builder
    <3>1. UNCHANGED <<client, answer, phase, at, tries, config>>
      BY <2>6 DEF Cancel, NoteCancel, allVars, build, vars, calls
    <3>2. Steps' = Steps /\ CallsToGo' = CallsToGo
      BY <3>1, SameSteps DEF CallsToGo
    <3>3. ToGo' = ToGo  BY <3>1, <3>2 DEF ToGo
    <3> QED  BY <2>1, <2>6, <3>3
  <2>7. CASE (StartReturns \/ WaitReturns \/ Monitor \/ Guest) /\ UNCHANGED build /\ ~Builder
    <3>1. CallsToGo' <= CallsToGo  BY <2>7, CallsAreUsedUp
    <3>2. UNCHANGED <<phase, at, tries, config>>  BY <2>7 DEF build
    <3>3. Steps' = Steps  BY <3>2, SameSteps
    <3>4. ToGoByPhase  BY <2>2, ToGoIs
    <3>5. ToGoByPhase'
      <4>1. (BuildTypeOK => ToGoByPhase)'  BY ToGoIs, PTL
      <4>2. BuildTypeOK'  BY <1>3 DEF BuildInv
      <4> QED  BY <4>1, <4>2
    <3>6. ToGo' <= ToGo  BY <3>1, <3>2, <3>3, <3>4, <3>5 DEF ToGoByPhase
    <3> QED  BY <2>7, <3>6
  <2> QED  BY <1>3, <2>5, <2>6, <2>7 DEF BuildNext, Background
<1>4. BuildSpec => [](ToGo \in Nat)  BY <1>1, BuildInvariant, PTL
<1>5. BuildSpec => [][ToGo' <= ToGo /\ (Builder => ToGo' < ToGo)]_allVars
  BY <1>3, BuildInvariant, PTL DEF BuildSpec
<1> QED  BY <1>4, <1>5 DEF BuildAdvances

-----------------------------------------------------------------------------
(* The steps that wait, and their own models.                               *)

\* Outcomes looks at cancelled only.
TypeOutcome ==
  INSTANCE StepOutcome WITH
    Produces <- {}, MayHalt <- FALSE, answer <- phase, put <- bag, cancelled <- ctxDone

AddressOutcome ==
  INSTANCE StepOutcome WITH
    Produces <- {"guestAddress"}, MayHalt <- TRUE,
    answer <- phase, put <- bag, cancelled <- ctxDone

\* The one action that the build makes of the boot command step is any outcome
\* that BootCommand's step can have, with its keys, and no other; so is that of
\* the address step (step_type_boot_command.go:43-185,
\* step_wait_guest_address.go:26-58).
THEOREM WaitingStepsAreOutcomes ==
  /\ TypeRun <=>
       At("type") /\ (\E o \in TypeOutcome!Outcomes : Finish(o[1], o[2], host)) /\ UNCHANGED vars
  /\ AddressRun <=>
       At("address") /\ (\E o \in AddressOutcome!Outcomes : Finish(o[1], o[2], host))
       /\ UNCHANGED vars
<1>1. \A keys : Continues(keys, {}) <=> Finish("continue", keys, host)
  <2>1. host \cup {} = host  OBVIOUS
  <2> QED  BY <2>1 DEF Continues
<1>2. (\E o \in TypeOutcome!Outcomes : Finish(o[1], o[2], host))
        <=> Continues({}, {}) \/ Fails \/ (ctxDone /\ Halts)
  <2>1. CASE ctxDone
    <3>1. TypeOutcome!Outcomes = {<<"continue", {}>>, <<"halt", {"error"}>>, <<"halt", {}>>}
      BY <2>1 DEF TypeOutcome!Outcomes
    <3> QED  BY <1>1, <2>1, <3>1 DEF Fails, Halts
  <2>2. CASE ~ctxDone
    <3>1. TypeOutcome!Outcomes = {<<"continue", {}>>, <<"halt", {"error"}>>}
      BY <2>2 DEF TypeOutcome!Outcomes
    <3> QED  BY <1>1, <2>2, <3>1 DEF Fails, Halts
  <2> QED  BY <2>1, <2>2
<1>3. (\E o \in AddressOutcome!Outcomes : Finish(o[1], o[2], host))
        <=> Continues({"guestAddress"}, {}) \/ Fails \/ Halts
  BY <1>1 DEF AddressOutcome!Outcomes, Fails, Halts
<1> QED  BY <1>2, <1>3 DEF TypeRun, AddressRun
=============================================================================
