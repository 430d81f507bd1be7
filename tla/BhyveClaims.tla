----------------------------- MODULE BhyveClaims -----------------------------
(***************************************************************************)
(* What comments and messages of the source say that the build does, and   *)
(* the code does not.  Each claim is checked by a run of its own, which    *)
(* finds a behaviour that contradicts it.                                  *)
(***************************************************************************)
EXTENDS BhyveBuild

\* "It first attempts to do so gracefully, but ultimately forcefully shuts it
\* down if that fails" (step_shutdown.go:15-16): when the graceful attempt has
\* timed out, the step does not end with the machine left running.
ForcedAfterTimeout ==
  [][ShutdownReturn /\ answer = "timeout" /\ proc = "alive" => doomed']_allVars

\* "VM shut down." (step_shutdown.go:92): the step after stepShutdown, which
\* takes the snapshot of the disk, finds a machine that was killed down.
DownBeforeSnapshot == phase = "run" /\ Step = "snapshot" /\ doomed => Ended

\* "forcefully shuts it down" (step_shutdown.go:15-16): Stop kills the process
\* of a running machine, after a reboot too, for it was restarted so that the
\* steps after the installation can run (driver.go:96-99).
StopKillsTheVM ==
  [][Stop /\ vmCmd # NoCmd /\ proc = "alive" => doomed']_allVars

\* "3 = triple fault", "4 = exited due to an error", and only power off and
\* halt become success (driver.go:134-148): a build that waited for its VM to
\* shut down, and whose bhyve has exited, succeeds only if bhyve did.
ArtifactOfCleanExit ==
  result = "artifact" /\ config.shutdown # "stop" /\ proc = "reaped" => rc = 0

\* "Stopping bhyve VM" (step_bhyve.go:42-44): after stepBhyve's cleanup, a VM
\* that has booted and not ended is on its way out.  It is not if bhyve exited
\* for a reboot: nothing is there to destroy, and the monitor boots it again.
CleanupStopsTheVM ==
  [][BhyveCleanup /\ vmState = "up" /\ ~first
       => doomed' \/ (proc = "zombie" /\ status # 0)]_allVars

=============================================================================
