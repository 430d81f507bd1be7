---------------------------- MODULE StepOutcome ----------------------------
(***************************************************************************)
(* What the runner and the later steps are told by a step that waits: its  *)
(* Run answers once, and with the answer, not before and not after, the    *)
(* state bag gets what the step produces or its error.  BhyveBuild takes   *)
(* such a step in one action.                                              *)
(***************************************************************************)
CONSTANTS
  Produces, \* the keys that a step that continues has put in the state bag
  MayHalt   \* may it halt without an error though nothing is cancelled?

VARIABLES
  answer,   \* running, continue or halt
  put,      \* the keys the step has put in the state bag
  cancelled \* is the build's context cancelled?

outcomeVars == <<answer, put, cancelled>>

OutcomeInit == answer = "running" /\ put = {} /\ cancelled = FALSE

\* What Run may answer now, with the keys it has put in the bag.  A build is
\* reported as halted, or cancelled, after a halt without an error.
Outcomes ==
  {<<"continue", Produces>>, <<"halt", {"error"}>>}
  \cup (IF cancelled \/ MayHalt THEN {<<"halt", {}>>} ELSE {})

Answers ==
  /\ answer = "running"
  /\ <<answer', put'>> \in Outcomes
  /\ UNCHANGED cancelled

Cancels ==
  /\ ~cancelled /\ cancelled' = TRUE
  /\ UNCHANGED <<answer, put>>

OutcomeNext == Answers \/ Cancels

OutcomeSpec == OutcomeInit /\ [][OutcomeNext]_outcomeVars
=============================================================================
