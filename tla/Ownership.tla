----------------------------- MODULE Ownership -----------------------------
(***************************************************************************)
(* What builds that run on one host owe to each other: a thing belongs to  *)
(* at most one build, comes from nobody and goes back to nobody, and only  *)
(* by a step of the build it belongs to.  A restless thing, a VM, may come *)
(* and go by itself.                                                       *)
(***************************************************************************)
CONSTANTS
  Builds,   \* the builds
  Things,   \* what a build can own
  Restless, \* the things that come and go while their build does nothing
  NoBuild   \* the owner of what is nobody's

VARIABLES
  owner, \* of each thing
  at     \* where each build is

OwnershipInit == owner = [t \in Things |-> NoBuild]

\* A step of build b: it may take what is nobody's and give up what is its own.
Moves(b) ==
  /\ \A c \in Builds \ {b} : at'[c] = at[c]
  /\ owner' \in [Things -> Builds \cup {NoBuild}]
  /\ \A t \in Things :
       \/ owner'[t] = owner[t]
       \/ /\ {owner[t], owner'[t]} = {NoBuild, b}
          /\ t \in Restless \/ at'[b] # at[b]

OwnershipNext == \E b \in Builds : Moves(b)

OwnershipSpec == OwnershipInit /\ [][OwnershipNext]_<<owner, at>>
=============================================================================
