----------------------------- MODULE Checkpoints -----------------------------
(***************************************************************************)
(* What a restartable build promises, with nothing of how: a build goes    *)
(* through its steps in order, keeps checkpoints of the points it went     *)
(* through, and can be resumed from those and from no other.               *)
(***************************************************************************)
EXTENDS Naturals

CONSTANT Last   \* the number of steps

VARIABLES
    at,     \* the step to run next, all the steps before it being done; 0: no build
    points  \* the steps the build can be resumed at

cpVars == <<at, points>>

CPInit == at = 0 /\ points = {}

\* A build from scratch.
Begin == at = 0 /\ points = {} /\ at' = 1 /\ points' = {}

\* One step is run.
Advance == at \in 1..Last /\ at' = at + 1 /\ UNCHANGED points

\* The point reached is kept.
Keep == at \in 1..Last /\ points' = points \cup {at} /\ UNCHANGED at

\* Points are given up: before they are kept anew, or for a build from scratch.
Forget == points' \subseteq points /\ UNCHANGED at

\* The build is left where it is: stopped, failed, killed or finished.
Leave == at' = 0 /\ UNCHANGED points

Resume == at = 0 /\ at' \in points /\ UNCHANGED points

CPNext == Begin \/ Advance \/ Keep \/ Forget \/ Leave \/ Resume

CPSpec == CPInit /\ [][CPNext]_cpVars

=============================================================================
