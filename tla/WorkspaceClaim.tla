--------------------------- MODULE WorkspaceClaim ---------------------------
(***************************************************************************)
(* What the workspace lock promises (the comment that opens                *)
(* internal/daemon/lock.go): a workspace is claimed by at most one live    *)
(* process, a claim ends when its process gives it up or dies, and a       *)
(* claim left by a dead process never blocks the next claimant.            *)
(***************************************************************************)
CONSTANT Procs

VARIABLES
  owner,   \* the set of processes that hold the claim
  alive    \* the processes that are running

vars == <<owner, alive>>

Init == owner = {} /\ alive = Procs

\* A claim is granted only when no running process holds one.
Claim(p) ==
  /\ p \in alive
  /\ owner = {}
  /\ owner' = {p}
  /\ UNCHANGED alive

GiveUp(p) ==
  /\ p \in owner
  /\ owner' = owner \ {p}
  /\ UNCHANGED alive

Die(p) ==
  /\ p \in alive
  /\ alive' = alive \ {p}
  /\ owner' = owner \ {p}

Next == \E p \in Procs : Claim(p) \/ GiveUp(p) \/ Die(p)

Spec == Init /\ [][Next]_vars
=============================================================================
