--------------------------- MODULE FenceContract ---------------------------
(***************************************************************************)
(* What a release or retire fence timeline promises its consumers,         *)
(* independently of how sde_fence.c implements it: a fence is issued with  *)
(* the number of a commit that has not been prepared yet, and it signals,  *)
(* once and for ever, when at least that many commits have completed.      *)
(* FenceTimeline, the model of sde_fence.c, is checked and proved to       *)
(* implement this specification.                                           *)
(***************************************************************************)
EXTENDS Naturals

CONSTANTS
  Start,       \* the number of commits so far, when observation begins
  Fences,      \* fence objects
  Offsets      \* how many commits ahead of the timeline a fence may be

VARIABLES
  commits,     \* commits prepared so far
  completed,   \* commits known to have completed
  issued,      \* fences handed out
  due,         \* the commit each issued fence waits for
  signaled     \* fences that have signalled

vars == <<commits, completed, issued, due, signaled>>

Init ==
  /\ commits = Start
  /\ completed = Start
  /\ issued = {}
  /\ due = [f \in Fences |-> 0]
  /\ signaled = {}

(* A commit is accepted: the timeline gets one more point.                 *)
Commit ==
  /\ commits' = commits + 1
  /\ UNCHANGED <<completed, issued, due, signaled>>

(* One commit completes, or all of them are written off.                   *)
Complete ==
  /\ completed < commits
  /\ completed' \in {completed + 1, commits}
  /\ UNCHANGED <<commits, issued, due, signaled>>

(* A fence for a commit that is still to come.                             *)
Issue(f) ==
  /\ f \notin issued
  /\ issued' = issued \union {f}
  /\ \E off \in Offsets : due' = [due EXCEPT ![f] = commits + off]
  /\ UNCHANGED <<commits, completed, signaled>>

(* A fence signals only when its commit has completed.                     *)
Signal(f) ==
  /\ f \in issued \ signaled
  /\ due[f] <= completed
  /\ signaled' = signaled \union {f}
  /\ UNCHANGED <<commits, completed, issued, due>>

Next ==
  \/ Commit
  \/ Complete
  \/ \E f \in Fences : Issue(f) \/ Signal(f)

Spec == Init /\ [][Next]_vars
=============================================================================
