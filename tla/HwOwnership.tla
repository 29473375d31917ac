---------------------------- MODULE HwOwnership ----------------------------
(***************************************************************************)
(* What the hand-over between the primary and the trusted VM promises: at  *)
(* most one of them has the display hardware, nobody takes it away, and a  *)
(* commit of a VM runs on the hardware only while the VM has it.           *)
(***************************************************************************)
CONSTANTS VMs, First

VARIABLES
  owners,   \* the VMs the hypervisor has given the whole hardware to
  users     \* the VMs of which a commit is at the hardware

vars == <<owners, users>>

Init == owners = {First} /\ users = {}

(* A VM gives the hardware away, when no commit of it is at the hardware.  *)
Give(v) == owners = {v} /\ v \notin users /\ owners' = {} /\ UNCHANGED users
(* A VM gets the hardware that nobody has.                                 *)
Take(v) == owners = {} /\ owners' = {v} /\ UNCHANGED users
Start(v) == v \in owners \ users /\ users' = users \union {v} /\ UNCHANGED owners
Stop(v) == v \in users /\ users' = users \ {v} /\ UNCHANGED owners

Next == \E v \in VMs : Give(v) \/ Take(v) \/ Start(v) \/ Stop(v)
Spec == Init /\ [][Next]_vars
=============================================================================
