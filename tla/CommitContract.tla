-------------------------- MODULE CommitContract --------------------------
(***************************************************************************)
(* What msm_atomic_commit promises of the CRTCs and planes of a device: an *)
(* update of a set of them is committed in software as a whole, on top of  *)
(* an update that the hardware has already taken, and the hardware takes   *)
(* every update once, whole, and in order.                                 *)
(***************************************************************************)
EXTENDS Integers

CONSTANT Objects  \* the CRTCs and planes

VARIABLES
  sw,      \* sw[o]: how many updates of o were committed in software
  hw,      \* hw[o]: the last of them the hardware was programmed with
  flight   \* the updates (sets of objects) on their way to the hardware

vars == <<sw, hw, flight>>

Init ==
  /\ sw = [o \in Objects |-> 0]
  /\ hw = [o \in Objects |-> 0]
  /\ flight = {}

Commit(S) ==
  /\ S \cap UNION flight = {}
  /\ sw' = [o \in Objects |-> IF o \in S THEN sw[o] + 1 ELSE sw[o]]
  /\ flight' = flight \union {S}
  /\ UNCHANGED hw

Apply(S) ==
  /\ S \in flight
  /\ hw' = [o \in Objects |-> IF o \in S THEN hw[o] + 1 ELSE hw[o]]
  /\ flight' = flight \ {S}
  /\ UNCHANGED sw

Next == \E S \in (SUBSET Objects) \ {{}} : Commit(S) \/ Apply(S)

(* Every committed update reaches the hardware.                            *)
Fairness == \A S \in (SUBSET Objects) \ {{}} : WF_vars(Apply(S))

Spec == Init /\ [][Next]_vars
FairSpec == Spec /\ Fairness

(* The hardware is never more than the one update in flight behind.        *)
OneBehind ==
  \A o \in Objects :
    sw[o] = hw[o] + (IF o \in UNION flight THEN 1 ELSE 0)
=============================================================================
