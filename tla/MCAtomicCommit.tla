--------------------------- MODULE MCAtomicCommit ---------------------------
EXTENDS AtomicCommit, TLC

CONSTANTS c1, c2, c3, p1

TwoClients == {c1, c2}
ThreeClients == {c1, c2, c3}
TwoCrtcs == {0, 1}
OnePlane == {p1}
NoPlane == {}

(* Page flips that return at once, with or without a plane, a blocking      *)
(* modeset of one CRTC, a blocking commit of everything (suspend, last      *)
(* close), and states without a CRTC.                                       *)
Ask(os, m, n) == [objects |-> os, modeset |-> m, nonblock |-> n]
Flips == {Ask({0}, FALSE, TRUE), Ask({0, p1}, FALSE, TRUE), Ask({1, p1}, FALSE, TRUE)}
Others == {Ask({1}, TRUE, FALSE), Ask({0, 1, p1}, TRUE, FALSE),
           Ask({p1}, FALSE, FALSE), Ask({p1}, TRUE, TRUE)}
MCRequests == Flips \union Others
CrtcRequests == {Ask({0}, FALSE, TRUE), Ask({0}, FALSE, FALSE), Ask({1}, TRUE, FALSE)}
=============================================================================
