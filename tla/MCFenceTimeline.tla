-------------------------- MODULE MCFenceTimeline --------------------------
EXTENDS FenceTimeline

CONSTANTS i1, i2, s1, s2, f1, f2

MCIoctls == {i1, i2}
MCSignalers == {s1, s2}
MCOffsets == {1, 2}

(* Two fences keep the search for a cycle small: one is due while the      *)
(* other is in the making.                                                 *)
MCFences == {f1, f2}
=============================================================================
