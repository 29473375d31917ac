------------------------ MODULE FenceTimelineProofs ------------------------
(***************************************************************************)
(* Proofs about FenceTimeline: for any number of ioctls, signalers and     *)
(* fences, any counter width and any offsets, the timeline of sde_fence.c  *)
(* never runs ahead of its commits, signals no fence early, forgets no     *)
(* fence, keeps an exact count of its users, and implements FenceContract. *)
(***************************************************************************)
EXTENDS FenceTimeline, FiniteSetTheorems, TLAPS

-----------------------------------------------------------------------------
(* Arithmetic modulo 2 * Half.                                             *)

LEMMA DivisionWithRemainder ==
  ASSUME NEW n \in Int, NEW m \in Int, m > 0
  PROVE  /\ n \div m \in Int
         /\ n % m \in 0 .. m - 1
         /\ n = m * (n \div m) + (n % m)
<1>1. n \div m \in Int
  OBVIOUS
<1>2. n % m \in 0 .. m - 1
  OBVIOUS
<1>3. n = m * (n \div m) + (n % m)
  OBVIOUS
<1> QED
  BY <1>1, <1>2, <1>3

(* Two numbers and the difference of their remainders, put together again: *)
(* what is left of a - b is a multiple of m and a rest.                    *)
LEMMA Recombine ==
  ASSUME NEW m \in Int, NEW x \in Int, NEW y \in Int, NEW z \in Int,
         NEW a \in Int, NEW b \in Int, NEW ra \in Int, NEW rb \in Int,
         NEW d \in Int,
         a = m * x + ra, b = m * y + rb, ra - rb = m * z + d
  PROVE  a - b = m * (x - y + z) + d
<1>1. m * (x - y + z) = m * x - m * y + m * z
  OBVIOUS
<1>2. m * x \in Int /\ m * y \in Int /\ m * z \in Int
  OBVIOUS
<1> QED
  BY <1>1, <1>2

(* A number in the signed range is the signed reading of its unsigned      *)
(* reduction: what the (int) casts of sde_fence.c do.                      *)
LEMMA SmallMultiple ==
  ASSUME NEW h \in Nat \ {0}, NEW e \in Int, NEW d \in 0 .. 2 * h - 1,
         NEW q \in Int, e = 2 * h * q + d, -h <= e, e < h
  PROVE  e = IF d < h THEN d ELSE d - 2 * h
<1>1. q = 0 \/ q = -1
  OBVIOUS
<1> QED
  BY <1>1

(* A difference that fits in a signed number survives the reduction of     *)
(* both counts: the comparisons of sde_fence.c are exact across a wrap.    *)
LEMMA SignedDiffExact ==
  ASSUME NEW a \in Int, NEW b \in Int, -Half <= a - b, a - b < Half
  PROVE  SignedDiff(a, b) = a - b
<1> DEFINE M == 2 * Half
           ra == a % M
           rb == b % M
           d == (ra - rb) % M
           x == a \div M
           y == b \div M
           z == (ra - rb) \div M
<1>1. M \in Int /\ M > 0 /\ Half \in Nat \ {0}
  BY WindowAssumption
<1>2. x \in Int /\ ra \in 0 .. M - 1 /\ a = M * x + ra
  BY <1>1, DivisionWithRemainder
<1>3. y \in Int /\ rb \in 0 .. M - 1 /\ b = M * y + rb
  BY <1>1, DivisionWithRemainder
<1>4. ra - rb \in Int
  BY <1>1, <1>2, <1>3
<1>5. z \in Int /\ d \in 0 .. M - 1 /\ ra - rb = M * z + d
  BY <1>1, <1>4, DivisionWithRemainder
<1>6. SignedDiff(a, b) = IF d < Half THEN d ELSE d - 2 * Half
  BY DEF SignedDiff, UInt
<1> HIDE DEF ra, rb, d, x, y, z
<1>7. a - b = M * (x - y + z) + d
  <2>1. ra \in Int /\ rb \in Int /\ d \in Int
    BY <1>1, <1>2, <1>3, <1>5
  <2> HIDE DEF M
  <2> QED
    BY <2>1, <1>1, <1>2, <1>3, <1>5, Recombine
<1>8. a - b = IF d < Half THEN d ELSE d - 2 * Half
  <2>1. x - y + z \in Int /\ a - b \in Int
    BY <1>2, <1>3, <1>5
  <2> QED
    BY <1>1, <1>5, <1>7, <2>1, SmallMultiple
<1> QED
  BY <1>6, <1>8

-----------------------------------------------------------------------------
(* The two comparisons of sde_fence.c, under the invariant.                *)

LEMMA BehindExact ==
  ASSUME TypeOK, CountInv
  PROVE  Behind <=> done_count < commit_count
<1>1. /\ done_count \in Int /\ commit_count \in Int
      /\ -Half <= done_count - commit_count
      /\ done_count - commit_count < Half
  BY WindowAssumption DEF TypeOK, CountInv, DoneNeverAhead
<1>2. SignedDiff(done_count, commit_count) = done_count - commit_count
  BY <1>1, SignedDiffExact
<1> QED
  BY <1>1, <1>2 DEF Behind

(* The test of sde_fence_signaled compares the true seqno and done_count   *)
(* of every fence the driver or user space still holds.                    *)
LEMMA ReachedExact ==
  ASSUME TypeOK, CountInv, FenceInv,
         NEW f \in Fences, hold[f] \in {"new", "listed"}
  PROVE  Reached(f) <=> seqno[f] <= done_count
<1>1. PICK off \in Offsets : seqno[f] <= commit_count + off
  BY DEF FenceInv
<1>2. commit_count - seqno[f] <= Window
  BY DEF FenceInv
<1>3. /\ off \in Nat /\ Window \in Nat /\ Half \in Nat
      /\ Window + off < Half /\ Window < Half
  BY OffsetAssumption, WindowAssumption
<1>4. /\ seqno[f] \in Int /\ done_count \in Int /\ commit_count \in Int
      /\ done_count <= commit_count
      /\ commit_count - done_count <= Window
  BY DEF TypeOK, CountInv, DoneNeverAhead
<1>5. -Half <= seqno[f] - done_count /\ seqno[f] - done_count < Half
  BY <1>1, <1>2, <1>3, <1>4
<1>6. SignedDiff(seqno[f], done_count) = seqno[f] - done_count
  BY <1>4, <1>5, SignedDiffExact
<1> QED
  BY <1>4, <1>6 DEF Reached

-----------------------------------------------------------------------------
(* Each conjunct of the invariant is kept by every step.                   *)

LEMMA TypePreserved ==
  ASSUME IndInv, [Next]_vars
  PROVE  TypeOK'
<1> USE DEF IndInv, TypeOK, counts, callers, fences, walkers
<1>1. ASSUME NEW i \in Ioctls, IoctlStep(i)
      PROVE  TypeOK'
  <2>1. CASE IoctlEnter(i) \/ IoctlLeave(i) \/ CreateFdFails(i)
    BY <2>1 DEF IoctlEnter, IoctlLeave, CreateFdFails
  <2>2. CASE CreateRead(i)
    BY <2>2, OffsetAssumption DEF CreateRead
  <2>3. CASE \E f \in Fences : CreateFd(i, f)
    BY <2>3 DEF CreateFd
  <2>4. CASE ListAdd(i)
    BY <2>4 DEF ListAdd
  <2>5. CASE Prepare(i)
    BY <2>5 DEF Prepare
  <2> QED
    BY <1>1, <2>1, <2>2, <2>3, <2>4, <2>5 DEF IoctlStep
<1>2. ASSUME NEW f \in Fences, UserStep(f)
      PROVE  TypeOK'
  BY <1>2 DEF UserStep, Close, Poll, PutContext
<1>3. ASSUME NEW s \in Signalers, SignalCount(s) \/ ResetTimeline(s)
      PROVE  TypeOK'
  BY <1>3 DEF SignalCount, ResetTimeline
<1>4. ASSUME NEW s \in Signalers, TriggerStep(s)
      PROVE  TypeOK'
  <2>1. CASE TriggerEnter(s)
    BY <2>1 DEF TriggerEnter, Listed
  <2>2. ASSUME NEW f \in Fences, Visit(s, f)
        PROVE  TypeOK'
    BY <2>2 DEF Visit, PutContext
  <2>3. CASE TriggerExit(s)
    BY <2>3 DEF TriggerExit
  <2> QED
    BY <1>4, <2>1, <2>2, <2>3 DEF TriggerStep
<1>5. CASE Deinit
  <2>1. owned' \in BOOLEAN
    BY <1>5, Zenon DEF Deinit
  <2>2. kref' \in Int
    BY <1>5 DEF Deinit
  <2>3. UNCHANGED <<counts, callers, fences, walkers>>
    BY <1>5 DEF Deinit
  <2> QED
    BY <2>1, <2>2, <2>3
<1>6. CASE UNCHANGED vars
  BY <1>6 DEF vars
<1> QED
  BY <1>1, <1>2, <1>3, <1>4, <1>5, <1>6 DEF Next

(* sde_fence_prepare and sde_fence_signal keep done_count between Start    *)
(* and commit_count, and commit_count within the window.                   *)
LEMMA CountPreserved ==
  ASSUME IndInv, [Next]_vars
  PROVE  CountInv'
<1> USE DEF IndInv, TypeOK, CountInv, DoneNeverAhead, counts
<1>1. ASSUME NEW i \in Ioctls, Prepare(i)
      PROVE  CountInv'
  BY <1>1, WindowAssumption DEF Prepare
<1>2. ASSUME NEW s \in Signalers, SignalCount(s) \/ ResetTimeline(s)
      PROVE  CountInv'
  <2>1. done_count < commit_count
    BY <1>2, BehindExact DEF SignalCount, ResetTimeline
  <2> QED
    BY <1>2, <2>1, WindowAssumption DEF SignalCount, ResetTimeline
<1>3. CASE UNCHANGED counts
  BY <1>3
<1> QED
  BY <1>1, <1>2, <1>3
  DEF Next, IoctlStep, IoctlEnter, IoctlLeave, CreateRead, CreateFd,
      CreateFdFails, ListAdd, UserStep, Close, Poll, TriggerStep,
      TriggerEnter, Visit, TriggerExit, Deinit, vars

(* An ioctl inside the driver holds the modeset lock, and the trigger      *)
(* value it has read, or the fence it has made, lies ahead of commit_count *)
(* by an offset that sde_fence_create can be given.                        *)
LEMMA IoctlPreserved ==
  ASSUME IndInv, [Next]_vars
  PROVE  IoctlInv'
<1> USE DEF IndInv, TypeOK, IoctlInv
<1>1. ASSUME NEW i \in Ioctls, IoctlStep(i)
      PROVE  IoctlInv'
  <2>1. CASE IoctlEnter(i) \/ IoctlLeave(i) \/ CreateFdFails(i)
    BY <2>1, NoneAssumption
    DEF IoctlEnter, IoctlLeave, CreateFdFails, counts, fences
  <2>2. CASE CreateRead(i)
    BY <2>2, OffsetAssumption DEF CreateRead, counts, fences
  <2>3. ASSUME NEW f \in Fences, CreateFd(i, f)
        PROVE  IoctlInv'
    BY <2>3, OffsetAssumption DEF CreateFd, counts
  <2>4. CASE ListAdd(i)
    BY <2>4, NoneAssumption DEF ListAdd, counts
  <2>5. CASE Prepare(i)
    BY <2>5, NoneAssumption DEF Prepare, fences
  <2> QED
    BY <1>1, <2>1, <2>2, <2>3, <2>4, <2>5 DEF IoctlStep
<1>2. ASSUME NEW s \in Signalers, NEW f \in Fences, Visit(s, f)
      PROVE  IoctlInv'
  BY <1>2 DEF Visit, WalkInv, Listed, counts, callers
<1>3. CASE UNCHANGED <<commit_count, callers, hold, seqno>>
  BY <1>3 DEF callers
<1> QED
  BY <1>1, <1>2, <1>3
  DEF Next, UserStep, Close, Poll, SignalCount, ResetTimeline, TriggerStep,
      TriggerEnter, TriggerExit, Deinit, vars, counts, fences

(* list_lock names the one signaler that walks, and what it has still to   *)
(* visit is linked.                                                        *)
LEMMA WalkPreserved ==
  ASSUME IndInv, [Next]_vars
  PROVE  WalkInv'
<1> USE DEF IndInv, TypeOK, WalkInv, Listed
<1>1. ASSUME NEW i \in Ioctls, NEW f \in Fences, CreateFd(i, f)
      PROVE  WalkInv'
  BY <1>1 DEF CreateFd, walkers
<1>2. ASSUME NEW i \in Ioctls, ListAdd(i)
      PROVE  WalkInv'
  BY <1>2, NoneAssumption DEF ListAdd, walkers
<1>3. ASSUME NEW s \in Signalers, SignalCount(s) \/ ResetTimeline(s)
      PROVE  WalkInv'
  BY <1>3 DEF SignalCount, ResetTimeline, fences
<1>4. ASSUME NEW s \in Signalers, TriggerEnter(s)
      PROVE  WalkInv'
  BY <1>4, NoneAssumption DEF TriggerEnter, fences
<1>5. ASSUME NEW s \in Signalers, NEW f \in Fences, Visit(s, f)
      PROVE  WalkInv'
  BY <1>5 DEF Visit
<1>6. ASSUME NEW s \in Signalers, TriggerExit(s)
      PROVE  WalkInv'
  BY <1>6, NoneAssumption DEF TriggerExit, fences
<1>7. CASE UNCHANGED <<hold, list_lock, stage, walk>>
  BY <1>7
<1> QED
  BY <1>1, <1>2, <1>3, <1>4, <1>5, <1>6, <1>7
  DEF Next, IoctlStep, IoctlEnter, IoctlLeave, CreateRead, CreateFdFails,
      Prepare, UserStep, Close, Poll, TriggerStep, Deinit, vars, fences, walkers

(* Every linked fence has a seqno the caller computed, within the window   *)
(* around the counts: only sde_fence_create gives it one.                  *)
LEMMA FencePreserved ==
  ASSUME IndInv, [Next]_vars
  PROVE  FenceInv'
<1> USE DEF IndInv, TypeOK, FenceInv
<1>1. ASSUME NEW i \in Ioctls, NEW g \in Fences, CreateFd(i, g)
      PROVE  FenceInv'
  <2>1. PICK off \in Offsets : value[i] = commit_count + off
    BY <1>1 DEF CreateFd, IoctlInv
  <2>2. /\ off \in Nat /\ Window \in Nat
        /\ commit_count - value[i] <= Window
        /\ value[i] <= commit_count + off
    BY <2>1, OffsetAssumption, WindowAssumption
  <2> QED
    BY <1>1, <2>1, <2>2 DEF CreateFd, counts
<1>2. ASSUME NEW i \in Ioctls, ListAdd(i)
      PROVE  FenceInv'
  BY <1>2 DEF ListAdd, IoctlInv, counts
<1>3. ASSUME NEW i \in Ioctls, Prepare(i)
      PROVE  FenceInv'
  BY <1>3, OffsetAssumption, WindowAssumption DEF Prepare, fences
<1>4. ASSUME NEW g \in Fences, UserStep(g)
      PROVE  FenceInv'
  BY <1>4 DEF UserStep, Close, Poll, counts
<1>5. ASSUME NEW s \in Signalers, NEW g \in Fences, Visit(s, g)
      PROVE  FenceInv'
  BY <1>5 DEF Visit, WalkInv, Listed, counts
<1>6. CASE UNCHANGED <<commit_count, fences>>
  BY <1>6 DEF fences
<1> QED
  BY <1>1, <1>2, <1>3, <1>4, <1>5, <1>6
  DEF Next, IoctlStep, IoctlEnter, IoctlLeave, CreateRead, CreateFdFails,
      SignalCount, ResetTimeline, TriggerStep, TriggerEnter, TriggerExit,
      Deinit, vars, counts

(* No step signals a fence that done_count has not reached, and done_count *)
(* never falls behind a signalled one.                                     *)
LEMMA EarlyPreserved ==
  ASSUME IndInv, [Next]_vars
  PROVE  NoEarlySignal'
<1> USE DEF IndInv, TypeOK, NoEarlySignal
<1>1. ASSUME NEW i \in Ioctls, NEW g \in Fences, CreateFd(i, g)
      PROVE  NoEarlySignal'
  BY <1>1 DEF CreateFd, FenceInv, counts
<1>2. ASSUME NEW g \in Fences, Poll(g)
      PROVE  NoEarlySignal'
  <2>1. hold[g] \in {"new", "listed"}
    BY <1>2 DEF Poll, FenceInv
  <2>2. seqno[g] <= done_count
    BY <1>2, <2>1, ReachedExact DEF Poll
  <2> QED
    BY <1>2, <2>2 DEF Poll, counts
<1>3. ASSUME NEW s \in Signalers, NEW g \in Fences, Visit(s, g)
      PROVE  NoEarlySignal'
  <2>1. hold[g] \in {"new", "listed"}
    BY <1>3 DEF Visit, WalkInv, Listed
  <2>2. Reached(g) => seqno[g] <= done_count
    BY <2>1, ReachedExact
  <2> QED
    BY <1>3, <2>2 DEF Visit, counts
<1>4. ASSUME NEW s \in Signalers, SignalCount(s) \/ ResetTimeline(s)
      PROVE  NoEarlySignal'
  BY <1>4 DEF SignalCount, ResetTimeline, fences, CountInv, DoneNeverAhead
<1>5. CASE UNCHANGED <<done_count, seqno, signaled>>
  BY <1>5
<1> QED
  BY <1>1, <1>2, <1>3, <1>4, <1>5
  DEF Next, IoctlStep, IoctlEnter, IoctlLeave, CreateRead, CreateFdFails,
      ListAdd, Prepare, UserStep, Close, TriggerStep, TriggerEnter,
      TriggerExit, Deinit, vars, counts, fences

(* A linked fence that is due has a signaler on its way: one that has      *)
(* moved done_count, or that walks and has yet to visit it.                *)
LEMMA MissedPreserved ==
  ASSUME IndInv, [Next]_vars
  PROVE  NoMissedSignal'
<1> USE DEF IndInv, TypeOK, NoMissedSignal, OnItsWay, Listed
<1>1. ASSUME NEW i \in Ioctls, NEW g \in Fences, CreateFd(i, g)
      PROVE  NoMissedSignal'
  BY <1>1 DEF CreateFd, counts, walkers
<1>2. ASSUME NEW i \in Ioctls, ListAdd(i)
      PROVE  NoMissedSignal'
  <2>1. making[i] \in Fences /\ seqno[making[i]] > done_count
    BY <1>2 DEF ListAdd, IoctlInv, CountInv, DoneNeverAhead
  <2> QED
    BY <1>2, <2>1 DEF ListAdd, counts, walkers
<1>3. ASSUME NEW g \in Fences, UserStep(g)
      PROVE  NoMissedSignal'
  BY <1>3 DEF UserStep, Close, Poll, counts, walkers
<1>4. ASSUME NEW s \in Signalers, SignalCount(s) \/ ResetTimeline(s)
      PROVE  NoMissedSignal'
  <2>1. stage'[s] = "counted"
    BY <1>4 DEF SignalCount, ResetTimeline
  <2> QED
    BY <2>1
<1>5. ASSUME NEW s \in Signalers, TriggerEnter(s)
      PROVE  NoMissedSignal'
  <2>1. stage'[s] = "walking" /\ walk'[s] = Listed /\ UNCHANGED hold
    BY <1>5 DEF TriggerEnter, fences
  <2> QED
    BY <2>1
<1>6. ASSUME NEW s \in Signalers, NEW g \in Fences, Visit(s, g)
      PROVE  NoMissedSignal'
  <2> SUFFICES ASSUME NEW f \in Fences, hold'[f] = "listed", f \notin signaled',
                      seqno'[f] <= done_count'
               PROVE  \E t \in Signalers : OnItsWay(f, t)'
    OBVIOUS
  <2>1. f # g
    <3>1. hold[g] \in {"new", "listed"}
      BY <1>6 DEF Visit, WalkInv
    <3>2. ~ Reached(g) => seqno[g] > done_count
      BY <3>1, ReachedExact
    <3> QED
      BY <1>6, <3>2 DEF Visit, counts
  <2>2. hold[f] = "listed" /\ f \notin signaled /\ seqno[f] <= done_count
    BY <1>6, <2>1 DEF Visit, counts
  <2>3. PICK t \in Signalers : OnItsWay(f, t)
    BY <2>2
  <2>4. OnItsWay(f, t)'
    BY <1>6, <2>1, <2>3 DEF Visit
  <2> QED
    BY <2>4
<1>7. ASSUME NEW s \in Signalers, TriggerExit(s)
      PROVE  NoMissedSignal'
  BY <1>7 DEF TriggerExit, counts, fences
<1>8. CASE UNCHANGED <<done_count, fences, stage, walk>>
  BY <1>8 DEF fences
<1> QED
  BY <1>1, <1>2, <1>3, <1>4, <1>5, <1>6, <1>7, <1>8
  DEF Next, IoctlStep, IoctlEnter, IoctlLeave, CreateRead, CreateFdFails,
      Prepare, TriggerStep, Deinit, vars, counts, walkers

-----------------------------------------------------------------------------
(* The theorems.                                                           *)

LEMMA InitInvariant == Init => IndInv
<1> SUFFICES ASSUME Init PROVE IndInv
  OBVIOUS
<1> USE DEF Init
<1>1. TypeOK
  BY BoundAssumption DEF TypeOK
<1>2. CountInv
  BY BoundAssumption, WindowAssumption DEF CountInv, DoneNeverAhead
<1>3. IoctlInv
  BY NoneAssumption DEF IoctlInv
<1>4. WalkInv
  BY NoneAssumption DEF WalkInv, Listed
<1>5. FenceInv /\ NoEarlySignal /\ NoMissedSignal
  BY DEF FenceInv, NoEarlySignal, NoMissedSignal, Listed
<1> QED
  BY <1>1, <1>2, <1>3, <1>4, <1>5 DEF IndInv

(* The conjuncts of IndInv hold together in every reachable state.         *)
THEOREM Invariance == Spec => []IndInv
<1>1. IndInv /\ [Next]_vars => IndInv'
  BY TypePreserved, CountPreserved, IoctlPreserved, WalkPreserved,
     FencePreserved, EarlyPreserved, MissedPreserved DEF IndInv
<1> QED
  BY InitInvariant, <1>1, PTL DEF Spec

(* Every variable keeps its type (the model of sde_fence.c as a whole).    *)
THEOREM TypeCorrect == Spec => []TypeOK
<1>1. IndInv => TypeOK
  BY DEF IndInv
<1> QED
  BY Invariance, <1>1, PTL

(* sde_fence_signal never moves done_count past commit_count, whatever the *)
(* number of signallers and wherever the 32-bit counters wrap.             *)
THEOREM TimelineNeverAhead == Spec => []DoneNeverAhead
<1>1. IndInv => DoneNeverAhead
  BY DEF IndInv, CountInv
<1> QED
  BY Invariance, <1>1, PTL

(* No walk of _sde_fence_trigger and no poll signals a fence before its    *)
(* commit has completed.                                                   *)
THEOREM NothingSignalsEarly == Spec => []NoEarlySignal
<1>1. IndInv => NoEarlySignal
  BY DEF IndInv
<1> QED
  BY Invariance, <1>1, PTL

(* Between the critical sections of sde_fence_signal and sde_fence_create  *)
(* no fence falls through: a linked fence that is due has a signaler on    *)
(* its way.                                                                *)
THEOREM NothingIsMissed == Spec => []NoMissedSignal
<1>1. IndInv => NoMissedSignal
  BY DEF IndInv
<1> QED
  BY Invariance, <1>1, PTL

-----------------------------------------------------------------------------
(* The reference count of the context.                                     *)

Walking == {s \in Signalers : stage[s] = "walking"}

(* Fences are allocated and walks begun one at a time, so that at any      *)
(* moment kref has finitely many users to count.                           *)
RefInv ==
  /\ IsFiniteSet(Live)
  /\ IsFiniteSet(Walking)
  /\ KrefExact

(* kref is the sum of three parts.                                         *)
LEMMA RefSum ==
  KrefExact <=>
    kref = (IF owned THEN 1 ELSE 0) + Cardinality(Live) + Cardinality(Walking)
BY Zenon DEF KrefExact, Refs, Walking

(* A step that leaves the parts alone leaves the sum alone.                *)
LEMMA RefSame ==
  ASSUME RefInv, Live' = Live, Walking' = Walking, UNCHANGED <<kref, owned>>
  PROVE  RefInv'
<1>1. IsFiniteSet(Live)' /\ IsFiniteSet(Walking)'
  BY Zenon DEF RefInv
<1>2. KrefExact'
  <2>1. Cardinality(Live') = Cardinality(Live)
    BY Zenon
  <2>2. Cardinality(Walking') = Cardinality(Walking)
    BY Zenon
  <2>3. kref = (IF owned THEN 1 ELSE 0) + Cardinality(Live)
                 + Cardinality(Walking)
    BY RefSum, Zenon DEF RefInv
  <2>4. kref' = (IF owned' THEN 1 ELSE 0) + Cardinality(Live')
                  + Cardinality(Walking')
    BY <2>1, <2>2, <2>3, Zenon
  <2>5. KrefExact' <=> kref' = (IF owned' THEN 1 ELSE 0) + Cardinality(Live')
                                 + Cardinality(Walking')
    BY Zenon DEF KrefExact, Refs, Walking
  <2> QED
    BY <2>4, <2>5
<1> QED
  BY <1>1, <1>2 DEF RefInv

(* A fence comes alive with a reference of its own ...                     *)
LEMMA RefFenceAdded ==
  ASSUME RefInv, NEW f, f \notin Live, Live' = Live \union {f},
         Walking' = Walking, kref' = kref + 1, owned' = owned
  PROVE  RefInv'
<1>1. IsFiniteSet(Live') /\ Cardinality(Live') = Cardinality(Live) + 1
  BY FS_AddElement DEF RefInv
<1>2. Cardinality(Walking') = Cardinality(Walking) /\ IsFiniteSet(Walking')
  BY Zenon DEF RefInv
<1>3. Cardinality(Live) \in Nat /\ Cardinality(Walking) \in Nat
  BY FS_CardinalityType DEF RefInv
<1>4. kref = (IF owned THEN 1 ELSE 0) + Cardinality(Live)
               + Cardinality(Walking)
  BY RefSum, Zenon DEF RefInv
<1>5. kref' = (IF owned' THEN 1 ELSE 0) + Cardinality(Live')
                + Cardinality(Walking')
  BY <1>1, <1>2, <1>3, <1>4
<1>6. KrefExact' <=> kref' = (IF owned' THEN 1 ELSE 0) + Cardinality(Live')
                               + Cardinality(Walking')
  BY Zenon DEF KrefExact, Refs, Walking
<1>7. IsFiniteSet(Live)' /\ IsFiniteSet(Walking)'
  BY <1>1, <1>2
<1> QED
  BY <1>5, <1>6, <1>7 DEF RefInv

(* ... which its last user drops, ...                                      *)
LEMMA RefFenceGone ==
  ASSUME RefInv, NEW f, f \in Live, Live' = Live \ {f},
         Walking' = Walking, kref' = kref - 1, owned' = owned
  PROVE  RefInv'
<1>1. IsFiniteSet(Live') /\ Cardinality(Live') = Cardinality(Live) - 1
  BY FS_RemoveElement DEF RefInv
<1>2. Cardinality(Walking') = Cardinality(Walking) /\ IsFiniteSet(Walking')
  BY Zenon DEF RefInv
<1>3. Cardinality(Live) \in Nat /\ Cardinality(Walking) \in Nat
  BY FS_CardinalityType DEF RefInv
<1>4. kref = (IF owned THEN 1 ELSE 0) + Cardinality(Live)
               + Cardinality(Walking)
  BY RefSum, Zenon DEF RefInv
<1>5. kref' = (IF owned' THEN 1 ELSE 0) + Cardinality(Live')
                + Cardinality(Walking')
  BY <1>1, <1>2, <1>3, <1>4
<1>6. KrefExact' <=> kref' = (IF owned' THEN 1 ELSE 0) + Cardinality(Live')
                               + Cardinality(Walking')
  BY Zenon DEF KrefExact, Refs, Walking
<1>7. IsFiniteSet(Live)' /\ IsFiniteSet(Walking)'
  BY <1>1, <1>2
<1> QED
  BY <1>5, <1>6, <1>7 DEF RefInv

(* ... a walk takes one when it begins ...                                 *)
LEMMA RefWalkBegun ==
  ASSUME RefInv, NEW s, s \notin Walking, Walking' = Walking \union {s},
         Live' = Live, kref' = kref + 1, owned' = owned
  PROVE  RefInv'
<1>1. /\ IsFiniteSet(Walking')
      /\ Cardinality(Walking') = Cardinality(Walking) + 1
  BY FS_AddElement DEF RefInv
<1>2. Cardinality(Live') = Cardinality(Live) /\ IsFiniteSet(Live')
  BY Zenon DEF RefInv
<1>3. Cardinality(Live) \in Nat /\ Cardinality(Walking) \in Nat
  BY FS_CardinalityType DEF RefInv
<1>4. kref = (IF owned THEN 1 ELSE 0) + Cardinality(Live)
               + Cardinality(Walking)
  BY RefSum, Zenon DEF RefInv
<1>5. kref' = (IF owned' THEN 1 ELSE 0) + Cardinality(Live')
                + Cardinality(Walking')
  BY <1>1, <1>2, <1>3, <1>4
<1>6. KrefExact' <=> kref' = (IF owned' THEN 1 ELSE 0) + Cardinality(Live')
                               + Cardinality(Walking')
  BY Zenon DEF KrefExact, Refs, Walking
<1>7. IsFiniteSet(Live)' /\ IsFiniteSet(Walking)'
  BY <1>1, <1>2
<1> QED
  BY <1>5, <1>6, <1>7 DEF RefInv

(* ... and drops it when it ends.                                          *)
LEMMA RefWalkEnded ==
  ASSUME RefInv, NEW s, s \in Walking, Walking' = Walking \ {s},
         Live' = Live, kref' = kref - 1, owned' = owned
  PROVE  RefInv'
<1>1. /\ IsFiniteSet(Walking')
      /\ Cardinality(Walking') = Cardinality(Walking) - 1
  BY FS_RemoveElement DEF RefInv
<1>2. Cardinality(Live') = Cardinality(Live) /\ IsFiniteSet(Live')
  BY Zenon DEF RefInv
<1>3. Cardinality(Live) \in Nat /\ Cardinality(Walking) \in Nat
  BY FS_CardinalityType DEF RefInv
<1>4. kref = (IF owned THEN 1 ELSE 0) + Cardinality(Live)
               + Cardinality(Walking)
  BY RefSum, Zenon DEF RefInv
<1>5. kref' = (IF owned' THEN 1 ELSE 0) + Cardinality(Live')
                + Cardinality(Walking')
  BY <1>1, <1>2, <1>3, <1>4
<1>6. KrefExact' <=> kref' = (IF owned' THEN 1 ELSE 0) + Cardinality(Live')
                               + Cardinality(Walking')
  BY Zenon DEF KrefExact, Refs, Walking
<1>7. IsFiniteSet(Live)' /\ IsFiniteSet(Walking)'
  BY <1>1, <1>2
<1> QED
  BY <1>5, <1>6, <1>7 DEF RefInv

(* Which of these each critical section is.                                *)
LEMMA RefPreserved ==
  ASSUME IndInv, RefInv, [Next]_vars
  PROVE  RefInv'
<1> USE DEF IndInv, TypeOK
<1>1. ASSUME NEW i \in Ioctls, NEW f \in Fences, CreateFd(i, f)
      PROVE  RefInv'
  <2>1. f \notin Live
    BY <1>1 DEF CreateFd, FenceInv, Live
  <2>2. Live' = Live \union {f}
    BY <1>1 DEF CreateFd, Live
  <2>3. Walking' = Walking
    BY <1>1 DEF CreateFd, Walking, walkers
  <2>4. kref' = kref + 1 /\ owned' = owned
    BY <1>1 DEF CreateFd
  <2> QED
    BY <2>1, <2>2, <2>3, <2>4, RefFenceAdded
<1>2. ASSUME NEW i \in Ioctls, ListAdd(i)
      PROVE  RefInv'
  <2>1. Live' = Live
    BY <1>2 DEF ListAdd, IoctlInv, Live
  <2>2. Walking' = Walking /\ UNCHANGED <<kref, owned>>
    BY <1>2 DEF ListAdd, Walking, walkers
  <2> QED
    BY <2>1, <2>2, RefSame
<1>3. ASSUME NEW f \in Fences, Close(f)
      PROVE  RefInv'
  <2>1. Walking' = Walking /\ owned' = owned
    BY <1>3 DEF Close, Walking, walkers
  <2>2. f \in Live
    BY <1>3 DEF Close, Live
  <2>3. CASE hold[f] = "dropped"
    <3>1. Live' = Live \ {f}
      BY <1>3, <2>3 DEF Close, Live
    <3>2. kref' = kref - 1
      BY <1>3, <2>3 DEF Close, PutContext
    <3> QED
      BY <2>1, <2>2, <3>1, <3>2, RefFenceGone
  <2>4. CASE hold[f] # "dropped"
    <3>1. hold[f] \in {"new", "listed"}
      BY <1>3, <2>4 DEF Close, FenceInv
    <3>2. Live' = Live
      BY <1>3, <3>1 DEF Close, Live
    <3>3. kref' = kref
      BY <1>3, <2>4 DEF Close, PutContext
    <3> QED
      BY <2>1, <3>2, <3>3, RefSame
  <2> QED
    BY <2>3, <2>4
<1>4. ASSUME NEW s \in Signalers, NEW f \in Fences, Visit(s, f)
      PROVE  RefInv'
  <2>1. Walking' = Walking /\ owned' = owned
    BY <1>4 DEF Visit, Walking
  <2>2. hold[f] = "listed" /\ f \in Live
    BY <1>4 DEF Visit, WalkInv, Listed, Live
  <2>3. CASE Reached(f) /\ f \notin open
    <3>1. Live' = Live \ {f}
      BY <1>4, <2>3 DEF Visit, Live
    <3>2. kref' = kref - 1
      BY <1>4, <2>3 DEF Visit, PutContext
    <3> QED
      BY <2>1, <2>2, <3>1, <3>2, RefFenceGone
  <2>4. CASE ~ (Reached(f) /\ f \notin open)
    <3>1. Live' = Live
      BY <1>4, <2>2, <2>4 DEF Visit, Live
    <3>2. kref' = kref
      BY <1>4, <2>4 DEF Visit, PutContext
    <3> QED
      BY <2>1, <3>1, <3>2, RefSame
  <2> QED
    BY <2>3, <2>4
<1>5. ASSUME NEW s \in Signalers, TriggerEnter(s)
      PROVE  RefInv'
  <2>1. s \notin Walking /\ Walking' = Walking \union {s}
    BY <1>5 DEF TriggerEnter, Walking
  <2>2. Live' = Live /\ kref' = kref + 1 /\ owned' = owned
    BY <1>5 DEF TriggerEnter, Live, fences
  <2> QED
    BY <2>1, <2>2, RefWalkBegun
<1>6. ASSUME NEW s \in Signalers, TriggerExit(s)
      PROVE  RefInv'
  <2>1. s \in Walking /\ Walking' = Walking \ {s}
    BY <1>6 DEF TriggerExit, Walking
  <2>2. Live' = Live /\ kref' = kref - 1 /\ owned' = owned
    BY <1>6 DEF TriggerExit, Live, fences
  <2> QED
    BY <2>1, <2>2, RefWalkEnded
<1>7. ASSUME NEW s \in Signalers, SignalCount(s) \/ ResetTimeline(s)
      PROVE  RefInv'
  <2>1. Walking' = Walking
    BY <1>7 DEF SignalCount, ResetTimeline, Walking
  <2>2. Live' = Live /\ UNCHANGED <<kref, owned>>
    BY <1>7 DEF SignalCount, ResetTimeline, Live, fences
  <2> QED
    BY <2>1, <2>2, RefSame
<1>8. CASE Deinit
  <2>1. Live' = Live /\ Walking' = Walking
    BY <1>8 DEF Deinit, Live, Walking, fences, walkers
  <2>2. Cardinality(Live') = Cardinality(Live)
    BY <2>1, Zenon
  <2>3. Cardinality(Walking') = Cardinality(Walking)
    BY <2>1, Zenon
  <2>4. Cardinality(Live) \in Nat /\ Cardinality(Walking) \in Nat
    BY FS_CardinalityType DEF RefInv
  <2>5. kref = (IF owned THEN 1 ELSE 0) + Cardinality(Live)
                 + Cardinality(Walking)
    BY RefSum, Zenon DEF RefInv
  <2>6. owned /\ ~ owned' /\ kref' = kref - 1
    BY <1>8 DEF Deinit
  <2>7. kref' = (IF owned' THEN 1 ELSE 0) + Cardinality(Live')
                  + Cardinality(Walking')
    BY <2>2, <2>3, <2>4, <2>5, <2>6
  <2>8. KrefExact' <=> kref' = (IF owned' THEN 1 ELSE 0) + Cardinality(Live')
                                 + Cardinality(Walking')
    BY Zenon DEF KrefExact, Refs, Walking
  <2>9. IsFiniteSet(Live)' /\ IsFiniteSet(Walking)'
    BY <2>1, Zenon DEF RefInv
  <2> QED
    BY <2>7, <2>8, <2>9 DEF RefInv
<1>9. CASE UNCHANGED <<kref, owned, hold, open, stage>>
  <2>1. Live' = Live /\ Walking' = Walking
    BY <1>9 DEF Live, Walking
  <2> QED
    BY <1>9, <2>1, RefSame
<1> QED
  BY <1>1, <1>2, <1>3, <1>4, <1>5, <1>6, <1>7, <1>8, <1>9
  DEF Next, IoctlStep, IoctlEnter, IoctlLeave, CreateRead, CreateFdFails,
      Prepare, UserStep, Poll, TriggerStep, vars, fences, walkers

LEMMA InitRef == Init => RefInv
<1> SUFFICES ASSUME Init PROVE RefInv
  OBVIOUS
<1>1. Live = {} /\ Walking = {}
  BY DEF Init, Live, Walking
<1>2. /\ IsFiniteSet(Live) /\ Cardinality(Live) = 0
      /\ IsFiniteSet(Walking) /\ Cardinality(Walking) = 0
  BY <1>1, FS_EmptySet
<1>3. kref = 1 /\ owned
  BY DEF Init
<1>4. kref = (IF owned THEN 1 ELSE 0) + Cardinality(Live)
               + Cardinality(Walking)
  BY <1>2, <1>3
<1> QED
  BY <1>2, <1>4, RefSum DEF RefInv

(* kref counts exactly the owner, the fences that the driver or user space *)
(* still holds and the walks of _sde_fence_trigger, so sde_fence_destroy   *)
(* runs with the last of them and never before.                            *)
THEOREM ReferencesExact == Spec => []KrefExact
<1>1. IndInv /\ RefInv /\ [Next]_vars => RefInv'
  BY RefPreserved
<1>2. RefInv => KrefExact
  BY DEF RefInv
<1> QED
  BY Invariance, InitRef, <1>1, <1>2, PTL DEF Spec

-----------------------------------------------------------------------------
(* Refinement.                                                             *)

LEMMA ContractInit == Init => Contract!Init
BY DEF Init, Contract!Init

(* Every critical section of sde_fence.c is a step of the contract or      *)
(* changes nothing the contract knows of.                                  *)
LEMMA ContractStep ==
  ASSUME IndInv, [Next]_vars
  PROVE  [Contract!Next]_(Contract!vars)
<1> USE DEF IndInv, TypeOK, Contract!vars
<1>1. ASSUME NEW i \in Ioctls, NEW f \in Fences, CreateFd(i, f)
      PROVE  Contract!Next
  <2>1. PICK off \in Offsets : value[i] = commit_count + off
    BY <1>1 DEF CreateFd, IoctlInv
  <2>2. Contract!Issue(f)
    BY <1>1, <2>1 DEF CreateFd, Contract!Issue, counts
  <2> QED
    BY <2>2 DEF Contract!Next
<1>2. ASSUME NEW i \in Ioctls, ListAdd(i)
      PROVE  UNCHANGED Contract!vars
  BY <1>2 DEF ListAdd, IoctlInv, counts
<1>3. ASSUME NEW i \in Ioctls, Prepare(i)
      PROVE  Contract!Next
  <2>1. Contract!Commit
    BY <1>3 DEF Prepare, Contract!Commit, fences
  <2> QED
    BY <2>1 DEF Contract!Next
<1>4. ASSUME NEW f \in Fences, Poll(f)
      PROVE  Contract!Next
  <2>1. hold[f] \in {"new", "listed"}
    BY <1>4 DEF Poll, FenceInv
  <2>2. seqno[f] <= done_count
    BY <1>4, <2>1, ReachedExact DEF Poll
  <2>3. Contract!Signal(f)
    BY <1>4, <2>1, <2>2 DEF Poll, Contract!Signal, counts
  <2> QED
    BY <2>3 DEF Contract!Next
<1>5. ASSUME NEW s \in Signalers, SignalCount(s) \/ ResetTimeline(s)
      PROVE  Contract!Next
  <2>1. done_count < commit_count
    BY <1>5, BehindExact DEF SignalCount, ResetTimeline
  <2>2. Contract!Complete
    BY <1>5, <2>1 DEF SignalCount, ResetTimeline, Contract!Complete, fences
  <2> QED
    BY <2>2 DEF Contract!Next
<1>6. ASSUME NEW s \in Signalers, NEW f \in Fences, Visit(s, f)
      PROVE  Contract!Next \/ UNCHANGED Contract!vars
  <2>1. hold[f] = "listed"
    BY <1>6 DEF Visit, WalkInv, Listed
  <2>2. CASE Reached(f) /\ f \notin signaled
    <3>1. seqno[f] <= done_count
      BY <2>1, <2>2, ReachedExact
    <3>2. Contract!Signal(f)
      BY <1>6, <2>1, <2>2, <3>1 DEF Visit, Contract!Signal, counts
    <3> QED
      BY <3>2 DEF Contract!Next
  <2>3. CASE ~ (Reached(f) /\ f \notin signaled)
    BY <1>6, <2>1, <2>3 DEF Visit, counts
  <2> QED
    BY <2>2, <2>3
<1>7. CASE UNCHANGED <<counts, hold, seqno, signaled>>
  BY <1>7 DEF counts
<1> QED
  BY <1>1, <1>2, <1>3, <1>4, <1>5, <1>6, <1>7
  DEF Next, IoctlStep, IoctlEnter, IoctlLeave, CreateRead, CreateFdFails,
      UserStep, Close, TriggerStep, TriggerEnter, TriggerExit, Deinit, vars,
      counts, fences

(* sde_fence.c implements the contract of a fence timeline.                *)
THEOREM TimelineImplementsContract == Spec => ImplementsContract
<1>1. IndInv /\ [Next]_vars => [Contract!Next]_(Contract!vars)
  BY ContractStep
<1> QED
  BY ContractInit, Invariance, <1>1, PTL
    DEF Spec, ImplementsContract, Contract!Spec
=============================================================================
