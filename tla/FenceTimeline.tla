--------------------------- MODULE FenceTimeline ---------------------------
(***************************************************************************)
(* One fence timeline of msm/sde/sde_fence.c: the output_fence of a CRTC   *)
(* or the retire_fence of a connector.                                     *)
(*                                                                         *)
(* Three kinds of callers meet here.  Atomic ioctls create fences (reading *)
(* commit_count under ctx->lock and linking the fence under list_lock, two *)
(* critical sections) and prepare commits; the event thread and the CRTC   *)
(* disable path signal (moving done_count under ctx->lock, then walking    *)
(* the list under list_lock, one ctx->lock section per fence); user space  *)
(* polls and closes the fence file descriptors.  Each critical section is  *)
(* one action, so everything that can happen between two of them does.     *)
(***************************************************************************)
EXTENDS Integers, FiniteSets

CONSTANTS
  Start,        \* commits since boot when observation begins: 0, or any
                \* later moment at which every fence has come and gone
  Ioctls,       \* threads inside the atomic ioctl
  Signalers,    \* threads that call sde_fence_signal
  Fences,       \* fence objects, each allocated at most once
  Offsets,      \* trigger offsets passed to sde_fence_create
  Half,         \* 2^31 in the code: half the range of an unsigned int
  Window,       \* bound: how far commit_count may run ahead
  MaxCommits,   \* bound: commits prepared after Start
  None          \* no lock owner, no fence

(* Every caller adds at least one to the offset (sde_crtc.c:6744 and       *)
(* sde_connector.c:1775), and outstanding commits stay far below 2^31.     *)
ASSUME OffsetAssumption == Offsets \subseteq Nat \ {0}
ASSUME WindowAssumption ==
  /\ Half \in Nat \ {0}
  /\ Window \in Nat
  /\ Window < Half
  /\ \A off \in Offsets : Window + off < Half
ASSUME NoneAssumption ==
  /\ None \notin Ioctls
  /\ None \notin Signalers
  /\ None \notin Fences
ASSUME BoundAssumption == Start \in Nat /\ MaxCommits \in Nat

VARIABLES
  commit_count, \* ctx->commit_count, before reduction modulo 2 * Half
  done_count,   \* ctx->done_count, before reduction modulo 2 * Half
  kref,         \* ctx->kref
  owned,        \* the CRTC or connector still holds its reference
  modeset_lock, \* the ioctl holding the CRTC's modeset lock, or None
  ioctl,        \* how far each ioctl is: "out", "in", "read", "made"
  value,        \* the trigger_value each ioctl has read
  making,       \* the fence each ioctl has allocated and not yet linked
  seqno,        \* the seqno of each fence
  hold,         \* the driver's reference: "none", "new", "listed", "dropped"
  open,         \* fences whose sync_file user space still holds
  signaled,     \* fences with DMA_FENCE_FLAG_SIGNALED_BIT
  error,        \* fences on which dma_fence_set_error was called
  list_lock,    \* the signaler walking fence_list_head, or None
  stage,        \* how far each signaler is: "idle", "counted", "walking"
  walk,         \* fences a walking signaler has not visited yet
  failing       \* signalers whose event is SDE_FENCE_SIGNAL_ERROR

fences == <<seqno, hold, open, signaled, error>>
counts == <<commit_count, done_count>>
callers == <<modeset_lock, ioctl, value, making>>
walkers == <<list_lock, stage, walk, failing>>
vars == <<counts, kref, owned, callers, fences, walkers>>

(* (int)(a - b) for two unsigned ints: what is left of the counts after    *)
(* reduction modulo 2 * Half is subtracted, reduced and read as signed.    *)
UInt(n) == n % (2 * Half)
SignedDiff(a, b) ==
  LET d == UInt(UInt(a) - UInt(b)) IN IF d < Half THEN d ELSE d - 2 * Half

(* Mutant: the test counts a commit as done when it is prepared.           *)
ReachedWhenPrepared(f) == SignedDiff(seqno[f], commit_count) <= 0

(* The test of sde_fence_signaled.                                         *)
Reached(f) == SignedDiff(seqno[f], done_count) <= 0

(* The test with which sde_fence_signal refuses an extra signal.           *)
Behind == SignedDiff(done_count, commit_count) < 0

Live == {f \in Fences : hold[f] \in {"new", "listed"} \/ f \in open}
Listed == {f \in Fences : hold[f] = "listed"}

Init ==
  /\ commit_count = Start
  /\ done_count = Start
  /\ kref = 1
  /\ owned = TRUE
  /\ modeset_lock = None
  /\ ioctl = [i \in Ioctls |-> "out"]
  /\ value = [i \in Ioctls |-> 0]
  /\ making = [i \in Ioctls |-> None]
  /\ seqno = [f \in Fences |-> 0]
  /\ hold = [f \in Fences |-> "none"]
  /\ open = {}
  /\ signaled = {}
  /\ error = {}
  /\ list_lock = None
  /\ stage = [s \in Signalers |-> "idle"]
  /\ walk = [s \in Signalers |-> {}]
  /\ failing = {}

-----------------------------------------------------------------------------
(* The atomic ioctl.  DRM takes the CRTC's modeset lock before the driver  *)
(* sees the ioctl, and drops it when the ioctl returns.                    *)

(* Mutant: the driver is entered without the CRTC's modeset lock.          *)
IoctlEnterUnlocked(i) ==
  /\ owned
  /\ ioctl[i] = "out"
  /\ modeset_lock' = i
  /\ ioctl' = [ioctl EXCEPT ![i] = "in"]
  /\ UNCHANGED <<counts, kref, owned, value, making, fences, walkers>>

IoctlEnter(i) ==
  /\ owned
  /\ modeset_lock = None
  /\ ioctl[i] = "out"
  /\ modeset_lock' = i
  /\ ioctl' = [ioctl EXCEPT ![i] = "in"]
  /\ UNCHANGED <<counts, kref, owned, value, making, fences, walkers>>

(* A TEST_ONLY ioctl, or one that fails, returns without a commit.         *)
IoctlLeave(i) ==
  /\ ioctl[i] = "in"
  /\ modeset_lock' = None
  /\ ioctl' = [ioctl EXCEPT ![i] = "out"]
  /\ UNCHANGED <<counts, kref, owned, value, making, fences, walkers>>

(* Mutant: the two operands of the trigger value are subtracted.           *)
CreateReadSubtracted(i) ==
  /\ ioctl[i] = "in"
  /\ \E off \in Offsets : value' = [value EXCEPT ![i] = off - commit_count]
  /\ ioctl' = [ioctl EXCEPT ![i] = "read"]
  /\ UNCHANGED <<counts, kref, owned, modeset_lock, making, fences, walkers>>

(* Mutant: the caller does not add one to the offset.                      *)
CreateReadNoOffset(i) ==
  /\ ioctl[i] = "in"
  /\ \E off \in Offsets : value' = [value EXCEPT ![i] = commit_count + off - 1]
  /\ ioctl' = [ioctl EXCEPT ![i] = "read"]
  /\ UNCHANGED <<counts, kref, owned, modeset_lock, making, fences, walkers>>

(* sde_fence_create reads the timeline under ctx->lock ...                 *)
CreateRead(i) ==
  /\ ioctl[i] = "in"
  /\ \E off \in Offsets : value' = [value EXCEPT ![i] = commit_count + off]
  /\ ioctl' = [ioctl EXCEPT ![i] = "read"]
  /\ UNCHANGED <<counts, kref, owned, modeset_lock, making, fences, walkers>>

(* ... allocates the fence, whose sync_file user space sees at once ...    *)
CreateFd(i, f) ==
  /\ ioctl[i] = "read"
  /\ hold[f] = "none"
  /\ seqno' = [seqno EXCEPT ![f] = value[i]]
  /\ hold' = [hold EXCEPT ![f] = "new"]
  /\ open' = open \union {f}
  /\ kref' = kref + 1
  /\ making' = [making EXCEPT ![i] = f]
  /\ value' = [value EXCEPT ![i] = 0]
  /\ ioctl' = [ioctl EXCEPT ![i] = "made"]
  /\ UNCHANGED <<counts, owned, modeset_lock, signaled, error, walkers>>

(* Mutant: the error path forgets the reference on the context.            *)
CreateFdFailsLeaking(i) ==
  /\ ioctl[i] = "read"
  /\ value' = [value EXCEPT ![i] = 0]
  /\ ioctl' = [ioctl EXCEPT ![i] = "in"]
  /\ kref' = kref + 1
  /\ UNCHANGED <<counts, owned, modeset_lock, making, fences, walkers>>

(* ... or fails to (no descriptor, no sync_file) and drops it again, with  *)
(* the reference on the context it had taken ...                           *)
CreateFdFails(i) ==
  /\ ioctl[i] = "read"
  /\ value' = [value EXCEPT ![i] = 0]
  /\ ioctl' = [ioctl EXCEPT ![i] = "in"]
  /\ UNCHANGED <<counts, kref, owned, modeset_lock, making, fences, walkers>>

(* ... and links it last, under list_lock.                                 *)
ListAdd(i) ==
  /\ ioctl[i] = "made"
  /\ list_lock = None
  /\ hold' = [hold EXCEPT ![making[i]] = "listed"]
  /\ making' = [making EXCEPT ![i] = None]
  /\ ioctl' = [ioctl EXCEPT ![i] = "in"]
  /\ UNCHANGED <<counts, kref, owned, modeset_lock, value, seqno, open,
                 signaled, error, walkers>>

(* sde_fence_prepare, called from the ioctl before the commit is handed to *)
(* the display thread.  The ioctl then returns.                            *)
Prepare(i) ==
  /\ ioctl[i] = "in"
  /\ commit_count < Start + MaxCommits
  /\ commit_count - done_count < Window
  /\ \A f \in Fences :
       hold[f] \in {"new", "listed"} => commit_count - seqno[f] < Window
  /\ commit_count' = commit_count + 1
  /\ modeset_lock' = None
  /\ ioctl' = [ioctl EXCEPT ![i] = "out"]
  /\ UNCHANGED <<done_count, kref, owned, value, making, fences, walkers>>

-----------------------------------------------------------------------------
(* User space.                                                             *)

(* dma_fence_put of one of the two references a fence may have; the last   *)
(* one runs sde_fence_release, which drops the context's reference.        *)
PutContext(f, last) == kref' = IF last THEN kref - 1 ELSE kref

Close(f) ==
  /\ f \in open
  /\ open' = open \ {f}
  /\ PutContext(f, hold[f] = "dropped")
  /\ UNCHANGED <<counts, owned, callers, seqno, hold, signaled, error,
                 walkers>>

(* dma_fence_is_signaled asks sde_fence_signaled and signals by itself.    *)
Poll(f) ==
  /\ f \in open \ signaled
  /\ Reached(f)
  /\ signaled' = signaled \union {f}
  /\ UNCHANGED <<counts, kref, owned, callers, seqno, hold, open, error,
                 walkers>>

-----------------------------------------------------------------------------
(* sde_fence_signal.                                                       *)

(* The counter moves under ctx->lock.  A call that finds done_count level  *)
(* with commit_count returns without a trace, so it is no action here.     *)
SignalCount(s) ==
  /\ owned
  /\ stage[s] = "idle"
  /\ Behind
  /\ done_count' = done_count + 1
  /\ stage' = [stage EXCEPT ![s] = "counted"]
  /\ failing' \in {failing \ {s}, failing \union {s}}
  /\ UNCHANGED <<commit_count, kref, owned, callers, fences, list_lock, walk>>

(* Mutant: the reset returns without walking the list.                     *)
ResetTimelineSilently(s) ==
  /\ owned
  /\ stage[s] = "idle"
  /\ Behind
  /\ done_count' = commit_count
  /\ UNCHANGED <<commit_count, kref, owned, callers, fences, walkers>>

(* SDE_FENCE_RESET_TIMELINE writes every outstanding commit off.           *)
ResetTimeline(s) ==
  /\ owned
  /\ stage[s] = "idle"
  /\ Behind
  /\ done_count' = commit_count
  /\ stage' = [stage EXCEPT ![s] = "counted"]
  /\ failing' = failing \ {s}
  /\ UNCHANGED <<commit_count, kref, owned, callers, fences, list_lock, walk>>

(* _sde_fence_trigger: a reference on the context, then list_lock.         *)
TriggerEnter(s) ==
  /\ stage[s] = "counted"
  /\ list_lock = None
  /\ kref' = kref + 1
  /\ list_lock' = s
  /\ walk' = [walk EXCEPT ![s] = Listed]
  /\ stage' = [stage EXCEPT ![s] = "walking"]
  /\ UNCHANGED <<counts, owned, callers, fences, failing>>

(* One iteration of the loop.  The error is set whether or not the fence   *)
(* has been reached; a fence that has been is signalled and unlinked.      *)
Visit(s, f) ==
  /\ stage[s] = "walking"
  /\ f \in walk[s]
  /\ walk' = [walk EXCEPT ![s] = @ \ {f}]
  /\ error' = IF s \in failing THEN error \union {f} ELSE error
  /\ IF Reached(f)
       THEN /\ signaled' = signaled \union {f}
            /\ hold' = [hold EXCEPT ![f] = "dropped"]
            /\ PutContext(f, f \notin open)
       ELSE UNCHANGED <<signaled, hold, kref>>
  /\ UNCHANGED <<counts, owned, callers, seqno, open, list_lock, stage,
                 failing>>

TriggerExit(s) ==
  /\ stage[s] = "walking"
  /\ walk[s] = {}
  /\ list_lock' = None
  /\ kref' = kref - 1
  /\ stage' = [stage EXCEPT ![s] = "idle"]
  /\ failing' = failing \ {s}
  /\ UNCHANGED <<counts, owned, callers, fences, walk>>

(* sde_fence_deinit, when the CRTC or connector is destroyed: DRM calls it *)
(* after every ioctl and worker on the object has ended.                   *)
Deinit ==
  /\ owned
  /\ modeset_lock = None
  /\ \A s \in Signalers : stage[s] = "idle"
  /\ owned' = FALSE
  /\ kref' = kref - 1
  /\ UNCHANGED <<counts, callers, fences, walkers>>

-----------------------------------------------------------------------------
IoctlStep(i) ==
  \/ IoctlEnter(i)
  \/ IoctlLeave(i)
  \/ CreateRead(i)
  \/ \E f \in Fences : CreateFd(i, f)
  \/ CreateFdFails(i)
  \/ ListAdd(i)
  \/ Prepare(i)

UserStep(f) == Close(f) \/ Poll(f)

(* The steps a signaler takes by itself once it has moved done_count.      *)
TriggerStep(s) ==
  \/ TriggerEnter(s)
  \/ \E f \in Fences : Visit(s, f)
  \/ TriggerExit(s)

Next ==
  \/ \E i \in Ioctls : IoctlStep(i)
  \/ \E f \in Fences : UserStep(f)
  \/ \E s \in Signalers : SignalCount(s) \/ ResetTimeline(s) \/ TriggerStep(s)
  \/ Deinit

Spec == Init /\ [][Next]_vars

(* A thread inside _sde_fence_trigger is runnable kernel code that waits   *)
(* for nothing but a spinlock whose holders never block.                   *)
Fairness ==
  \A s \in Signalers : SF_vars(TriggerEnter(s)) /\ WF_vars(TriggerStep(s))

FairSpec == Spec /\ Fairness

-----------------------------------------------------------------------------
(* Properties.                                                             *)

TypeOK ==
  /\ commit_count \in Nat
  /\ done_count \in Nat
  /\ kref \in Int
  /\ owned \in BOOLEAN
  /\ modeset_lock \in Ioctls \union {None}
  /\ ioctl \in [Ioctls -> {"out", "in", "read", "made"}]
  /\ value \in [Ioctls -> Nat]
  /\ making \in [Ioctls -> Fences \union {None}]
  /\ seqno \in [Fences -> Nat]
  /\ hold \in [Fences -> {"none", "new", "listed", "dropped"}]
  /\ open \in SUBSET Fences
  /\ signaled \in SUBSET Fences
  /\ error \in SUBSET Fences
  /\ list_lock \in Signalers \union {None}
  /\ stage \in [Signalers -> {"idle", "counted", "walking"}]
  /\ walk \in [Signalers -> SUBSET Fences]
  /\ failing \in SUBSET Signalers

(* The timeline never runs past the commits it was told about, however     *)
(* many frame-done events, timeouts and resets arrive (the "extra signal   *)
(* attempt" branch of sde_fence_signal), also when the counters wrap.      *)
DoneNeverAhead == done_count <= commit_count

(* A fence that has signalled, by the walk or by a poll, has had its       *)
(* commit completed: no buffer is handed back while it is still scanned.   *)
NoEarlySignal == \A f \in signaled : seqno[f] <= done_count

(* A linked fence whose commit has completed is never forgotten: while it  *)
(* is unsignalled, some signaler is still on its way to it, although the   *)
(* counter moves and the list is walked in different critical sections and *)
(* the fence is linked in a third.                                         *)
OnItsWay(f, s) ==
  stage[s] = "counted" \/ (stage[s] = "walking" /\ f \in walk[s])
NoMissedSignal ==
  \A f \in Listed \ signaled :
    seqno[f] <= done_count => \E s \in Signalers : OnItsWay(f, s)

(* The context outlives its last user: kref counts the owner, the live     *)
(* fences and the walks, so sde_fence_destroy never frees a timeline that  *)
(* a fence held by user space would still read.                            *)
Refs ==
  (IF owned THEN 1 ELSE 0) + Cardinality(Live)
    + Cardinality({s \in Signalers : stage[s] = "walking"})
KrefExact == kref = Refs

(* Once a linked fence's commit has completed, the fence signals.          *)
EventuallySignaled ==
  \A f \in Fences :
    (f \in Listed /\ seqno[f] <= done_count) ~> f \in signaled

(* The modeset lock makes creating a fence and preparing a commit one      *)
(* critical section: the value an ioctl has read is still the timeline's.  *)
IoctlInv ==
  \A i \in Ioctls :
    /\ ioctl[i] # "out" <=> modeset_lock = i
    /\ ioctl[i] = "read" => \E off \in Offsets : value[i] = commit_count + off
    /\ ioctl[i] = "made" => /\ making[i] \in Fences
                            /\ hold[making[i]] = "new"
                            /\ seqno[making[i]] > commit_count

(* A walker holds list_lock, so no fence joins or leaves the list but by   *)
(* its own visits.                                                         *)
WalkInv ==
  \A s \in Signalers :
    /\ stage[s] = "walking" <=> list_lock = s
    /\ stage[s] = "walking" => walk[s] \subseteq Listed
    /\ stage[s] # "walking" => walk[s] = {}

(* Where a fence can be in its life, and how far its commit can be from    *)
(* the counters while the driver still holds it.                           *)
FenceInv ==
  \A f \in Fences :
    /\ hold[f] = "none" => f \notin open \union signaled
    /\ hold[f] = "dropped" => f \in signaled
    /\ hold[f] \in {"new", "listed"} =>
         /\ commit_count - seqno[f] <= Window
         /\ \E off \in Offsets : seqno[f] <= commit_count + off

(* The two counters, seen as plain numbers.                                *)
CountInv == DoneNeverAhead /\ commit_count - done_count <= Window

(* The inductive invariant of FenceTimelineProofs.                         *)
IndInv ==
  /\ TypeOK
  /\ CountInv
  /\ IoctlInv
  /\ WalkInv
  /\ FenceInv
  /\ NoEarlySignal
  /\ NoMissedSignal

(* What the timeline promises, as a specification of its own.              *)
Contract ==
  INSTANCE FenceContract WITH
    commits <- commit_count,
    completed <- done_count,
    issued <- {f \in Fences : hold[f] # "none"},
    due <- seqno
ImplementsContract == Contract!Spec
=============================================================================
