---------------------------- MODULE AtomicCommit ----------------------------
(***************************************************************************)
(* The atomic commit of msm/msm_atomic.c: clients (ioctls, suspend, last   *)
(* close) check a state under DRM's modeset locks and commit it, one       *)
(* display thread per CRTC completes it.  A commit first waits until none  *)
(* of its CRTCs and planes is pending, so the completion can run after the *)
(* locks are dropped.                                                      *)
(*                                                                         *)
(* The modeset locks are DRM core's wait-die mutexes, modelled from their  *)
(* use: the locks of the objects are taken before the check (DRM core      *)
(* restarts the whole check when that meets a deadlock), connection_mutex  *)
(* inside the commit, where only a client that is younger than the holder  *)
(* is told to back off.  Which client is the younger is left open.         *)
(***************************************************************************)
EXTENDS Integers, Sequences, FiniteSets, SequencesExt

CONSTANTS
  Clients,      \* threads that commit
  Crtcs,        \* the CRTCs, by index
  Planes,
  Conn,         \* connection_mutex
  None,         \* no client, no commit
  Requests,     \* the states clients commit
  MaxCommits,   \* bound: commits a run allocates
  MaxBackoffs   \* bound: times connection_mutex is found to deadlock

Objects == Crtcs \union Planes
(* A modeset involves connectors, which connection_mutex protects: DRM core*)
(* then takes it for the check.                                            *)
States == [objects : (SUBSET Objects) \ {{}}, modeset : BOOLEAN,
           nonblock : BOOLEAN]
Locks == Objects \union {Conn}
Commits == 1 .. MaxCommits

ASSUME ObjectsAssumption ==
  /\ Crtcs \subseteq Nat /\ Crtcs \cap Planes = {}
  /\ Conn \notin Objects
ASSUME ClientsAssumption == IsFiniteSet(Clients)
ASSUME RequestsAssumption == Requests \subseteq States
ASSUME NoneAssumption == None \notin Clients /\ None \notin Commits
ASSUME BoundsAssumption == MaxCommits \in Nat /\ MaxBackoffs \in Nat

VARIABLES
  lock,            \* holder of each modeset lock, or None
  pc,              \* where each client is in msm_atomic_commit
  request,         \* the state each client commits: objects and nonblock
  seen,            \* the updates of each object its check was based on, and
                   \* so the fence it has handed to user space
  commit,          \* the client's msm_commit, or None
  live,            \* the msm_commits allocated and not freed
  of,              \* the fields of each msm_commit
  next,            \* the next msm_commit to allocate
  pending_crtcs,   \* priv->pending_crtcs
  pending_planes,  \* priv->pending_planes
  queue,           \* the works of each display thread, the running one first
  programmed,      \* the commits written to the hardware, not yet destroyed
  sw,              \* updates of each object swapped in (a CRTC's commit_count)
  hw,              \* the update of each object the hardware has
  backoffs         \* deadlocks met so far

clients == <<lock, pc, request, seen, commit>>
memory == <<live, of, next>>
pending == <<pending_crtcs, pending_planes>>
state == <<sw, hw>>
vars == <<clients, memory, pending, queue, programmed, state, backoffs>>

NoRequest == [objects |-> {}, modeset |-> FALSE, nonblock |-> FALSE]
NoFields == [crtcs |-> {}, planes |-> {}, nonblock |-> FALSE]
NothingSeen == [o \in Objects |-> 0]
Steps == {"idle", "checked", "lock", "backoff", "wait", "swap", "dispatch",
          "sync", "flush"}

Init ==
  /\ lock = [l \in Locks |-> None]
  /\ pc = [c \in Clients |-> "idle"]
  /\ request = [c \in Clients |-> NoRequest]
  /\ seen = [c \in Clients |-> NothingSeen]
  /\ commit = [c \in Clients |-> None]
  /\ live = {}
  /\ of = [m \in Commits |-> NoFields]
  /\ next = 1
  /\ pending_crtcs = {}
  /\ pending_planes = {}
  /\ queue = [t \in Crtcs |-> <<>>]
  /\ programmed = {}
  /\ sw = [o \in Objects |-> 0]
  /\ hw = [o \in Objects |-> 0]
  /\ backoffs = 0

-----------------------------------------------------------------------------
Goto(c, step) == pc' = [pc EXCEPT ![c] = step]
Held(c) == {l \in Locks : lock[l] = c}
Kfree(m) == live' = live \ {m} /\ of' = [of EXCEPT ![m] = NoFields]
DropLocks(c) == lock' = [l \in Locks |-> IF lock[l] = c THEN None ELSE lock[l]]
Take(c, ls) == lock' = [l \in Locks |-> IF l \in ls THEN c ELSE lock[l]]
Free(ls, c) == \A l \in ls : lock[l] \in {None, c}

(* The commit ends: the ioctl drops its locks and returns.                 *)
Return(c) ==
  /\ Goto(c, "idle")
  /\ DropLocks(c)
  /\ commit' = [commit EXCEPT ![c] = None]
  /\ request' = [request EXCEPT ![c] = NoRequest]
  /\ seen' = [seen EXCEPT ![c] = NothingSeen]

(* The ioctl takes the locks of the objects, builds the new state on top of*)
(* the current one, creates the release fences and checks the state.       *)
LocksOf(r) == r.objects \union (IF r.modeset THEN {Conn} ELSE {})
Check(c, r) ==
  /\ pc[c] = "idle"
  /\ next + Cardinality({d \in Clients : pc[d] = "checked"}) <= MaxCommits
  /\ Free(LocksOf(r), c)
  /\ Take(c, LocksOf(r))
  /\ request' = [request EXCEPT ![c] = r]
  /\ seen' = [seen EXCEPT ![c] =
                 [o \in Objects |-> IF o \in r.objects THEN sw[o] ELSE 0]]
  /\ Goto(c, "checked")
  /\ UNCHANGED <<commit, memory, pending, queue, programmed, state, backoffs>>

(* drm_atomic_helper_prepare_planes or commit_init fails.                  *)
PrepareFails(c) ==
  /\ pc[c] = "checked"
  /\ Return(c)
  /\ UNCHANGED <<memory, pending, queue, programmed, state, backoffs>>

(* Mutant of Prepare: the planes' bits end up in the CRTC mask.            *)
PrepareMixesMasks(c) ==
  /\ pc[c] = "checked"
  /\ next' = next + 1
  /\ live' = live \union {next}
  /\ of' = [of EXCEPT ![next] = [crtcs |-> request[c].objects, planes |-> {},
                                 nonblock |-> request[c].nonblock]]
  /\ commit' = [commit EXCEPT ![c] = next]
  /\ Goto(c, "lock")
  /\ UNCHANGED <<lock, request, seen, pending, queue, programmed, state,
                 backoffs>>

(* commit_init, and the masks of the objects.                              *)
Prepare(c) ==
  /\ pc[c] = "checked"
  /\ next' = next + 1
  /\ live' = live \union {next}
  /\ of' = [of EXCEPT ![next] = [crtcs |-> request[c].objects \cap Crtcs,
                                 planes |-> request[c].objects \cap Planes,
                                 nonblock |-> request[c].nonblock]]
  /\ commit' = [commit EXCEPT ![c] = next]
  /\ Goto(c, "lock")
  /\ UNCHANGED <<lock, request, seen, pending, queue, programmed, state,
                 backoffs>>

(* Mutant of LockConnection: the other locks are dropped for it.           *)
LockConnectionOnly(c) ==
  /\ pc[c] \in {"lock", "backoff"}
  /\ Free({Conn}, c)
  /\ lock' = [l \in Locks |->
               IF l = Conn THEN c ELSE IF lock[l] = c THEN None ELSE lock[l]]
  /\ Goto(c, "wait")
  /\ UNCHANGED <<request, seen, commit, memory, pending, queue, programmed,
                 state, backoffs>>

(* connection_mutex.  A signal makes drm_modeset_lock fail; only a deadlock*)
(* is handled, other errors are not looked at.                             *)
LockConnection(c) ==
  /\ pc[c] \in {"lock", "backoff"}
  /\ Free({Conn}, c)
  /\ Take(c, {Conn})
  /\ Goto(c, "wait")
  /\ UNCHANGED <<request, seen, commit, memory, pending, queue, programmed,
                 state, backoffs>>
LockInterrupted(c) ==
  /\ pc[c] \in {"lock", "backoff"}
  /\ Goto(c, "wait")
  /\ UNCHANGED <<lock, request, seen, commit, memory, pending, queue,
                 programmed, state, backoffs>>
(* drm_modeset_backoff drops every lock of the client and then sleeps for  *)
(* the contended one; the check is not repeated.                           *)
Backoff(c) ==
  /\ pc[c] = "lock"
  /\ ~Free({Conn}, c)
  /\ backoffs < MaxBackoffs
  /\ backoffs' = backoffs + 1
  /\ DropLocks(c)
  /\ Goto(c, "backoff")
  /\ UNCHANGED <<request, seen, commit, memory, pending, queue, programmed,
                 state>>

(* Mutant of MayReserve: only the CRTCs are waited for.                    *)
MayReserveCrtcs(m) == pending_crtcs \cap of[m].crtcs = {}

(* wait_event_interruptible_locked on the pending masks, which are then    *)
(* set under the same spinlock.                                            *)
MayReserve(m) ==
  /\ pending_crtcs \cap of[m].crtcs = {}
  /\ pending_planes \cap of[m].planes = {}
Reserve(c) ==
  /\ pc[c] = "wait"
  /\ MayReserve(commit[c])
  /\ pending_crtcs' = pending_crtcs \union of[commit[c]].crtcs
  /\ pending_planes' = pending_planes \union of[commit[c]].planes
  /\ Goto(c, "swap")
  /\ UNCHANGED <<lock, request, seen, commit, memory, queue, programmed, state,
                 backoffs>>

(* Mutant of WaitInterrupted: the msm_commit is not freed.                 *)
WaitInterruptedLeaks(c) ==
  /\ pc[c] = "wait"
  /\ ~MayReserve(commit[c])
  /\ Return(c)
  /\ UNCHANGED <<memory, pending, queue, programmed, state, backoffs>>

(* A signal ends the wait: the commit is freed and the error returned.     *)
WaitInterrupted(c) ==
  /\ pc[c] = "wait"
  /\ ~MayReserve(commit[c])
  /\ Kfree(commit[c])
  /\ Return(c)
  /\ UNCHANGED <<next, pending, queue, programmed, state, backoffs>>

(* drm_atomic_helper_swap_state and prepare_fence: the new state becomes   *)
(* the current one, and the fence timelines of its CRTCs advance.          *)
Swap(c) ==
  /\ pc[c] = "swap"
  /\ sw' = [o \in Objects |-> IF o \in request[c].objects
                                THEN sw[o] + 1 ELSE sw[o]]
  /\ Goto(c, "dispatch")
  /\ UNCHANGED <<lock, request, seen, commit, memory, pending, queue,
                 programmed, hw, backoffs>>

(* msm_atomic_commit_dispatch.  The first CRTC of the state names the      *)
(* thread; a state without one is completed by the caller.                 *)
First(S) == CHOOSE i \in S : \A j \in S : i <= j
Dispatch(c) ==
  LET m == commit[c]
      q == of[m].crtcs
  IN  /\ pc[c] = "dispatch"
      /\ IF q = {}
           THEN Goto(c, "sync") /\ UNCHANGED <<lock, request, seen, commit, queue>>
           ELSE /\ queue' = [queue EXCEPT ![First(q)] = Append(@, m)]
                /\ IF of[m].nonblock
                     THEN Return(c)
                     ELSE Goto(c, "flush")
                            /\ UNCHANGED <<lock, request, seen, commit>>
      /\ UNCHANGED <<memory, pending, programmed, state, backoffs>>

(* kthread_flush_work, then the blocking caller frees the commit.          *)
Queued(m) == \E t \in Crtcs : m \in ToSet(queue[t])
Flush(c) ==
  /\ pc[c] = "flush"
  /\ ~Queued(commit[c])
  /\ Kfree(commit[c])
  /\ Return(c)
  /\ UNCHANGED <<next, pending, queue, programmed, state, backoffs>>

-----------------------------------------------------------------------------
(* complete_commit, in a display thread or in the caller.  The objects are *)
(* programmed from the state that is current then.                         *)
ObjectsOf(m) == of[m].crtcs \union of[m].planes
Program(m) ==
  /\ m \notin programmed
  /\ hw' = [o \in Objects |-> IF o \in ObjectsOf(m) THEN sw[o] ELSE hw[o]]
  /\ programmed' = programmed \union {m}
  /\ UNCHANGED sw

(* Mutant of CommitDestroy: the planes stay pending.                       *)
CommitDestroyCrtcs(m) ==
  /\ m \in programmed
  /\ pending_crtcs' = pending_crtcs \ of[m].crtcs
  /\ programmed' = programmed \ {m}
  /\ UNCHANGED pending_planes

(* commit_destroy.  The masks are cleared and every waiter woken.          *)
CommitDestroy(m) ==
  /\ m \in programmed
  /\ pending_crtcs' = pending_crtcs \ of[m].crtcs
  /\ pending_planes' = pending_planes \ of[m].planes
  /\ programmed' = programmed \ {m}

ThreadProgram(t) ==
  /\ queue[t] # <<>>
  /\ Program(Head(queue[t]))
  /\ UNCHANGED <<clients, memory, pending, queue, backoffs>>
(* A nonblocking commit is freed by the thread.                            *)
ThreadDestroy(t) ==
  /\ queue[t] # <<>>
  /\ LET m == Head(queue[t])
     IN  /\ CommitDestroy(m)
         /\ IF of[m].nonblock THEN Kfree(m) ELSE UNCHANGED <<live, of>>
  /\ queue' = [queue EXCEPT ![t] = Tail(@)]
  /\ UNCHANGED <<clients, next, state, backoffs>>

SyncProgram(c) ==
  /\ pc[c] = "sync"
  /\ Program(commit[c])
  /\ UNCHANGED <<clients, memory, pending, queue, backoffs>>
(* commit_destroy frees a nonblocking commit, the caller a blocking one.   *)
SyncDestroy(c) ==
  /\ pc[c] = "sync"
  /\ CommitDestroy(commit[c])
  /\ Kfree(commit[c])
  /\ Return(c)
  /\ UNCHANGED <<next, queue, state, backoffs>>

-----------------------------------------------------------------------------
ClientStep(c) ==
  \/ Prepare(c) \/ LockConnection(c) \/ Reserve(c) \/ Swap(c) \/ Dispatch(c)
  \/ Flush(c) \/ SyncProgram(c) \/ SyncDestroy(c)
ThreadStep(t) == ThreadProgram(t) \/ ThreadDestroy(t)

Next ==
  \/ \E c \in Clients :
       \/ \E r \in Requests : Check(c, r)
       \/ PrepareFails(c) \/ LockInterrupted(c) \/ Backoff(c)
       \/ WaitInterrupted(c)
       \/ ClientStep(c)
  \/ \E t \in Crtcs : ThreadStep(t)

Spec == Init /\ [][Next]_vars

(* Clients and display threads keep running, and the waiters of a modeset  *)
(* lock are queued: none is passed over for ever.                          *)
Fairness ==
  /\ \A c \in Clients : WF_vars(ClientStep(c)) /\ SF_vars(LockConnection(c))
  /\ \A t \in Crtcs : WF_vars(ThreadStep(t))
FairSpec == Spec /\ Fairness

-----------------------------------------------------------------------------
(* Properties.                                                             *)

TypeOK ==
  /\ lock \in [Locks -> Clients \union {None}]
  /\ pc \in [Clients -> Steps]
  /\ request \in [Clients -> States \union {NoRequest}]
  /\ seen \in [Clients -> [Objects -> Nat]]
  /\ commit \in [Clients -> Commits \union {None}]
  /\ live \subseteq Commits
  /\ of \in [Commits -> [crtcs : SUBSET Crtcs, planes : SUBSET Planes,
                          nonblock : BOOLEAN]]
  /\ next \in 1 .. MaxCommits + 1
  /\ pending_crtcs \subseteq Crtcs
  /\ pending_planes \subseteq Planes
  /\ queue \in [Crtcs -> Seq(Commits)]
  /\ programmed \subseteq Commits
  /\ sw \in [Objects -> Nat]
  /\ hw \in [Objects -> Nat]
  /\ backoffs \in 0 .. MaxBackoffs

Using(c) == pc[c] \in {"lock", "backoff", "wait", "swap", "dispatch", "sync",
                      "flush"}
Reserved == {commit[c] : c \in {d \in Clients : pc[d] \in {"swap", "dispatch", "sync"}}}
              \union UNION {ToSet(queue[t]) : t \in Crtcs}

(* A commit lives exactly as long as its caller or a display thread refers *)
(* to it, on the interrupted, the nonblocking, the blocking and the        *)
(* synchronous path: nothing is leaked, nothing used after kfree.          *)
LiveWhileUsed ==
  live = {commit[c] : c \in {d \in Clients : Using(d)}}
           \union UNION {ToSet(queue[t]) : t \in Crtcs}

(* The pending masks are those of the commits that have passed the wait and*)
(* were not destroyed, and no two of these share a CRTC or a plane, also   *)
(* when they run in different threads or in the caller.                    *)
PendingExact ==
  /\ pending_crtcs = UNION {of[m].crtcs : m \in Reserved}
  /\ pending_planes = UNION {of[m].planes : m \in Reserved}
  /\ \A m, n \in Reserved : m # n => ObjectsOf(m) \cap ObjectsOf(n) = {}

(* What a client checked and handed fences out for is what it commits on:  *)
(* nobody swaps another state in meanwhile, as long as connection_mutex has*)
(* not been backed off from.                                               *)
Committing(c) == pc[c] \in {"checked", "lock", "backoff", "wait", "swap"}
Validated(c) == \A o \in request[c].objects : seen[c][o] = sw[o]
ValidUntilBackoff ==
  backoffs = 0 => \A c \in Clients : Committing(c) => Validated(c)

(* msm_atomic.c implements CommitContract: an update is in flight from the *)
(* swap to the moment it is programmed.                                    *)
Updates == {ObjectsOf(m) : m \in
     ({commit[c] : c \in {d \in Clients : pc[d] \in {"dispatch", "sync"}}}
        \union UNION {ToSet(queue[t]) : t \in Crtcs}) \ programmed}
Contract == INSTANCE CommitContract WITH
  Objects <- Objects, sw <- sw, hw <- hw, flight <- Updates
ImplementsContract == Contract!FairSpec

(* Every client that is not waiting for a commit of its own gets through:  *)
(* no wait on the masks, the locks or a display thread is for ever.        *)
CommitsReturn == \A c \in Clients : pc[c] # "idle" ~> pc[c] = "idle"

(* "Protection for prepare_fence callback" (msm_atomic.c:749): the state   *)
(* that is swapped in, and the fences that prepare_fence advances the      *)
(* timelines for, are those of the check.                                  *)
FencesProtected ==
  [][\A c \in Clients : Swap(c) => Validated(c)]_vars
=============================================================================
