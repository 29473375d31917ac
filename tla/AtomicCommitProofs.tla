------------------------- MODULE AtomicCommitProofs -------------------------
(***************************************************************************)
(* Theorems about AtomicCommit, for any clients, CRTCs, planes, requests   *)
(* and bounds.  The heart is PendInv: the pending masks are those of the   *)
(* commits between the wait and the destruction, which share no object.    *)
(* From it follows that an object is behind by at most the one update in   *)
(* flight (LagInv), so that programming the current state is applying that *)
(* update: a step of CommitContract.  The invariants are stated of single  *)
(* commits (InQueue, At) where AtomicCommit collects sets.                 *)
(***************************************************************************)
EXTENDS AtomicCommit, FiniteSetTheorems, WellFoundedInduction, TLAPS

(* A client at one of the given steps has m; a display thread has m.       *)
At(S, m) == \E c \in Clients : pc[c] \in S /\ commit[c] = m
Other(c, S, m) == \E d \in Clients \ {c} : pc[d] \in S /\ commit[d] = m
InQueue(m) == \E t \in Crtcs : m \in ToSet(queue[t])
Res(m) == At({"swap", "dispatch", "sync"}, m) \/ InQueue(m)
Flight(m) == (At({"dispatch", "sync"}, m) \/ InQueue(m)) /\ m \notin programmed

Early == {"idle", "checked", "lock", "backoff", "wait"}
Unprepared == {"idle", "checked"}
InUse == Steps \ Unprepared
Checked == {c \in Clients : pc[c] = "checked"}
Masks(r) == [crtcs |-> r.objects \cap Crtcs, planes |-> r.objects \cap Planes,
             nonblock |-> r.nonblock]
Distinct(s) == \A i, j \in DOMAIN s : s[i] = s[j] => i = j

(* Every checked client can still get an msm_commit.                       *)
BoundInv == next + Cardinality(Checked) <= MaxCommits + 1

(* What the steps say of the client and its msm_commit, which is its own.  *)
ClientInv ==
  \A c \in Clients :
    /\ pc[c] # "idle" => request[c] \in States
    /\ pc[c] \notin Unprepared =>
         /\ commit[c] \in Commits /\ commit[c] < next
         /\ of[commit[c]] = Masks(request[c])
    /\ pc[c] = "sync" => of[commit[c]].crtcs = {}
    /\ pc[c] = "flush" => of[commit[c]].nonblock = FALSE
UniqueInv ==
  \A c, d \in Clients :
    pc[c] \notin Unprepared /\ pc[d] \notin Unprepared /\ commit[c] = commit[d] => c = d

(* A work is queued once; while its client still has it that one waits.    *)
QueueInv ==
  /\ \A t \in Crtcs : Distinct(queue[t])
  /\ \A t, u \in Crtcs : \A m \in Commits :
       m \in ToSet(queue[t]) /\ m \in ToSet(queue[u]) => t = u
WorkInv ==
  \A m \in Commits : InQueue(m) =>
    /\ m < next
    /\ ObjectsOf(m) # {}
    /\ of[m].nonblock = FALSE => At({"flush"}, m)
    /\ \A c \in Clients : pc[c] \notin Unprepared /\ commit[c] = m => pc[c] = "flush"

LiveInv == \A m \in Commits : m \in live <=> At(InUse, m) \/ InQueue(m)

PendInv ==
  /\ \A q \in Crtcs : q \in pending_crtcs <=>
                        \E m \in Commits : Res(m) /\ q \in of[m].crtcs
  /\ \A p \in Planes : p \in pending_planes <=>
                        \E m \in Commits : Res(m) /\ p \in of[m].planes
  /\ \A m, n \in Commits : Res(m) /\ Res(n) /\ m # n
                             => ObjectsOf(m) \cap ObjectsOf(n) = {}

ProgInv == \A m \in programmed : At({"sync"}, m) \/ InQueue(m)

(* The hardware lacks exactly the updates in flight.                       *)
Flying(o) == \E m \in Commits : Flight(m) /\ o \in ObjectsOf(m)
LagInv == \A o \in Objects : sw[o] = hw[o] + (IF Flying(o) THEN 1 ELSE 0)

(* A step that neither swaps nor programs: CommitContract stutters.        *)
FlightKept ==
  /\ sw' = sw /\ hw' = hw
  /\ \A m \in Commits : Flight(m)' <=> Flight(m)
  /\ \A m \in Commits : Flight(m) => of'[m] = of[m]

(* A step that puts commit k, of the objects S, in flight.                 *)
Launches(k, S) ==
  /\ k \in Commits /\ Res(k) /\ ~Flight(k) /\ ObjectsOf(k) = S
  /\ sw' = [o \in Objects |-> IF o \in S THEN sw[o] + 1 ELSE sw[o]]
  /\ hw' = hw /\ of' = of
  /\ \A m \in Commits : Flight(m)' <=> Flight(m) \/ m = k

(* A step that programs commit k.                                          *)
Lands(k) ==
  /\ Flight(k)
  /\ hw' = [o \in Objects |-> IF o \in ObjectsOf(k) THEN sw[o] ELSE hw[o]]
  /\ sw' = sw /\ of' = of
  /\ \A m \in Commits : Flight(m)' <=> Flight(m) /\ m # k

(* The locks taken for the check are kept until the swap.                  *)
LockInv ==
  backoffs = 0 =>
    \A c \in Clients : Committing(c) =>
      \A o \in request[c].objects : lock[o] = c /\ seen[c][o] = sw[o]

(* What the display threads see.                                           *)
BackInv == QueueInv /\ WorkInv /\ PendInv /\ ProgInv /\ LagInv
IInv == TypeOK /\ BoundInv /\ ClientInv /\ UniqueInv /\ LiveInv /\ LockInv /\ BackInv

-----------------------------------------------------------------------------
(* The works of a display thread, as a set, after queueing one ...         *)
LEMMA AppendSet ==
  ASSUME NEW S, NEW s \in Seq(S), NEW x \in S
  PROVE  /\ ToSet(Append(s, x)) = ToSet(s) \union {x}
         /\ Append(s, x) \in Seq(S)
         /\ Distinct(s) /\ x \notin ToSet(s) => Distinct(Append(s, x))
<1>1. /\ Append(s, x) \in Seq(S)
      /\ DOMAIN Append(s, x) = 1 .. Len(s) + 1
      /\ DOMAIN s = 1 .. Len(s)
      /\ \A i \in 1 .. Len(s) : Append(s, x)[i] = s[i]
      /\ Append(s, x)[Len(s) + 1] = x
      /\ Len(s) \in Nat
  OBVIOUS
<1>2. ToSet(Append(s, x)) = ToSet(s) \union {x}
  BY <1>1 DEF ToSet
<1>3. ASSUME Distinct(s), x \notin ToSet(s) PROVE Distinct(Append(s, x))
  BY <1>1, <1>3 DEF Distinct, ToSet
<1> QED
  BY <1>1, <1>2, <1>3

(* ... and after finishing the first.                                      *)
LEMMA TailSet ==
  ASSUME NEW S, NEW s \in Seq(S), s # <<>>, Distinct(s)
  PROVE  /\ ToSet(Tail(s)) = ToSet(s) \ {Head(s)}
         /\ Head(s) \in ToSet(s) /\ Head(s) \in S
         /\ Tail(s) \in Seq(S) /\ Distinct(Tail(s))
<1>1. /\ DOMAIN s = 1 .. Len(s) /\ Len(s) \in Nat \ {0}
      /\ Head(s) = s[1]
      /\ Tail(s) \in Seq(S)
      /\ DOMAIN Tail(s) = 1 .. Len(s) - 1
      /\ \A i \in 1 .. Len(s) - 1 : Tail(s)[i] = s[i + 1]
      /\ \A i \in 1 .. Len(s) : s[i] \in S
  OBVIOUS
<1>2. Distinct(Tail(s))
  BY <1>1 DEF Distinct
<1>3. ToSet(Tail(s)) \subseteq ToSet(s) \ {Head(s)}
  BY <1>1 DEF ToSet, Distinct
<1>4. ToSet(s) \ {Head(s)} \subseteq ToSet(Tail(s))
  <2> SUFFICES ASSUME NEW i \in 1 .. Len(s), s[i] # s[1]
               PROVE  s[i] \in ToSet(Tail(s))
    BY <1>1 DEF ToSet
  <2>1. i - 1 \in 1 .. Len(s) - 1 /\ s[i] = Tail(s)[i - 1]
    BY <1>1
  <2> QED
    BY <2>1, <1>1 DEF ToSet
<1>5. Head(s) \in ToSet(s)
  BY <1>1 DEF ToSet
<1> QED
  BY <1>1, <1>2, <1>3, <1>4, <1>5

LEMMA EmptyQueue == ToSet(<<>>) = {} /\ Distinct(<<>>)
BY DEF ToSet, Distinct

(* Who has a commit after one client moved on.                             *)
LEMMA MoveAt ==
  ASSUME NEW c \in Clients, NEW s, NEW k, NEW S, NEW m,
         pc \in [Clients -> Steps], commit \in [Clients -> Commits \union {None}],
         pc' = [pc EXCEPT ![c] = s], commit' = [commit EXCEPT ![c] = k]
  PROVE  /\ At(S, m)' <=> Other(c, S, m) \/ (s \in S /\ m = k)
         /\ At(S, m) <=> Other(c, S, m) \/ (pc[c] \in S /\ m = commit[c])
BY DEF At, Other

LEMMA SameAt ==
  ASSUME NEW c \in Clients, NEW s, NEW k, NEW S,
         pc \in [Clients -> Steps], commit \in [Clients -> Commits \union {None}],
         pc' = [pc EXCEPT ![c] = s], commit' = [commit EXCEPT ![c] = k],
         (s \notin S /\ pc[c] \notin S) \/ (s \in S /\ pc[c] \in S /\ k = commit[c])
  PROVE  \A m : At(S, m)' <=> At(S, m)
<1> SUFFICES ASSUME NEW m PROVE At(S, m)' <=> At(S, m)
  OBVIOUS
<1>1. At(S, m)' <=> Other(c, S, m) \/ (s \in S /\ m = k)
  BY MoveAt
<1>2. At(S, m) <=> Other(c, S, m) \/ (pc[c] \in S /\ m = commit[c])
  BY MoveAt
<1> QED
  BY <1>1, <1>2

LEMMA EntersAt ==
  ASSUME NEW c \in Clients, NEW s, NEW k, NEW S,
         pc \in [Clients -> Steps], commit \in [Clients -> Commits \union {None}],
         pc' = [pc EXCEPT ![c] = s], commit' = [commit EXCEPT ![c] = k],
         s \in S, pc[c] \notin S
  PROVE  \A m : At(S, m)' <=> At(S, m) \/ m = k
<1> SUFFICES ASSUME NEW m PROVE At(S, m)' <=> At(S, m) \/ m = k
  OBVIOUS
<1>1. At(S, m)' <=> Other(c, S, m) \/ (s \in S /\ m = k)
  BY MoveAt
<1>2. At(S, m) <=> Other(c, S, m) \/ (pc[c] \in S /\ m = commit[c])
  BY MoveAt
<1> QED
  BY <1>1, <1>2

LEMMA LeavesAt ==
  ASSUME NEW c \in Clients, NEW s, NEW k, NEW S,
         pc \in [Clients -> Steps], commit \in [Clients -> Commits \union {None}],
         pc' = [pc EXCEPT ![c] = s], commit' = [commit EXCEPT ![c] = k],
         s \notin S, pc[c] \in S,
         \A d \in Clients \ {c} : pc[d] \in S => commit[d] # commit[c]
  PROVE  \A m : At(S, m)' <=> At(S, m) /\ m # commit[c]
<1> SUFFICES ASSUME NEW m PROVE At(S, m)' <=> At(S, m) /\ m # commit[c]
  OBVIOUS
<1>1. At(S, m)' <=> Other(c, S, m) \/ (s \in S /\ m = k)
  BY MoveAt
<1>2. At(S, m) <=> Other(c, S, m) \/ (pc[c] \in S /\ m = commit[c])
  BY MoveAt
<1>3. Other(c, S, m) => m # commit[c]
  BY DEF Other
<1> QED
  BY <1>1, <1>2, <1>3

-----------------------------------------------------------------------------
(* Steps of a client that has not passed the wait: the display threads and *)
(* the commits on their way do not notice.                                 *)
LEMMA EarlyStep ==
  ASSUME TypeOK, BackInv, NEW c \in Clients, NEW s \in Early, NEW k,
         pc[c] \in Early,
         pc' = [pc EXCEPT ![c] = s], commit' = [commit EXCEPT ![c] = k],
         UNCHANGED <<pending, queue, programmed, sw, hw>>,
         next' = next \/ next' = next + 1,
         \A m \in Commits : Res(m) => of'[m] = of[m],
         \A m \in Commits : s \notin Unprepared /\ k = m => ~InQueue(m)
  PROVE  BackInv' /\ FlightKept
<1>1. /\ pc \in [Clients -> Steps] /\ commit \in [Clients -> Commits \union {None}]
      /\ next \in Nat /\ programmed \subseteq Commits
  BY DEF TypeOK
<1>2. /\ queue' = queue /\ programmed' = programmed /\ sw' = sw /\ hw' = hw
      /\ pending_crtcs' = pending_crtcs /\ pending_planes' = pending_planes
  BY DEF pending
<1>3. \A m : InQueue(m)' <=> InQueue(m)
  BY <1>2 DEF InQueue
<1>4. \A S, m : S \cap Early = {} => (At(S, m)' <=> At(S, m))
  BY <1>1, MoveAt
<1>5. /\ \A m : At({"flush"}, m)' <=> At({"flush"}, m)
      /\ \A m : At({"sync"}, m)' <=> At({"sync"}, m)
      /\ \A m : Res(m)' <=> Res(m)
      /\ \A m : Flight(m)' <=> Flight(m)
  <2>1. /\ {"flush"} \cap Early = {} /\ {"sync"} \cap Early = {}
        /\ {"swap", "dispatch", "sync"} \cap Early = {}
        /\ {"dispatch", "sync"} \cap Early = {}
    BY DEF Early
  <2> QED
    BY <1>2, <1>3, <1>4, <2>1 DEF Res, Flight
<1>6. \A m \in Commits : Res(m) => of'[m] = of[m] /\ ObjectsOf(m)' = ObjectsOf(m)
  BY DEF ObjectsOf
<1>7. \A m \in Commits : InQueue(m) \/ Flight(m) => Res(m)
  <2>1. \A m : At({"dispatch", "sync"}, m) => At({"swap", "dispatch", "sync"}, m)
    BY DEF At
  <2> QED
    BY <2>1 DEF Res, Flight
<1>8. QueueInv'
  BY <1>2 DEF BackInv, QueueInv
<1>9. WorkInv'
  <2> SUFFICES ASSUME NEW m \in Commits, InQueue(m)
               PROVE  /\ m < next'
                      /\ ObjectsOf(m)' # {}
                      /\ of'[m].nonblock = FALSE => At({"flush"}, m)'
                      /\ \A d \in Clients : pc'[d] \notin Unprepared /\ commit'[d] = m
                                              => pc'[d] = "flush"
    BY <1>3 DEF WorkInv
  <2>1. /\ m < next /\ ObjectsOf(m) # {}
        /\ of[m].nonblock = FALSE => At({"flush"}, m)
        /\ \A d \in Clients : pc[d] \notin Unprepared /\ commit[d] = m => pc[d] = "flush"
    BY DEF BackInv, WorkInv
  <2>2. of'[m] = of[m] /\ ObjectsOf(m)' = ObjectsOf(m)
    BY <1>6, <1>7
  <2>3. m < next'
    BY <1>1, <2>1 DEF Commits
  <2>4. \A d \in Clients : pc'[d] \notin Unprepared /\ commit'[d] = m => pc'[d] = "flush"
    BY <1>1, <2>1
  <2> QED
    BY <1>5, <2>1, <2>2, <2>3, <2>4
<1>10. PendInv'
  BY <1>2, <1>5, <1>6 DEF BackInv, PendInv
<1>11. ProgInv'
  BY <1>2, <1>3, <1>5 DEF BackInv, ProgInv
<1>12. LagInv'
  <2>1. \A o : Flying(o)' <=> Flying(o)
    BY <1>5, <1>6, <1>7 DEF Flying
  <2> QED
    BY <1>2, <2>1 DEF BackInv, LagInv
<1>13. FlightKept
  BY <1>2, <1>5, <1>6, <1>7 DEF FlightKept
<1> QED
  BY <1>8, <1>9, <1>10, <1>11, <1>12, <1>13 DEF BackInv

-----------------------------------------------------------------------------
(* A step of one client leaves what is known of the others.                *)
LEMMA CheckedCount ==
  ASSUME NEW c \in Clients, NEW s, pc \in [Clients -> Steps],
         pc' = [pc EXCEPT ![c] = s]
  PROVE  /\ Cardinality(Checked) \in Nat /\ Cardinality(Checked)' \in Nat
         /\ Cardinality(Checked)' =
              Cardinality(Checked) + (IF s = "checked" THEN 1 ELSE 0)
                                   - (IF pc[c] = "checked" THEN 1 ELSE 0)
<1>1. /\ IsFiniteSet(Checked) /\ Cardinality(Checked) \in Nat
      /\ IsFiniteSet(Checked \union {c}) /\ IsFiniteSet(Checked \ {c})
      /\ Cardinality(Checked \union {c}) \in Nat /\ Cardinality(Checked \ {c}) \in Nat
  <2>1. Checked \subseteq Clients /\ Checked \union {c} \subseteq Clients
        /\ Checked \ {c} \subseteq Clients
    BY DEF Checked
  <2> QED
    BY <2>1, ClientsAssumption, FS_Subset, FS_CardinalityType
<1>2. Checked' = IF s = "checked" THEN Checked \union {c} ELSE Checked \ {c}
  BY DEF Checked
<1>3. c \in Checked <=> pc[c] = "checked"
  BY DEF Checked
<1>4. Cardinality(Checked \union {c}) =
        IF pc[c] = "checked" THEN Cardinality(Checked) ELSE Cardinality(Checked) + 1
  BY <1>1, <1>3, FS_AddElement
<1>5. Cardinality(Checked \ {c}) =
        IF pc[c] = "checked" THEN Cardinality(Checked) - 1 ELSE Cardinality(Checked)
  BY <1>1, <1>3, FS_RemoveElement
<1> QED
  BY <1>1, <1>2, <1>4, <1>5

LEMMA ClientStepInv ==
  ASSUME TypeOK, ClientInv, NEW c \in Clients, NEW s, NEW k, NEW r,
         pc' = [pc EXCEPT ![c] = s], commit' = [commit EXCEPT ![c] = k],
         request' = [request EXCEPT ![c] = r],
         next' = next \/ next' = next + 1,
         \A d \in Clients \ {c} : pc[d] \notin Unprepared
                                    => of'[commit[d]] = of[commit[d]],
         s # "idle" => r \in States,
         s \notin Unprepared => k \in Commits /\ k < next' /\ of'[k] = Masks(r),
         s = "sync" => of'[k].crtcs = {},
         s = "flush" => of'[k].nonblock = FALSE
  PROVE  ClientInv'
<1>1. /\ pc'[c] = s /\ commit'[c] = k /\ request'[c] = r
      /\ \A d \in Clients \ {c} : /\ pc'[d] = pc[d] /\ commit'[d] = commit[d]
                                  /\ request'[d] = request[d]
      /\ next \in Nat
  BY DEF TypeOK
<1> SUFFICES ASSUME NEW d \in Clients
             PROVE  /\ pc'[d] # "idle" => request'[d] \in States
                    /\ pc'[d] \notin Unprepared =>
                         /\ commit'[d] \in Commits /\ commit'[d] < next'
                         /\ of'[commit'[d]] = Masks(request'[d])
                    /\ pc'[d] = "sync" => of'[commit'[d]].crtcs = {}
                    /\ pc'[d] = "flush" => of'[commit'[d]].nonblock = FALSE
  BY DEF ClientInv, Masks
<1>2. CASE d = c
  BY <1>1, <1>2
<1>3. CASE d # c
  <2>1. /\ pc[d] # "idle" => request[d] \in States
        /\ pc[d] \notin Unprepared =>
             /\ commit[d] \in Commits /\ commit[d] < next
             /\ of[commit[d]] = Masks(request[d])
        /\ pc[d] = "sync" => of[commit[d]].crtcs = {}
        /\ pc[d] = "flush" => of[commit[d]].nonblock = FALSE
    BY DEF ClientInv
  <2>2. pc[d] \notin Unprepared => commit[d] < next'
    BY <1>1, <2>1 DEF Commits
  <2>3. pc[d] \in {"sync", "flush"} => pc[d] \notin Unprepared
    BY DEF Unprepared
  <2> QED
    BY <1>1, <1>3, <2>1, <2>2, <2>3
<1> QED
  BY <1>2, <1>3

LEMMA UniqueStep ==
  ASSUME TypeOK, UniqueInv, NEW c \in Clients, NEW s, NEW k,
         pc' = [pc EXCEPT ![c] = s], commit' = [commit EXCEPT ![c] = k],
         s \notin Unprepared =>
           \A d \in Clients \ {c} : pc[d] \notin Unprepared => commit[d] # k
  PROVE  UniqueInv'
BY DEF TypeOK, UniqueInv

LEMMA LockStep ==
  ASSUME TypeOK, LockInv, NEW c \in Clients,
         backoffs' = 0 => backoffs = 0,
         \A d \in Clients \ {c} : /\ pc'[d] = pc[d] /\ request'[d] = request[d]
                                  /\ seen'[d] = seen[d],
         backoffs' = 0 =>
           \A d \in Clients \ {c} : \A o \in Objects :
             lock[o] = d => lock'[o] = d /\ sw'[o] = sw[o],
         backoffs' = 0 /\ Committing(c)' =>
           \A o \in request'[c].objects : lock'[o] = c /\ seen'[c][o] = sw'[o]
  PROVE  LockInv'
<1> SUFFICES ASSUME backoffs' = 0, NEW d \in Clients, Committing(d)',
                    NEW o \in request'[d].objects
             PROVE  lock'[o] = d /\ seen'[d][o] = sw'[o]
  BY DEF LockInv
<1>1. CASE d # c
  <2>1. request'[d] = request[d] /\ seen'[d] = seen[d] /\ Committing(d)
    BY <1>1 DEF Committing
  <2>2. lock[o] = d /\ seen[d][o] = sw[o]
    BY <2>1 DEF LockInv
  <2>3. o \in Objects
    <3>1. request[d] \in States \union {NoRequest}
      BY DEF TypeOK
    <3>2. request[d].objects \subseteq Objects
      BY <3>1 DEF States, NoRequest
    <3> QED
      BY <2>1, <3>2
  <2> QED
    BY <1>1, <2>1, <2>2, <2>3
<1>2. CASE d = c
  BY <1>2
<1> QED
  BY <1>1, <1>2

(* The locks of the others survive what a client does with its own.        *)
LEMMA Unlock ==
  ASSUME TypeOK, NEW c \in Clients, DropLocks(c) \/ lock' = lock
  PROVE  /\ \A d \in Clients \ {c} : \A o \in Objects : lock[o] = d => lock'[o] = d
         /\ lock' \in [Locks -> Clients \union {None}]
BY DEF TypeOK, DropLocks, Locks

LEMMA Lock ==
  ASSUME TypeOK, NEW c \in Clients, NEW ls, Free(ls, c), Take(c, ls)
  PROVE  /\ \A d \in Clients \ {c} : \A o \in Objects : lock[o] = d => lock'[o] = d
         /\ \A o \in Objects : o \in ls \/ lock[o] = c => lock'[o] = c
         /\ lock' \in [Locks -> Clients \union {None}]
BY NoneAssumption DEF TypeOK, Free, Take, Locks

-----------------------------------------------------------------------------
(* The actions, one lemma each.  First those before the wait.              *)
LEMMA CheckInv ==
  ASSUME IInv, NEW c \in Clients, NEW r \in Requests, Check(c, r)
  PROVE  IInv' /\ FlightKept
<1>0. TypeOK /\ BackInv /\ ClientInv /\ UniqueInv /\ LockInv /\ BoundInv /\ LiveInv
  BY DEF IInv
<1>1. /\ pc[c] = "idle" /\ pc' = [pc EXCEPT ![c] = "checked"]
      /\ request' = [request EXCEPT ![c] = r] /\ r \in States
      /\ seen' = [seen EXCEPT ![c] = [o \in Objects |-> IF o \in r.objects THEN sw[o] ELSE 0]]
      /\ UNCHANGED <<commit, live, of, next, pending, queue, programmed, sw, hw, backoffs>>
      /\ Free(LocksOf(r), c) /\ Take(c, LocksOf(r))
      /\ next + Cardinality(Checked) <= MaxCommits
  BY RequestsAssumption DEF Check, Goto, memory, state, Checked
<1>2. /\ pc \in [Clients -> Steps] /\ commit \in [Clients -> Commits \union {None}]
      /\ next \in Nat
  BY <1>0 DEF TypeOK
<1>3. commit' = [commit EXCEPT ![c] = commit[c]]
  BY <1>1, <1>2
<1>4. TypeOK'
  <2>1. lock' \in [Locks -> Clients \union {None}]
    BY <1>0, <1>1, Lock
  <2>2. seen' \in [Clients -> [Objects -> Nat]]
    BY <1>0, <1>1 DEF TypeOK
  <2>3. pc' \in [Clients -> Steps] /\ request' \in [Clients -> States \union {NoRequest}]
    BY <1>0, <1>1 DEF TypeOK, Steps
  <2> QED
    BY <1>0, <1>1, <2>1, <2>2, <2>3, Zenon DEF TypeOK, pending
<1>5. BoundInv'
  <2>1. /\ Cardinality(Checked)' =
             Cardinality(Checked) + (IF "checked" = "checked" THEN 1 ELSE 0)
                                  - (IF pc[c] = "checked" THEN 1 ELSE 0)
        /\ Cardinality(Checked) \in Nat
    BY <1>1, <1>2, CheckedCount, Zenon
  <2>2. Cardinality(Checked)' = Cardinality(Checked) + 1
    BY <1>1, <2>1
  <2> QED
    BY <1>1, <1>2, <2>1, <2>2, BoundsAssumption DEF BoundInv
<1>6. ClientInv'
  BY <1>0, <1>1, <1>3, ClientStepInv DEF Unprepared
<1>7. UniqueInv'
  BY <1>0, <1>1, <1>3, UniqueStep DEF Unprepared
<1>8. LiveInv'
  <2>1. /\ "checked" \notin InUse /\ "idle" \notin InUse
        /\ pc[c] \notin InUse
    BY <1>1 DEF InUse, Unprepared
  <2>2. \A m : At(InUse, m)' <=> At(InUse, m)
    BY <1>1, <1>2, <1>3, <2>1, SameAt, Zenon
  <2> QED
    BY <1>0, <1>1, <2>2 DEF LiveInv, InQueue
<1>9. LockInv'
  <2>1. /\ \A d \in Clients \ {c} : \A o \in Objects : lock[o] = d => lock'[o] = d
        /\ \A o \in Objects : o \in LocksOf(r) => lock'[o] = c
    BY <1>0, <1>1, Lock
  <2>2. \A o \in r.objects : o \in Objects /\ o \in LocksOf(r)
    BY <1>1 DEF States, LocksOf
  <2>3. request'[c] = r /\ \A o \in r.objects : seen'[c][o] = sw[o]
    BY <1>0, <1>1, <2>2 DEF TypeOK
  <2>4. \A d \in Clients \ {c} : /\ pc'[d] = pc[d] /\ request'[d] = request[d]
                                 /\ seen'[d] = seen[d]
    BY <1>0, <1>1 DEF TypeOK
  <2> QED
    BY <1>0, <1>1, <2>1, <2>2, <2>3, <2>4, LockStep
<1>10. BackInv' /\ FlightKept
  <2>1. /\ UNCHANGED <<pending, queue, programmed, sw, hw>> /\ next' = next
        /\ \A m \in Commits : Res(m) => of'[m] = of[m]
        /\ pc[c] \in Early /\ "checked" \in Early /\ "checked" \in Unprepared
    BY <1>1 DEF Early, Unprepared
  <2> QED
    BY <1>0, <1>1, <1>3, <2>1, EarlyStep, Zenon
<1> QED
  BY <1>4, <1>5, <1>6, <1>7, <1>8, <1>9, <1>10 DEF IInv

(* What Return leaves.                                                     *)
LEMMA ReturnSteps ==
  ASSUME TypeOK, NEW c \in Clients, Return(c)
  PROVE  /\ pc' = [pc EXCEPT ![c] = "idle"] /\ commit' = [commit EXCEPT ![c] = None]
         /\ request' = [request EXCEPT ![c] = NoRequest]
         /\ pc' \in [Clients -> Steps]
         /\ commit' \in [Clients -> Commits \union {None}]
         /\ request' \in [Clients -> States \union {NoRequest}]
         /\ seen' \in [Clients -> [Objects -> Nat]]
         /\ lock' \in [Locks -> Clients \union {None}]
         /\ UniqueInv => UniqueInv'
         /\ LockInv /\ (backoffs' = backoffs) /\ sw' = sw => LockInv'
         /\ BoundInv /\ next' = next => BoundInv'
<1>1. /\ pc' = [pc EXCEPT ![c] = "idle"] /\ commit' = [commit EXCEPT ![c] = None]
      /\ request' = [request EXCEPT ![c] = NoRequest]
      /\ seen' = [seen EXCEPT ![c] = NothingSeen]
      /\ DropLocks(c)
  BY DEF Return, Goto
<1>2. /\ lock' \in [Locks -> Clients \union {None}]
      /\ \A d \in Clients \ {c} : \A o \in Objects : lock[o] = d => lock'[o] = d
  BY <1>1, Unlock
<1>3. /\ pc' \in [Clients -> Steps]
      /\ commit' \in [Clients -> Commits \union {None}]
      /\ request' \in [Clients -> States \union {NoRequest}]
      /\ seen' \in [Clients -> [Objects -> Nat]]
  BY <1>1 DEF TypeOK, Steps, NothingSeen
<1>4. UniqueInv => UniqueInv'
  BY <1>1, UniqueStep DEF Unprepared
<1>5. LockInv /\ (backoffs' = backoffs) /\ sw' = sw => LockInv'
  <2>1. \A d \in Clients \ {c} : /\ pc'[d] = pc[d] /\ request'[d] = request[d]
                                 /\ seen'[d] = seen[d]
    BY <1>1 DEF TypeOK
  <2>2. ~Committing(c)'
    BY <1>1 DEF TypeOK, Committing
  <2> QED
    BY <1>2, <2>1, <2>2, LockStep
<1>6. BoundInv /\ next' = next => BoundInv'
  <2>1. /\ Cardinality(Checked)' =
             Cardinality(Checked) + (IF "idle" = "checked" THEN 1 ELSE 0)
                                  - (IF pc[c] = "checked" THEN 1 ELSE 0)
        /\ Cardinality(Checked) \in Nat
    BY <1>1, CheckedCount, Zenon DEF TypeOK
  <2>2. Cardinality(Checked)' <= Cardinality(Checked)
    BY <2>1
  <2> QED
    BY <2>1, <2>2, BoundsAssumption DEF TypeOK, BoundInv
<1> QED
  BY <1>1, <1>2, <1>3, <1>4, <1>5, <1>6

LEMMA PrepareFailsInv ==
  ASSUME IInv, NEW c \in Clients, PrepareFails(c)
  PROVE  IInv' /\ FlightKept
<1>0. TypeOK /\ BackInv /\ ClientInv /\ UniqueInv /\ LockInv /\ BoundInv /\ LiveInv
  BY DEF IInv
<1>1. /\ pc[c] = "checked" /\ Return(c)
      /\ UNCHANGED <<live, of, next, pending, queue, programmed, sw, hw, backoffs>>
  BY DEF PrepareFails, memory, state
<1>2. /\ pc \in [Clients -> Steps] /\ commit \in [Clients -> Commits \union {None}]
  BY <1>0 DEF TypeOK
<1>3. /\ pc' = [pc EXCEPT ![c] = "idle"] /\ commit' = [commit EXCEPT ![c] = None]
      /\ request' = [request EXCEPT ![c] = NoRequest]
      /\ UniqueInv' /\ LockInv' /\ BoundInv'
  BY <1>0, <1>1, ReturnSteps
<1>4. TypeOK'
  <2>1. /\ pc' \in [Clients -> Steps]
        /\ commit' \in [Clients -> Commits \union {None}]
        /\ request' \in [Clients -> States \union {NoRequest}]
        /\ seen' \in [Clients -> [Objects -> Nat]]
        /\ lock' \in [Locks -> Clients \union {None}]
    BY <1>0, <1>1, ReturnSteps
  <2> QED
    BY <1>0, <1>1, <2>1, Zenon DEF TypeOK, pending
<1>6. ClientInv'
  BY <1>0, <1>1, <1>3, ClientStepInv DEF Unprepared
<1>8. LiveInv'
  <2>1. /\ "checked" \notin InUse /\ "idle" \notin InUse
        /\ pc[c] \notin InUse
    BY <1>1 DEF InUse, Unprepared
  <2>2. \A m : At(InUse, m)' <=> At(InUse, m)
    BY <1>1, <1>2, <1>3, <2>1, SameAt, Zenon
  <2> QED
    BY <1>0, <1>1, <2>2 DEF LiveInv, InQueue
<1>10. BackInv' /\ FlightKept
  <2>1. /\ UNCHANGED <<pending, queue, programmed, sw, hw>> /\ next' = next
        /\ \A m \in Commits : Res(m) => of'[m] = of[m]
        /\ pc[c] \in Early /\ "idle" \in Early /\ "idle" \in Unprepared
    BY <1>1 DEF Early, Unprepared
  <2> QED
    BY <1>0, <1>1, <1>3, <2>1, EarlyStep, Zenon
<1> QED
  BY <1>3, <1>4, <1>6, <1>8, <1>10 DEF IInv

(* No msm_commit in use is the next to allocate.                           *)
LEMMA UsedBelow ==
  ASSUME IInv, NEW m \in Commits, Res(m) \/ At(InUse, m)
  PROVE  m < next
<1>1. CASE InQueue(m)
  BY <1>1 DEF IInv, BackInv, WorkInv
<1>2. CASE \E c \in Clients : pc[c] \notin Unprepared /\ commit[c] = m
  BY <1>2 DEF IInv, ClientInv
<1> QED
  BY <1>1, <1>2 DEF Res, At, InUse, Unprepared

LEMMA PrepareInv ==
  ASSUME IInv, NEW c \in Clients, Prepare(c)
  PROVE  IInv' /\ FlightKept
<1>0. TypeOK /\ BackInv /\ ClientInv /\ UniqueInv /\ LockInv /\ BoundInv /\ LiveInv
  BY DEF IInv
<1>1. /\ pc[c] = "checked" /\ pc' = [pc EXCEPT ![c] = "lock"]
      /\ commit' = [commit EXCEPT ![c] = next]
      /\ next' = next + 1 /\ live' = live \union {next}
      /\ of' = [of EXCEPT ![next] = Masks(request[c])]
      /\ UNCHANGED <<lock, request, seen, pending, queue, programmed, sw, hw, backoffs>>
  BY DEF Prepare, Goto, Masks, state
<1>2. /\ pc \in [Clients -> Steps] /\ commit \in [Clients -> Commits \union {None}]
      /\ next \in Nat /\ next >= 1
  BY <1>0 DEF TypeOK
<1>3. /\ Cardinality(Checked)' =
           Cardinality(Checked) + (IF "lock" = "checked" THEN 1 ELSE 0)
                                - (IF pc[c] = "checked" THEN 1 ELSE 0)
      /\ Cardinality(Checked) \in Nat /\ Cardinality(Checked)' \in Nat
  BY <1>1, <1>2, CheckedCount, Zenon
<1>4. Cardinality(Checked)' = Cardinality(Checked) - 1
  BY <1>1, <1>3
<1>5. next \in Commits /\ next' \in 1 .. MaxCommits + 1 /\ BoundInv'
  BY <1>0, <1>1, <1>2, <1>3, <1>4, BoundsAssumption DEF BoundInv, Commits
<1>6. request[c] \in States /\ request' = [request EXCEPT ![c] = request[c]]
  BY <1>0, <1>1 DEF ClientInv, TypeOK
<1>7. Masks(request[c]) \in [crtcs : SUBSET Crtcs, planes : SUBSET Planes, nonblock : BOOLEAN]
  BY <1>6 DEF Masks, States
<1>8. \A m \in Commits : Res(m) \/ At(InUse, m) => m # next
  BY <1>2, UsedBelow DEF Commits
<1>9. /\ of' \in [Commits -> [crtcs : SUBSET Crtcs, planes : SUBSET Planes, nonblock : BOOLEAN]]
      /\ of'[next] = Masks(request[c])
      /\ \A m \in Commits : m # next => of'[m] = of[m]
  BY <1>0, <1>1, <1>5, <1>7 DEF TypeOK
<1>10. TypeOK'
  <2>1. pc' \in [Clients -> Steps] /\ commit' \in [Clients -> Commits \union {None}]
    BY <1>1, <1>2, <1>5 DEF Steps
  <2>2. live' \subseteq Commits
    BY <1>0, <1>1, <1>5 DEF TypeOK
  <2> QED
    BY <1>0, <1>1, <1>5, <1>9, <2>1, <2>2, Zenon DEF TypeOK, pending
<1>11. \A d \in Clients \ {c} : pc[d] \notin Unprepared
                                  => commit[d] \in Commits /\ commit[d] # next
  BY <1>0, <1>2 DEF ClientInv, Commits
<1>12. ClientInv'
  <2>1. next \in Commits /\ next < next' /\ of'[next] = Masks(request[c])
    BY <1>1, <1>2, <1>5, <1>9
  <2>2. \A d \in Clients \ {c} : pc[d] \notin Unprepared => of'[commit[d]] = of[commit[d]]
    BY <1>9, <1>11
  <2> QED
    BY <1>0, <1>1, <1>6, <2>1, <2>2, ClientStepInv
<1>13. UniqueInv'
  BY <1>0, <1>1, <1>11, UniqueStep
<1>14. LiveInv'
  <2>1. "lock" \in InUse /\ pc[c] \notin InUse
    BY <1>1 DEF InUse, Unprepared, Steps
  <2>2. \A m : At(InUse, m)' <=> At(InUse, m) \/ m = next
    BY <1>1, <1>2, <2>1, EntersAt, Zenon
  <2>3. \A m : InQueue(m)' <=> InQueue(m)
    BY <1>1 DEF InQueue
  <2> QED
    BY <1>0, <1>1, <2>2, <2>3 DEF LiveInv
<1>15. LockInv'
  <2>1. \A d \in Clients \ {c} : pc'[d] = pc[d]
    BY <1>2, <1>1
  <2>2. LockInv => (backoffs = 0 => \A o \in request[c].objects :
                                      lock[o] = c /\ seen[c][o] = sw[o])
    BY <1>1 DEF LockInv, Committing
  <2> QED
    BY <1>0, <1>1, <2>1, <2>2, LockStep
<1>16. BackInv' /\ FlightKept
  <2>1. /\ UNCHANGED <<pending, queue, programmed, sw, hw>> /\ next' = next + 1
        /\ pc[c] \in Early /\ "lock" \in Early
    BY <1>1 DEF Early
  <2>2. \A m \in Commits : Res(m) => of'[m] = of[m]
    BY <1>8, <1>9
  <2>3. \A m \in Commits : "lock" \notin Unprepared /\ next = m => ~InQueue(m)
    BY <1>8 DEF Res
  <2> QED
    BY <1>0, <1>1, <2>1, <2>2, <2>3, EarlyStep, Zenon
<1> QED
  BY <1>5, <1>10, <1>12, <1>13, <1>14, <1>15, <1>16 DEF IInv

(* connection_mutex, taken, interrupted or backed off from.                *)
LEMMA ConnectionInv ==
  ASSUME IInv, NEW c \in Clients, LockConnection(c) \/ LockInterrupted(c) \/ Backoff(c)
  PROVE  IInv' /\ FlightKept
<1>0. TypeOK /\ BackInv /\ ClientInv /\ UniqueInv /\ LockInv /\ BoundInv /\ LiveInv
  BY DEF IInv
<1>1. PICK s \in {"wait", "backoff"} : pc' = [pc EXCEPT ![c] = s]
  BY DEF LockConnection, LockInterrupted, Backoff, Goto
<1>2. /\ pc[c] \in {"lock", "backoff"}
      /\ UNCHANGED <<request, seen, commit, live, of, next, pending, queue, programmed,
                     sw, hw>>
  BY DEF LockConnection, LockInterrupted, Backoff, memory, state
<1>3. /\ pc \in [Clients -> Steps] /\ commit \in [Clients -> Commits \union {None}]
      /\ commit' = [commit EXCEPT ![c] = commit[c]]
      /\ request' = [request EXCEPT ![c] = request[c]]
  BY <1>0, <1>2 DEF TypeOK
<1>4. /\ lock' \in [Locks -> Clients \union {None}]
      /\ \A d \in Clients \ {c} : \A o \in Objects : lock[o] = d => lock'[o] = d
  BY <1>0, Lock, Unlock DEF LockConnection, LockInterrupted, Backoff
<1>5. backoffs' \in 0 .. MaxBackoffs
  BY <1>0, BoundsAssumption DEF LockConnection, LockInterrupted, Backoff, TypeOK
<1>6. TypeOK'
  <2>1. pc' \in [Clients -> Steps]
    BY <1>1, <1>3 DEF Steps
  <2> QED
    BY <1>0, <1>2, <1>4, <1>5, <2>1, Zenon DEF TypeOK, pending
<1>7. BoundInv'
  <2>1. /\ Cardinality(Checked)' =
             Cardinality(Checked) + (IF s = "checked" THEN 1 ELSE 0)
                                  - (IF pc[c] = "checked" THEN 1 ELSE 0)
        /\ Cardinality(Checked) \in Nat
    BY <1>1, <1>3, CheckedCount, Zenon
  <2>2. Cardinality(Checked)' = Cardinality(Checked)
    BY <1>1, <1>2, <2>1
  <2> QED
    BY <1>0, <1>2, <2>2 DEF BoundInv
<1>8. /\ pc[c] \notin Unprepared /\ s \notin Unprepared /\ s \notin {"idle", "sync", "flush"}
      /\ pc[c] # "idle" /\ pc[c] \in InUse /\ s \in InUse
      /\ pc[c] \in Early /\ s \in Early /\ pc[c] # "flush"
  BY <1>1, <1>2 DEF InUse, Unprepared, Steps, Early
<1>9. ClientInv'
  <2>1. request[c] \in States /\ commit[c] \in Commits /\ commit[c] < next
        /\ of[commit[c]] = Masks(request[c])
    BY <1>0, <1>8 DEF ClientInv
  <2>2. /\ next' = next /\ commit[c] < next' /\ of'[commit[c]] = Masks(request[c])
        /\ \A d \in Clients \ {c} : pc[d] \notin Unprepared
                                     => of'[commit[d]] = of[commit[d]]
        /\ s # "sync" /\ s # "flush"
    BY <1>2, <1>8, <2>1
  <2> QED
    BY <1>0, <1>1, <1>3, <2>1, <2>2, ClientStepInv, Zenon
<1>10. UniqueInv'
  <2>1. \A d \in Clients \ {c} : pc[d] \notin Unprepared => commit[d] # commit[c]
    BY <1>0, <1>8 DEF UniqueInv
  <2> QED
    BY <1>0, <1>1, <1>3, <2>1, UniqueStep
<1>11. LiveInv'
  <2>1. \A m : At(InUse, m)' <=> At(InUse, m)
    BY <1>1, <1>3, <1>8, SameAt, Zenon
  <2> QED
    BY <1>0, <1>2, <2>1 DEF LiveInv, InQueue
<1>12. LockInv'
  <2>1. \A d \in Clients \ {c} : /\ pc'[d] = pc[d] /\ request'[d] = request[d]
                                 /\ seen'[d] = seen[d]
    BY <1>1, <1>2, <1>3
  <2>2. CASE backoffs' # 0
    BY <2>2 DEF LockInv
  <2>3. CASE backoffs' = 0
    <3>1. backoffs = 0 /\ ~Backoff(c)
      BY <1>0, <2>3 DEF TypeOK, LockConnection, LockInterrupted, Backoff
    <3>2. \A o \in Objects : lock[o] = c => lock'[o] = c
      BY <1>0, <3>1, Lock DEF LockConnection, LockInterrupted
    <3>3. \A o \in request[c].objects : o \in Objects
      BY <1>0, <1>8 DEF ClientInv, States
    <3>4. \A o \in request[c].objects : lock[o] = c /\ seen[c][o] = sw[o]
      BY <1>0, <1>2, <3>1 DEF LockInv, Committing
    <3> QED
      BY <1>0, <1>2, <1>4, <2>1, <3>1, <3>2, <3>3, <3>4, LockStep
  <2> QED
    BY <2>2, <2>3
<1>13. BackInv' /\ FlightKept
  <2>1. /\ UNCHANGED <<pending, queue, programmed, sw, hw>> /\ next' = next
        /\ \A m \in Commits : Res(m) => of'[m] = of[m]
    BY <1>2
  <2>2. \A m \in Commits : s \notin Unprepared /\ commit[c] = m => ~InQueue(m)
    BY <1>0, <1>8 DEF BackInv, WorkInv
  <2> QED
    BY <1>0, <1>1, <1>3, <1>8, <2>1, <2>2, EarlyStep, Zenon
<1> QED
  BY <1>6, <1>7, <1>9, <1>10, <1>11, <1>12, <1>13 DEF IInv

-----------------------------------------------------------------------------
(* What a client in the commit knows of its own msm_commit.                *)
LEMMA Own ==
  ASSUME TypeOK, ClientInv, UniqueInv, WorkInv, NEW c \in Clients, pc[c] \notin Unprepared
  PROVE  /\ commit[c] \in Commits /\ commit[c] < next
         /\ request[c] \in States
         /\ of[commit[c]] = Masks(request[c])
         /\ ObjectsOf(commit[c]) = request[c].objects
         /\ request[c].objects \subseteq Objects /\ request[c].objects # {}
         /\ InQueue(commit[c]) => pc[c] = "flush"
         /\ \A d \in Clients \ {c} : pc[d] \notin Unprepared => commit[d] # commit[c]
         /\ \A S : S \cap Unprepared = {} /\ At(S, commit[c]) => pc[c] \in S
<1>1. /\ commit[c] \in Commits /\ commit[c] < next /\ of[commit[c]] = Masks(request[c])
      /\ request[c] \in States
  BY DEF ClientInv, Unprepared
<1>2. request[c].objects \subseteq Objects /\ request[c].objects # {}
  <2>1. request[c].objects \in (SUBSET Objects) \ {{}}
    BY <1>1 DEF States
  <2> QED
    BY <2>1
<1>3. ObjectsOf(commit[c]) = request[c].objects
  BY <1>1, <1>2 DEF ObjectsOf, Masks, Objects
<1>4. InQueue(commit[c]) => pc[c] = "flush"
  BY <1>1 DEF WorkInv
<1>5. \A d \in Clients : pc[d] \notin Unprepared /\ commit[d] = commit[c] => d = c
  BY DEF UniqueInv
<1>6. ASSUME NEW S, S \cap Unprepared = {}, At(S, commit[c]) PROVE pc[c] \in S
  BY <1>5, <1>6 DEF At
<1> QED
  BY <1>1, <1>2, <1>3, <1>4, <1>5, <1>6

LEMMA Uses ==
  /\ {"flush"} \cap Unprepared = {} /\ {"sync"} \cap Unprepared = {}
  /\ {"swap", "dispatch", "sync"} \cap Unprepared = {}
  /\ {"dispatch", "sync"} \cap Unprepared = {}
  /\ \A s \in Steps : s \in InUse <=> s \notin Unprepared
BY DEF Unprepared, InUse

(* A client frees its commit and returns: nobody else had it.              *)
LEMMA FreeStep ==
  ASSUME TypeOK, ClientInv, UniqueInv, WorkInv, LiveInv, BoundInv, LockInv,
         NEW c \in Clients, pc[c] \notin Unprepared,
         ~InQueue(commit[c]), Kfree(commit[c]), Return(c),
         UNCHANGED <<next, queue, sw, backoffs>>
  PROVE  /\ pc' = [pc EXCEPT ![c] = "idle"] /\ commit' = [commit EXCEPT ![c] = None]
         /\ \A m \in Commits : m # commit[c] => of'[m] = of[m]
         /\ ClientInv' /\ UniqueInv' /\ LiveInv' /\ BoundInv' /\ LockInv'
         /\ (/\ pending_crtcs' \subseteq Crtcs /\ pending_planes' \subseteq Planes
             /\ programmed' \subseteq Commits /\ hw' \in [Objects -> Nat]) => TypeOK'
<1>1. /\ commit[c] \in Commits
      /\ \A d \in Clients \ {c} : pc[d] \notin Unprepared => commit[d] # commit[c]
  BY Own
<1>2. /\ pc' = [pc EXCEPT ![c] = "idle"] /\ commit' = [commit EXCEPT ![c] = None]
      /\ request' = [request EXCEPT ![c] = NoRequest]
      /\ UniqueInv' /\ BoundInv' /\ LockInv'
  BY ReturnSteps
<1>3. live' = live \ {commit[c]} /\ of' = [of EXCEPT ![commit[c]] = NoFields]
  BY DEF Kfree
<1>4. /\ pc \in [Clients -> Steps] /\ commit \in [Clients -> Commits \union {None}]
      /\ of \in [Commits -> [crtcs : SUBSET Crtcs, planes : SUBSET Planes,
                             nonblock : BOOLEAN]]
  BY DEF TypeOK
<1>5. NoFields \in [crtcs : SUBSET Crtcs, planes : SUBSET Planes, nonblock : BOOLEAN]
  BY DEF NoFields
<1>6. /\ \A m \in Commits : m # commit[c] => of'[m] = of[m]
      /\ of' \in [Commits -> [crtcs : SUBSET Crtcs, planes : SUBSET Planes,
                              nonblock : BOOLEAN]]
  BY <1>3, <1>4, <1>5
<1>7. ClientInv'
  <2>1. \A d \in Clients \ {c} : pc[d] \notin Unprepared
                                   => of'[commit[d]] = of[commit[d]]
    BY <1>1, <1>6 DEF ClientInv
  <2> QED
    BY <1>2, <2>1, ClientStepInv DEF Unprepared
<1>8. LiveInv'
  <2>1. "idle" \notin InUse /\ pc[c] \in InUse
        /\ \A d \in Clients \ {c} : pc[d] \in InUse => commit[d] # commit[c]
    BY <1>1, <1>4, Uses DEF Unprepared, InUse
  <2>2. \A m : At(InUse, m)' <=> At(InUse, m) /\ m # commit[c]
    BY <1>2, <1>4, <2>1, LeavesAt, Zenon
  <2>3. \A m : InQueue(m)' <=> InQueue(m)
    BY DEF InQueue
  <2> QED
    BY <1>3, <2>2, <2>3 DEF LiveInv
<1>9. ASSUME /\ pending_crtcs' \subseteq Crtcs /\ pending_planes' \subseteq Planes
             /\ programmed' \subseteq Commits /\ hw' \in [Objects -> Nat]
      PROVE  TypeOK'
  <2>1. /\ pc' \in [Clients -> Steps]
        /\ commit' \in [Clients -> Commits \union {None}]
        /\ request' \in [Clients -> States \union {NoRequest}]
        /\ seen' \in [Clients -> [Objects -> Nat]]
        /\ lock' \in [Locks -> Clients \union {None}]
    BY ReturnSteps
  <2>2. live' \subseteq Commits
    BY <1>3 DEF TypeOK
  <2> QED
    BY <1>6, <1>9, <2>1, <2>2, Zenon DEF TypeOK
<1> QED
  BY <1>2, <1>6, <1>7, <1>8, <1>9

LEMMA WaitInterruptedInv ==
  ASSUME IInv, NEW c \in Clients, WaitInterrupted(c)
  PROVE  IInv' /\ FlightKept
<1>0. /\ TypeOK /\ BackInv /\ ClientInv /\ UniqueInv /\ LockInv /\ BoundInv /\ LiveInv
      /\ WorkInv
  BY DEF IInv, BackInv
<1>1. /\ pc[c] = "wait" /\ Kfree(commit[c]) /\ Return(c)
      /\ UNCHANGED <<next, pending, queue, programmed, sw, hw, backoffs>>
  BY DEF WaitInterrupted, state
<1>2. pc[c] \notin Unprepared /\ pc[c] # "flush"
  BY <1>1 DEF Unprepared
<1>3. /\ commit[c] \in Commits /\ ~InQueue(commit[c])
      /\ \A S : S \cap Unprepared = {} /\ At(S, commit[c]) => pc[c] \in S
  BY <1>0, <1>2, Own
<1>4. /\ pending_crtcs' \subseteq Crtcs /\ pending_planes' \subseteq Planes
      /\ programmed' \subseteq Commits /\ hw' \in [Objects -> Nat]
  BY <1>0, <1>1 DEF TypeOK, pending
<1>5. /\ pc' = [pc EXCEPT ![c] = "idle"] /\ commit' = [commit EXCEPT ![c] = None]
      /\ \A m \in Commits : m # commit[c] => of'[m] = of[m]
      /\ ClientInv' /\ UniqueInv' /\ LiveInv' /\ BoundInv' /\ LockInv' /\ TypeOK'
  BY <1>0, <1>1, <1>2, <1>3, <1>4, FreeStep
<1>6. ~Res(commit[c])
  BY <1>1, <1>3, Uses DEF Res
<1>7. BackInv' /\ FlightKept
  <2>1. /\ UNCHANGED <<pending, queue, programmed, sw, hw>> /\ next' = next
        /\ \A m \in Commits : Res(m) => of'[m] = of[m]
        /\ pc[c] \in Early /\ "idle" \in Early /\ "idle" \in Unprepared
    BY <1>1, <1>5, <1>6 DEF Early, Unprepared
  <2> QED
    BY <1>0, <1>5, <2>1, EarlyStep, Zenon
<1> QED
  BY <1>5, <1>7 DEF IInv

-----------------------------------------------------------------------------
(* The step of a client from one step of the commit to the next.           *)
LEMMA Advance ==
  ASSUME TypeOK, BoundInv, ClientInv, UniqueInv, LiveInv, WorkInv, NEW c \in Clients,
         NEW s \in InUse \ {"sync"},
         pc[c] \in InUse, pc' = [pc EXCEPT ![c] = s],
         s = "flush" => of[commit[c]].nonblock = FALSE,
         UNCHANGED <<request, commit, memory>>,
         \A m \in Commits : InQueue(m)' <=> InQueue(m) \/ (s = "flush" /\ m = commit[c])
  PROVE  /\ BoundInv' /\ ClientInv' /\ UniqueInv' /\ LiveInv'
         /\ pc' \in [Clients -> Steps]
         /\ commit' = [commit EXCEPT ![c] = commit[c]]
<1>1. /\ pc \in [Clients -> Steps] /\ commit \in [Clients -> Commits \union {None}]
      /\ commit' = [commit EXCEPT ![c] = commit[c]]
      /\ request' = [request EXCEPT ![c] = request[c]]
      /\ live' = live /\ of' = of /\ next' = next
  BY DEF TypeOK, memory
<1>2. /\ s \notin Unprepared /\ s \in Steps /\ s # "idle" /\ s # "sync"
      /\ pc[c] \notin Unprepared /\ s # "checked" /\ pc[c] # "checked"
  BY DEF InUse, Unprepared
<1>3. /\ commit[c] \in Commits /\ commit[c] < next
      /\ request[c] \in States
      /\ of[commit[c]] = Masks(request[c])
      /\ \A d \in Clients \ {c} : pc[d] \notin Unprepared => commit[d] # commit[c]
  BY <1>2, Own
<1>4. BoundInv'
  <2>1. /\ Cardinality(Checked)' =
             Cardinality(Checked) + (IF s = "checked" THEN 1 ELSE 0)
                                  - (IF pc[c] = "checked" THEN 1 ELSE 0)
        /\ Cardinality(Checked) \in Nat
    BY <1>1, CheckedCount, Zenon
  <2>2. Cardinality(Checked)' = Cardinality(Checked)
    BY <1>2, <2>1
  <2> QED
    BY <1>1, <2>2 DEF BoundInv
<1>5. ClientInv'
  <2> SUFFICES ASSUME NEW d \in Clients
               PROVE  /\ pc'[d] # "idle" => request[d] \in States
                      /\ pc'[d] \notin Unprepared =>
                           /\ commit[d] \in Commits /\ commit[d] < next
                           /\ of[commit[d]] = Masks(request[d])
                      /\ pc'[d] = "sync" => of[commit[d]].crtcs = {}
                      /\ pc'[d] = "flush" => of[commit[d]].nonblock = FALSE
    BY <1>1 DEF ClientInv, Masks
  <2>1. CASE d = c
    BY <1>1, <1>2, <1>3, <2>1
  <2>2. CASE d # c
    <3>1. pc'[d] = pc[d]
      BY <1>1, <2>2
    <3> QED
      BY <3>1 DEF ClientInv
  <2> QED
    BY <2>1, <2>2
<1>6. UniqueInv'
  BY <1>1, <1>3, UniqueStep
<1>7. LiveInv'
  <2>1. \A m : At(InUse, m)' <=> At(InUse, m)
    BY <1>1, SameAt, Zenon
  <2>2. At(InUse, commit[c])
    BY DEF At
  <2> QED
    BY <1>1, <2>1, <2>2 DEF LiveInv
<1> QED
  BY <1>1, <1>2, <1>4, <1>5, <1>6, <1>7

(* What commits on the way share with nobody.                              *)
LEMMA PendKept ==
  ASSUME PendInv, \A m \in Commits : Res(m)' <=> Res(m),
         \A m \in Commits : Res(m) => of'[m] = of[m],
         UNCHANGED pending
  PROVE  PendInv'
<1>1. \A m \in Commits : Res(m) => of'[m] = of[m] /\ ObjectsOf(m)' = ObjectsOf(m)
  BY DEF ObjectsOf
<1> QED
  BY <1>1 DEF PendInv, pending

LEMMA LagKept ==
  ASSUME LagInv, \A m \in Commits : Flight(m)' <=> Flight(m),
         \A m \in Commits : Flight(m) => of'[m] = of[m],
         sw' = sw, hw' = hw
  PROVE  LagInv' /\ FlightKept
<1>1. \A o : Flying(o)' <=> Flying(o)
  <2>1. \A m \in Commits : Flight(m) => ObjectsOf(m)' = ObjectsOf(m)
    BY DEF ObjectsOf
  <2> QED
    BY <2>1 DEF Flying
<1> QED
  BY <1>1 DEF LagInv, FlightKept

LEMMA FlightRes == ASSUME NEW m, Flight(m) PROVE Res(m)
BY DEF Flight, Res, At

(* The wait is over: nobody reserved shares an object with the commit.     *)
LEMMA ReserveInv ==
  ASSUME IInv, NEW c \in Clients, Reserve(c)
  PROVE  IInv' /\ FlightKept
<1> DEFINE k == commit[c]
<1>0. /\ TypeOK /\ BackInv /\ ClientInv /\ UniqueInv /\ LockInv /\ BoundInv /\ LiveInv
      /\ QueueInv /\ WorkInv /\ PendInv /\ ProgInv /\ LagInv
  BY DEF IInv, BackInv
<1>1. /\ pc[c] = "wait" /\ pc' = [pc EXCEPT ![c] = "swap"]
      /\ UNCHANGED <<lock, request, seen, commit, memory, queue, programmed, sw, hw, backoffs>>
      /\ pending_crtcs' = pending_crtcs \union of[k].crtcs
      /\ pending_planes' = pending_planes \union of[k].planes
      /\ MayReserve(k)
  BY DEF Reserve, Goto, state
<1>2. /\ pc[c] \in InUse /\ "swap" \in InUse \ {"sync"} /\ pc[c] \notin Unprepared
      /\ pc[c] # "flush" /\ "swap" # "flush"
  BY <1>1 DEF InUse, Unprepared, Steps
<1>3. /\ k \in Commits /\ ~InQueue(k)
      /\ \A d \in Clients \ {c} : pc[d] \notin Unprepared => commit[d] # k
  BY <1>0, <1>2, Own
<1>4. /\ pc \in [Clients -> Steps] /\ commit \in [Clients -> Commits \union {None}]
      /\ of \in [Commits -> [crtcs : SUBSET Crtcs, planes : SUBSET Planes,
                             nonblock : BOOLEAN]]
      /\ pending_crtcs \subseteq Crtcs /\ pending_planes \subseteq Planes
  BY <1>0 DEF TypeOK
<1>5. \A m : InQueue(m)' <=> InQueue(m)
  BY <1>1 DEF InQueue
<1>6. /\ BoundInv' /\ ClientInv' /\ UniqueInv' /\ LiveInv' /\ pc' \in [Clients -> Steps]
      /\ commit' = [commit EXCEPT ![c] = k]
  <2>1. \A m \in Commits : InQueue(m)' <=> InQueue(m) \/ ("swap" = "flush" /\ m = k)
    BY <1>2, <1>5
  <2>2. UNCHANGED <<request, commit, memory>>
    BY <1>1
  <2> QED
    BY <1>0, <1>1, <1>2, <2>1, <2>2, Advance, Zenon
<1>7. of' = of /\ next' = next /\ live' = live
  BY <1>1 DEF memory
<1>8. TypeOK'
  <2>1. pending_crtcs' \subseteq Crtcs /\ pending_planes' \subseteq Planes
    BY <1>1, <1>3, <1>4
  <2> QED
    BY <1>0, <1>1, <1>6, <1>7, <2>1, Zenon DEF TypeOK
<1>9. LockInv'
  BY <1>0, <1>1 DEF LockInv, Committing, TypeOK
<1>10. /\ \A m : At({"swap", "dispatch", "sync"}, m)'
                   <=> At({"swap", "dispatch", "sync"}, m) \/ m = k
       /\ \A m : At({"dispatch", "sync"}, m)' <=> At({"dispatch", "sync"}, m)
       /\ \A m : At({"sync"}, m)' <=> At({"sync"}, m)
       /\ \A m : At({"flush"}, m)' <=> At({"flush"}, m)
  <2>1. /\ "swap" \in {"swap", "dispatch", "sync"} /\ pc[c] \notin {"swap", "dispatch", "sync"}
        /\ "swap" \notin {"dispatch", "sync"} /\ pc[c] \notin {"dispatch", "sync"}
        /\ "swap" \notin {"sync"} /\ pc[c] \notin {"sync"}
        /\ "swap" \notin {"flush"} /\ pc[c] \notin {"flush"}
    BY <1>1
  <2>2. \A S : "swap" \notin S /\ pc[c] \notin S => \A m : At(S, m)' <=> At(S, m)
    BY <1>1, <1>4, <1>6, SameAt, Zenon
  <2>3. \A S : "swap" \in S /\ pc[c] \notin S => \A m : At(S, m)' <=> At(S, m) \/ m = k
    BY <1>1, <1>4, <1>6, EntersAt, Zenon
  <2> QED
    BY <2>1, <2>2, <2>3
<1>11. \A m : Res(m)' <=> Res(m) \/ m = k
  BY <1>5, <1>10 DEF Res
<1>12. \A m : Flight(m)' <=> Flight(m)
  BY <1>1, <1>5, <1>10 DEF Flight
<1>13. \A n \in Commits : Res(n) => ObjectsOf(n) \cap ObjectsOf(k) = {}
  <2> SUFFICES ASSUME NEW n \in Commits, Res(n) PROVE ObjectsOf(n) \cap ObjectsOf(k) = {}
    OBVIOUS
  <2>1. /\ of[n].crtcs \subseteq Crtcs /\ of[n].planes \subseteq Planes
        /\ of[k].crtcs \subseteq Crtcs /\ of[k].planes \subseteq Planes
    BY <1>3, <1>4
  <2>2. of[n].crtcs \subseteq pending_crtcs /\ of[n].planes \subseteq pending_planes
    BY <1>0, <2>1 DEF PendInv
  <2>3. pending_crtcs \cap of[k].crtcs = {} /\ pending_planes \cap of[k].planes = {}
    BY <1>1 DEF MayReserve
  <2> QED
    BY <2>1, <2>2, <2>3, ObjectsAssumption DEF ObjectsOf
<1>14. PendInv'
  <2>1. \A m \in Commits : ObjectsOf(m)' = ObjectsOf(m)
    BY <1>7 DEF ObjectsOf
  <2>2. \A q \in Crtcs : q \in pending_crtcs' <=>
                           \E m \in Commits : Res(m)' /\ q \in of'[m].crtcs
    BY <1>0, <1>1, <1>3, <1>7, <1>11 DEF PendInv
  <2>3. \A p \in Planes : p \in pending_planes' <=>
                            \E m \in Commits : Res(m)' /\ p \in of'[m].planes
    BY <1>0, <1>1, <1>3, <1>7, <1>11 DEF PendInv
  <2>4. \A m, n \in Commits : Res(m)' /\ Res(n)' /\ m # n
                                => ObjectsOf(m)' \cap ObjectsOf(n)' = {}
    BY <1>0, <1>11, <1>13, <2>1 DEF PendInv
  <2> QED
    BY <2>2, <2>3, <2>4 DEF PendInv
<1>15. QueueInv' /\ ProgInv' /\ LagInv' /\ FlightKept
  <2>1. QueueInv'
    BY <1>0, <1>1 DEF QueueInv
  <2>2. ProgInv'
    BY <1>0, <1>1, <1>5, <1>10 DEF ProgInv
  <2>3. sw' = sw /\ hw' = hw /\ \A m \in Commits : Flight(m) => of'[m] = of[m]
    BY <1>1, <1>7
  <2> QED
    BY <1>0, <1>12, <2>1, <2>2, <2>3, LagKept
<1>16. WorkInv'
  <2>1. \A m \in Commits : ObjectsOf(m)' = ObjectsOf(m)
    BY <1>7 DEF ObjectsOf
  <2> QED
    BY <1>0, <1>1, <1>3, <1>4, <1>5, <1>7, <1>10, <2>1 DEF WorkInv
<1> QED
  BY <1>6, <1>8, <1>9, <1>14, <1>15, <1>16 DEF IInv, BackInv

-----------------------------------------------------------------------------
(* The swap puts the commit in flight: its objects were not behind.        *)
LEMMA SwapInv ==
  ASSUME IInv, NEW c \in Clients, Swap(c)
  PROVE  IInv' /\ Launches(commit[c], request[c].objects)
<1> DEFINE k == commit[c]
<1>0. /\ TypeOK /\ BackInv /\ ClientInv /\ UniqueInv /\ LockInv /\ BoundInv /\ LiveInv
      /\ QueueInv /\ WorkInv /\ PendInv /\ ProgInv /\ LagInv
  BY DEF IInv, BackInv
<1>1. /\ pc[c] = "swap" /\ pc' = [pc EXCEPT ![c] = "dispatch"]
      /\ UNCHANGED <<lock, request, seen, commit, memory, pending, queue, programmed, hw,
                     backoffs>>
      /\ sw' = [o \in Objects |-> IF o \in request[c].objects THEN sw[o] + 1 ELSE sw[o]]
  BY DEF Swap, Goto
<1>2. /\ pc[c] \in InUse /\ "dispatch" \in InUse \ {"sync"} /\ pc[c] \notin Unprepared
      /\ pc[c] # "flush" /\ "dispatch" # "flush"
  BY <1>1 DEF InUse, Unprepared, Steps
<1>3. /\ k \in Commits /\ ~InQueue(k) /\ ObjectsOf(k) = request[c].objects
      /\ \A d \in Clients \ {c} : pc[d] \notin Unprepared => commit[d] # k
      /\ \A S : S \cap Unprepared = {} /\ At(S, k) => pc[c] \in S
  BY <1>0, <1>2, Own
<1>4. /\ pc \in [Clients -> Steps] /\ commit \in [Clients -> Commits \union {None}]
      /\ sw \in [Objects -> Nat]
  BY <1>0 DEF TypeOK
<1>5. \A m : InQueue(m)' <=> InQueue(m)
  BY <1>1 DEF InQueue
<1>6. /\ BoundInv' /\ ClientInv' /\ UniqueInv' /\ LiveInv' /\ pc' \in [Clients -> Steps]
      /\ commit' = [commit EXCEPT ![c] = k]
  <2>1. \A m \in Commits : InQueue(m)' <=> InQueue(m) \/ ("dispatch" = "flush" /\ m = k)
    BY <1>2, <1>5
  <2>2. UNCHANGED <<request, commit, memory>>
    BY <1>1
  <2> QED
    BY <1>0, <1>1, <1>2, <2>1, <2>2, Advance, Zenon
<1>7. of' = of /\ next' = next /\ live' = live
  BY <1>1 DEF memory
<1>8. TypeOK'
  <2>1. sw' \in [Objects -> Nat]
    BY <1>1, <1>4
  <2> QED
    BY <1>0, <1>1, <1>6, <1>7, <2>1, Zenon DEF TypeOK, pending
<1>9. /\ \A m : At({"swap", "dispatch", "sync"}, m)'
                  <=> At({"swap", "dispatch", "sync"}, m)
      /\ \A m : At({"dispatch", "sync"}, m)' <=> At({"dispatch", "sync"}, m) \/ m = k
      /\ \A m : At({"sync"}, m)' <=> At({"sync"}, m)
      /\ \A m : At({"flush"}, m)' <=> At({"flush"}, m)
  <2>1. /\ "dispatch" \in {"swap", "dispatch", "sync"} /\ pc[c] \in {"swap", "dispatch", "sync"}
        /\ "dispatch" \in {"dispatch", "sync"} /\ pc[c] \notin {"dispatch", "sync"}
        /\ "dispatch" \notin {"sync"} /\ pc[c] \notin {"sync"}
        /\ "dispatch" \notin {"flush"} /\ pc[c] \notin {"flush"}
    BY <1>1
  <2>2. \A S : ("dispatch" \notin S /\ pc[c] \notin S) \/ ("dispatch" \in S /\ pc[c] \in S)
          => \A m : At(S, m)' <=> At(S, m)
    BY <1>1, <1>4, <1>6, SameAt, Zenon
  <2>3. \A S : "dispatch" \in S /\ pc[c] \notin S => \A m : At(S, m)' <=> At(S, m) \/ m = k
    BY <1>1, <1>4, <1>6, EntersAt, Zenon
  <2> QED
    BY <2>1, <2>2, <2>3
<1>10. k \notin programmed
  <2>1. ~At({"sync"}, k)
    BY <1>1, <1>3, Uses
  <2> QED
    BY <1>0, <1>3, <2>1 DEF ProgInv
<1>11. /\ \A m : Res(m)' <=> Res(m)
       /\ \A m : Flight(m)' <=> Flight(m) \/ m = k
       /\ ~Flight(k) /\ Res(k)
  <2>1. ~At({"dispatch", "sync"}, k)
    BY <1>1, <1>3, Uses
  <2>2. At({"swap", "dispatch", "sync"}, k)
    BY <1>1 DEF At
  <2> QED
    BY <1>1, <1>3, <1>5, <1>9, <1>10, <2>1, <2>2 DEF Res, Flight
<1>12. LockInv'
  <2>1. \A d \in Clients \ {c} : /\ pc'[d] = pc[d] /\ request'[d] = request[d]
                                 /\ seen'[d] = seen[d]
    BY <1>1, <1>4
  <2>2. ~Committing(c)'
    BY <1>1, <1>4 DEF Committing
  <2>3. ASSUME backoffs = 0, NEW d \in Clients \ {c}, NEW o \in Objects, lock[o] = d
        PROVE  lock'[o] = d /\ sw'[o] = sw[o]
    <3>1. \A p \in request[c].objects : lock[p] = c
      BY <1>0, <1>1, <2>3 DEF LockInv, Committing
    <3> QED
      BY <1>1, <1>4, <2>3, <3>1
  <2> QED
    BY <1>0, <1>1, <2>1, <2>2, <2>3, LockStep
<1>13. \A m \in Commits : ObjectsOf(m)' = ObjectsOf(m)
  BY <1>7 DEF ObjectsOf
<1>14. LagInv'
  <2> SUFFICES ASSUME NEW o \in Objects
               PROVE  sw'[o] = hw[o] + (IF Flying(o)' THEN 1 ELSE 0)
    BY <1>1 DEF LagInv
  <2>1. sw[o] = hw[o] + (IF Flying(o) THEN 1 ELSE 0) /\ hw[o] \in Nat
    BY <1>0 DEF LagInv, TypeOK
  <2>2. Flying(o)' <=> Flying(o) \/ o \in ObjectsOf(k)
    BY <1>3, <1>11, <1>13 DEF Flying
  <2>3. ~(Flying(o) /\ o \in ObjectsOf(k))
    <3> SUFFICES ASSUME NEW m \in Commits, Flight(m), o \in ObjectsOf(m), o \in ObjectsOf(k)
                 PROVE  FALSE
      BY DEF Flying
    <3>1. m # k /\ Res(m)
      BY <1>11, FlightRes
    <3>2. ObjectsOf(m) \cap ObjectsOf(k) = {}
      BY <1>0, <1>3, <1>11, <3>1 DEF PendInv
    <3> QED
      BY <3>2
  <2>4. sw'[o] = IF o \in ObjectsOf(k) THEN sw[o] + 1 ELSE sw[o]
    BY <1>1, <1>3
  <2> QED
    BY <2>1, <2>2, <2>3, <2>4
<1>15. QueueInv' /\ ProgInv' /\ PendInv'
  <2>1. QueueInv'
    BY <1>0, <1>1 DEF QueueInv
  <2>2. ProgInv'
    BY <1>0, <1>1, <1>5, <1>9 DEF ProgInv
  <2>3. UNCHANGED pending /\ \A m \in Commits : Res(m) => of'[m] = of[m]
    BY <1>1, <1>7
  <2> QED
    BY <1>0, <1>11, <2>1, <2>2, <2>3, PendKept
<1>16. WorkInv'
  BY <1>0, <1>1, <1>3, <1>4, <1>5, <1>7, <1>9, <1>13 DEF WorkInv
<1>17. Launches(k, request[c].objects)
  BY <1>1, <1>3, <1>7, <1>11 DEF Launches
<1> QED
  BY <1>6, <1>8, <1>12, <1>14, <1>15, <1>16, <1>17 DEF IInv, BackInv

-----------------------------------------------------------------------------
(* The first CRTC of a state.                                              *)
LEMMA FirstCrtc ==
  ASSUME NEW S, S \subseteq Crtcs, S # {}
  PROVE  First(S) \in S
<1>1. S \subseteq Nat
  BY ObjectsAssumption
<1>2. PICK i \in S : \A j \in S : <<j, i>> \notin OpToRel(<, Nat)
  BY <1>1, WFMin, NatLessThanWellFounded, Zenon
<1>3. ASSUME NEW j \in S PROVE ~(j < i)
  <2>1. j \in Nat /\ i \in Nat /\ <<j, i>> \in Nat \X Nat
    BY <1>1
  <2>2. <<j, i>>[1] = j /\ <<j, i>>[2] = i
    OBVIOUS
  <2> QED
    BY <1>2, <1>3, <2>1, <2>2 DEF OpToRel
<1>4. \A j \in S : i <= j
  BY <1>1, <1>3
<1> QED
  BY <1>4 DEF First

LEMMA QueueAppend ==
  ASSUME TypeOK, QueueInv, NEW t \in Crtcs, NEW k \in Commits, ~InQueue(k),
         queue' = [queue EXCEPT ![t] = Append(@, k)]
  PROVE  /\ queue' \in [Crtcs -> Seq(Commits)] /\ QueueInv'
         /\ \A m : InQueue(m)' <=> InQueue(m) \/ m = k
<1>1. queue \in [Crtcs -> Seq(Commits)] /\ queue[t] \in Seq(Commits)
  BY DEF TypeOK
<1>2. \A u \in Crtcs : k \notin ToSet(queue[u])
  BY DEF InQueue
<1>3. /\ Append(queue[t], k) \in Seq(Commits) /\ Distinct(Append(queue[t], k))
      /\ ToSet(Append(queue[t], k)) = ToSet(queue[t]) \union {k}
  BY <1>1, <1>2, AppendSet DEF QueueInv
<1>4. /\ queue' \in [Crtcs -> Seq(Commits)]
      /\ queue'[t] = Append(queue[t], k)
      /\ \A u \in Crtcs \ {t} : queue'[u] = queue[u]
  BY <1>1, <1>3
<1>5. \A u \in Crtcs : \A m :
         m \in ToSet(queue'[u]) <=> m \in ToSet(queue[u]) \/ (u = t /\ m = k)
  <2> SUFFICES ASSUME NEW u \in Crtcs, NEW m
               PROVE  m \in ToSet(queue'[u]) <=> m \in ToSet(queue[u]) \/ (u = t /\ m = k)
    OBVIOUS
  <2>1. CASE u = t
    BY <1>3, <1>4, <2>1
  <2>2. CASE u # t
    BY <1>4, <2>2
  <2> QED
    BY <2>1, <2>2
<1>6. \A u \in Crtcs : Distinct(queue'[u])
  BY <1>3, <1>4 DEF QueueInv
<1>7. \A u, v \in Crtcs : \A m \in Commits :
        m \in ToSet(queue'[u]) /\ m \in ToSet(queue'[v]) => u = v
  BY <1>2, <1>5 DEF QueueInv
<1>8. \A m : InQueue(m)' <=> InQueue(m) \/ m = k
  BY <1>5, Zenon DEF InQueue
<1>9. QueueInv'
  BY <1>6, <1>7 DEF QueueInv, Distinct
<1> QED
  BY <1>4, <1>8, <1>9

LEMMA QueueTail ==
  ASSUME TypeOK, QueueInv, NEW t \in Crtcs, queue[t] # <<>>,
         queue' = [queue EXCEPT ![t] = Tail(@)]
  PROVE  /\ queue' \in [Crtcs -> Seq(Commits)] /\ QueueInv'
         /\ Head(queue[t]) \in Commits /\ InQueue(Head(queue[t]))
         /\ \A m \in Commits : InQueue(m)' <=> InQueue(m) /\ m # Head(queue[t])
<1> DEFINE k == Head(queue[t])
<1>1. queue \in [Crtcs -> Seq(Commits)] /\ queue[t] \in Seq(Commits)
  BY DEF TypeOK
<1>2. /\ Tail(queue[t]) \in Seq(Commits) /\ Distinct(Tail(queue[t]))
      /\ ToSet(Tail(queue[t])) = ToSet(queue[t]) \ {k}
      /\ k \in ToSet(queue[t]) /\ k \in Commits
  BY <1>1, TailSet DEF QueueInv
<1>3. /\ queue' \in [Crtcs -> Seq(Commits)]
      /\ queue'[t] = Tail(queue[t])
      /\ \A u \in Crtcs \ {t} : queue'[u] = queue[u]
  BY <1>1, <1>2
<1>4. \A u \in Crtcs \ {t} : k \notin ToSet(queue[u])
  BY <1>2 DEF QueueInv
<1>5. \A u \in Crtcs : ToSet(queue'[u]) = ToSet(queue[u]) \ {k}
  BY <1>2, <1>3, <1>4
<1>6. \A u \in Crtcs : Distinct(queue'[u])
  BY <1>2, <1>3 DEF QueueInv
<1>7. \A u, v \in Crtcs : \A m \in Commits :
        m \in ToSet(queue'[u]) /\ m \in ToSet(queue'[v]) => u = v
  BY <1>5 DEF QueueInv
<1>8. \A m \in Commits : InQueue(m)' <=> InQueue(m) /\ m # k
  BY <1>5 DEF InQueue
<1>9. QueueInv'
  BY <1>6, <1>7 DEF QueueInv, Distinct
<1>10. InQueue(k)
  BY <1>2 DEF InQueue
<1> QED
  BY <1>2, <1>3, <1>8, <1>9, <1>10

(* A state without a CRTC is completed by the caller.                      *)
LEMMA DispatchSync ==
  ASSUME IInv, NEW c \in Clients, Dispatch(c), of[commit[c]].crtcs = {}
  PROVE  IInv' /\ FlightKept
<1> DEFINE k == commit[c]
<1>0. /\ TypeOK /\ BackInv /\ ClientInv /\ UniqueInv /\ LockInv /\ BoundInv /\ LiveInv
      /\ QueueInv /\ WorkInv /\ PendInv /\ ProgInv /\ LagInv
  BY DEF IInv, BackInv
<1>1. /\ pc[c] = "dispatch" /\ pc' = [pc EXCEPT ![c] = "sync"]
      /\ UNCHANGED <<lock, request, seen, commit, queue, live, of, next, pending,
                     programmed, sw, hw, backoffs>>
  BY DEF Dispatch, Goto, memory, state
<1>2. /\ pc[c] \in InUse /\ "sync" \in InUse /\ pc[c] \notin Unprepared /\ pc[c] # "flush"
  BY <1>1 DEF InUse, Unprepared, Steps
<1>3. /\ k \in Commits /\ ~InQueue(k)
      /\ k < next /\ request[c] \in States /\ of[k] = Masks(request[c])
      /\ \A d \in Clients \ {c} : pc[d] \notin Unprepared => commit[d] # k
  BY <1>0, <1>2, Own
<1>4. /\ pc \in [Clients -> Steps] /\ commit \in [Clients -> Commits \union {None}]
      /\ commit' = [commit EXCEPT ![c] = k]
      /\ request' = [request EXCEPT ![c] = request[c]]
  BY <1>0, <1>1 DEF TypeOK
<1>5. \A m : InQueue(m)' <=> InQueue(m)
  BY <1>1 DEF InQueue
<1>6. TypeOK'
  <2>1. pc' \in [Clients -> Steps]
    BY <1>1, <1>4 DEF Steps
  <2> QED
    BY <1>0, <1>1, <2>1, Zenon DEF TypeOK, pending
<1>7. BoundInv'
  <2>1. /\ Cardinality(Checked)' =
             Cardinality(Checked) + (IF "sync" = "checked" THEN 1 ELSE 0)
                                  - (IF pc[c] = "checked" THEN 1 ELSE 0)
        /\ Cardinality(Checked) \in Nat
    BY <1>1, <1>4, CheckedCount, Zenon
  <2>2. Cardinality(Checked)' = Cardinality(Checked)
    BY <1>1, <2>1
  <2> QED
    BY <1>0, <1>1, <2>2 DEF BoundInv
<1>8. ClientInv'
  <2> SUFFICES ASSUME NEW d \in Clients
               PROVE  /\ pc'[d] # "idle" => request[d] \in States
                      /\ pc'[d] \notin Unprepared =>
                           /\ commit[d] \in Commits /\ commit[d] < next
                           /\ of[commit[d]] = Masks(request[d])
                      /\ pc'[d] = "sync" => of[commit[d]].crtcs = {}
                      /\ pc'[d] = "flush" => of[commit[d]].nonblock = FALSE
    BY <1>1 DEF ClientInv, Masks
  <2>1. CASE d = c
    BY <1>1, <1>3, <1>4, <2>1
  <2>2. CASE d # c
    <3>1. pc'[d] = pc[d]
      BY <1>1, <1>4, <2>2
    <3> QED
      BY <1>0, <3>1 DEF ClientInv
  <2> QED
    BY <2>1, <2>2
<1>9. UniqueInv'
  BY <1>0, <1>1, <1>3, <1>4, UniqueStep
<1>10. /\ \A m : At({"swap", "dispatch", "sync"}, m)'
                   <=> At({"swap", "dispatch", "sync"}, m)
       /\ \A m : At({"dispatch", "sync"}, m)' <=> At({"dispatch", "sync"}, m)
       /\ \A m : At({"sync"}, m)' <=> At({"sync"}, m) \/ m = k
       /\ \A m : At({"flush"}, m)' <=> At({"flush"}, m)
       /\ \A m : At(InUse, m)' <=> At(InUse, m)
  <2>1. /\ "sync" \in {"swap", "dispatch", "sync"} /\ pc[c] \in {"swap", "dispatch", "sync"}
        /\ "sync" \in {"dispatch", "sync"} /\ pc[c] \in {"dispatch", "sync"}
        /\ "sync" \in {"sync"} /\ pc[c] \notin {"sync"}
        /\ "sync" \notin {"flush"} /\ pc[c] \notin {"flush"}
    BY <1>1
  <2>2. \A S : ("sync" \notin S /\ pc[c] \notin S) \/ ("sync" \in S /\ pc[c] \in S)
          => \A m : At(S, m)' <=> At(S, m)
    BY <1>1, <1>4, SameAt, Zenon
  <2>3. \A S : "sync" \in S /\ pc[c] \notin S => \A m : At(S, m)' <=> At(S, m) \/ m = k
    BY <1>1, <1>4, EntersAt, Zenon
  <2> QED
    BY <1>2, <2>1, <2>2, <2>3
<1>11. /\ \A m : Res(m)' <=> Res(m)
       /\ \A m : Flight(m)' <=> Flight(m)
  BY <1>1, <1>5, <1>10 DEF Res, Flight
<1>12. LiveInv'
  BY <1>0, <1>1, <1>5, <1>10 DEF LiveInv
<1>13. LockInv'
  BY <1>0, <1>1 DEF LockInv, Committing, TypeOK
<1>14. QueueInv' /\ ProgInv' /\ PendInv' /\ LagInv' /\ FlightKept
  <2>1. QueueInv'
    BY <1>0, <1>1 DEF QueueInv
  <2>2. ProgInv'
    BY <1>0, <1>1, <1>5, <1>10 DEF ProgInv
  <2>3. /\ UNCHANGED pending /\ sw' = sw /\ hw' = hw
        /\ \A m \in Commits : of'[m] = of[m]
    BY <1>1
  <2> QED
    BY <1>0, <1>11, <2>1, <2>2, <2>3, PendKept, LagKept
<1>15. WorkInv'
  <2>1. \A m \in Commits : ObjectsOf(m)' = ObjectsOf(m)
    BY <1>1 DEF ObjectsOf
  <2> QED
    BY <1>0, <1>1, <1>3, <1>4, <1>5, <1>10, <2>1 DEF WorkInv
<1> QED
  BY <1>6, <1>7, <1>8, <1>9, <1>12, <1>13, <1>14, <1>15 DEF IInv, BackInv

(* What both ways of queueing a work leave to the display threads.         *)
LEMMA Queueing ==
  ASSUME TypeOK, QueueInv, WorkInv, PendInv, ProgInv, LagInv, ClientInv, UniqueInv,
         NEW c \in Clients, NEW s \in {"idle", "flush"}, NEW k,
         pc[c] = "dispatch", pc' = [pc EXCEPT ![c] = s], commit' = [commit EXCEPT ![c] = k],
         IF s = "flush" THEN of[commit[c]].nonblock = FALSE /\ k = commit[c]
                        ELSE of[commit[c]].nonblock = TRUE,
         \A m : InQueue(m)' <=> InQueue(m) \/ m = commit[c],
         QueueInv', of' = of, next' = next,
         UNCHANGED <<pending, programmed, sw, hw>>
  PROVE  BackInv' /\ FlightKept
<1> DEFINE j == commit[c]
<1>1. pc[c] \notin Unprepared /\ pc[c] # "flush"
  BY DEF Unprepared
<1>2. /\ j \in Commits /\ j < next /\ ~InQueue(j)
      /\ ObjectsOf(j) # {}
      /\ \A d \in Clients \ {c} : pc[d] \notin Unprepared => commit[d] # j
  BY <1>1, Own
<1>3. /\ pc \in [Clients -> Steps] /\ commit \in [Clients -> Commits \union {None}]
      /\ pc'[c] = s /\ \A d \in Clients \ {c} : pc'[d] = pc[d] /\ commit'[d] = commit[d]
  BY DEF TypeOK
<1>4. /\ "dispatch" \in {"swap", "dispatch", "sync"} /\ s \notin {"swap", "dispatch", "sync"}
      /\ "dispatch" \in {"dispatch", "sync"} /\ s \notin {"dispatch", "sync"}
      /\ "dispatch" \notin {"sync"} /\ s \notin {"sync"}
      /\ "dispatch" \notin {"flush"}
      /\ {"swap", "dispatch", "sync"} \cap Unprepared = {}
      /\ {"dispatch", "sync"} \cap Unprepared = {}
  BY Uses
<1>5. \A S : S \cap Unprepared = {} /\ "dispatch" \in S /\ s \notin S
        => \A m : At(S, m)' <=> At(S, m) /\ m # j
  <2> SUFFICES ASSUME NEW S, S \cap Unprepared = {}, "dispatch" \in S, s \notin S
               PROVE  \A m : At(S, m)' <=> At(S, m) /\ m # j
    OBVIOUS
  <2>1. \A d \in Clients \ {c} : pc[d] \in S => commit[d] # j
    BY <1>2
  <2> QED
    BY <1>3, <2>1, LeavesAt, Zenon
<1>6. \A S : "dispatch" \notin S /\ s \notin S => \A m : At(S, m)' <=> At(S, m)
  BY <1>3, SameAt, Zenon
<1>7. /\ \A m : At({"swap", "dispatch", "sync"}, m)'
                  <=> At({"swap", "dispatch", "sync"}, m) /\ m # j
      /\ \A m : At({"dispatch", "sync"}, m)' <=> At({"dispatch", "sync"}, m) /\ m # j
      /\ \A m : At({"sync"}, m)' <=> At({"sync"}, m)
  BY <1>4, <1>5, <1>6
<1>8. \A m : At({"flush"}, m)' <=> At({"flush"}, m) \/ (s = "flush" /\ m = j)
  <2>1. CASE s = "flush"
    <3>1. s \in {"flush"} /\ pc[c] \notin {"flush"} /\ k = j
      BY <2>1
    <3>2. \A S : s \in S /\ pc[c] \notin S => \A m : At(S, m)' <=> At(S, m) \/ m = k
      BY <1>3, EntersAt, Zenon
    <3> QED
      BY <2>1, <3>1, <3>2
  <2>2. CASE s = "idle"
    BY <1>4, <1>6, <2>2
  <2> QED
    BY <2>1, <2>2
<1>9. At({"swap", "dispatch", "sync"}, j) /\ At({"dispatch", "sync"}, j)
  BY DEF At
<1>10. /\ \A m : Res(m)' <=> Res(m)
       /\ \A m : Flight(m)' <=> Flight(m)
  BY <1>7, <1>9 DEF Res, Flight
<1>11. ProgInv'
  BY <1>7 DEF ProgInv
<1>12. PendInv' /\ LagInv' /\ FlightKept
  <2>1. /\ UNCHANGED pending /\ sw' = sw /\ hw' = hw
        /\ \A m \in Commits : of'[m] = of[m]
    OBVIOUS
  <2> QED
    BY <1>10, <2>1, PendKept, LagKept
<1>13. WorkInv'
  <2> SUFFICES ASSUME NEW m \in Commits, InQueue(m) \/ m = j
               PROVE  /\ m < next
                      /\ ObjectsOf(m)' # {}
                      /\ of[m].nonblock = FALSE => At({"flush"}, m)'
                      /\ \A d \in Clients : pc'[d] \notin Unprepared /\ commit'[d] = m
                                              => pc'[d] = "flush"
    BY DEF WorkInv
  <2>1. ObjectsOf(m)' = ObjectsOf(m)
    BY DEF ObjectsOf
  <2>2. CASE InQueue(m)
    <3>1. /\ m < next /\ ObjectsOf(m) # {} /\ m # j
          /\ of[m].nonblock = FALSE => At({"flush"}, m)
          /\ \A d \in Clients : pc[d] \notin Unprepared /\ commit[d] = m => pc[d] = "flush"
      BY <1>2, <2>2 DEF WorkInv
    <3>2. pc'[c] \notin Unprepared => commit'[c] = j
      BY <1>3 DEF Unprepared
    <3> QED
      BY <1>3, <1>8, <2>1, <3>1, <3>2
  <2>3. CASE m = j
    <3>1. of[m].nonblock = FALSE => At({"flush"}, m)'
      BY <1>8, <2>3
    <3>2. pc'[c] \notin Unprepared => pc'[c] = "flush"
      BY <1>3 DEF Unprepared
    <3> QED
      BY <1>2, <1>3, <2>1, <2>3, <3>1, <3>2
  <2> QED
    BY <2>2, <2>3
<1> QED
  BY <1>11, <1>12, <1>13 DEF BackInv

(* A blocking commit waits for its display thread.                         *)
LEMMA DispatchBlocking ==
  ASSUME IInv, NEW c \in Clients, Dispatch(c), of[commit[c]].crtcs # {},
         of[commit[c]].nonblock = FALSE
  PROVE  IInv' /\ FlightKept
<1> DEFINE k == commit[c]
           t == First(of[k].crtcs)
<1>0. /\ TypeOK /\ ClientInv /\ UniqueInv /\ LockInv /\ BoundInv /\ LiveInv
      /\ QueueInv /\ WorkInv /\ PendInv /\ ProgInv /\ LagInv
  BY DEF IInv, BackInv
<1>1. /\ pc[c] = "dispatch" /\ pc' = [pc EXCEPT ![c] = "flush"]
      /\ queue' = [queue EXCEPT ![t] = Append(@, k)]
      /\ UNCHANGED <<lock, request, seen, commit, memory, pending,
                     programmed, sw, hw, backoffs>>
  BY DEF Dispatch, Goto, state
<1>2. /\ pc[c] \in InUse /\ "flush" \in InUse \ {"sync"} /\ pc[c] \notin Unprepared
      /\ pc[c] # "flush"
  BY <1>1 DEF InUse, Unprepared, Steps
<1>3. k \in Commits /\ ~InQueue(k)
  BY <1>0, <1>2, Own
<1>4. t \in Crtcs
  <2>1. of[k].crtcs \subseteq Crtcs
    BY <1>0, <1>3 DEF TypeOK
  <2> QED
    BY <2>1, FirstCrtc
<1>5. /\ queue' \in [Crtcs -> Seq(Commits)] /\ QueueInv'
      /\ \A m : InQueue(m)' <=> InQueue(m) \/ m = k
  BY <1>0, <1>1, <1>3, <1>4, QueueAppend
<1>6. /\ BoundInv' /\ ClientInv' /\ UniqueInv' /\ LiveInv' /\ pc' \in [Clients -> Steps]
      /\ commit' = [commit EXCEPT ![c] = k]
  <2>1. \A m \in Commits : InQueue(m)' <=> InQueue(m) \/ ("flush" = "flush" /\ m = k)
    BY <1>5
  <2>2. UNCHANGED <<request, commit, memory>>
    BY <1>1
  <2> QED
    BY <1>0, <1>1, <1>2, <2>1, <2>2, Advance, Zenon
<1>7. of' = of /\ next' = next /\ live' = live
  BY <1>1 DEF memory
<1>8. TypeOK'
  BY <1>0, <1>1, <1>5, <1>6, <1>7, Zenon DEF TypeOK, pending
<1>9. LockInv'
  BY <1>0, <1>1 DEF LockInv, Committing, TypeOK
<1>10. BackInv' /\ FlightKept
  BY <1>0, <1>1, <1>5, <1>6, <1>7, Queueing
<1> QED
  BY <1>6, <1>8, <1>9, <1>10 DEF IInv

(* A nonblocking commit belongs to the display thread from now on.         *)
LEMMA DispatchNonblocking ==
  ASSUME IInv, NEW c \in Clients, Dispatch(c), of[commit[c]].crtcs # {},
         of[commit[c]].nonblock = TRUE
  PROVE  IInv' /\ FlightKept
<1> DEFINE k == commit[c]
           t == First(of[k].crtcs)
<1>0. /\ TypeOK /\ ClientInv /\ UniqueInv /\ LockInv /\ BoundInv /\ LiveInv
      /\ QueueInv /\ WorkInv /\ PendInv /\ ProgInv /\ LagInv
  BY DEF IInv, BackInv
<1>1. /\ pc[c] = "dispatch" /\ Return(c)
      /\ queue' = [queue EXCEPT ![t] = Append(@, k)]
      /\ UNCHANGED <<live, of, next, pending, programmed, sw, hw, backoffs>>
  BY DEF Dispatch, memory, state
<1>2. /\ pc[c] \in InUse /\ pc[c] \notin Unprepared /\ pc[c] # "flush" /\ "idle" \notin InUse
      /\ "idle" \in Unprepared
  BY <1>1 DEF InUse, Unprepared, Steps
<1>3. /\ k \in Commits /\ ~InQueue(k)
      /\ \A d \in Clients \ {c} : pc[d] \notin Unprepared => commit[d] # k
  BY <1>0, <1>2, Own
<1>4. t \in Crtcs
  <2>1. of[k].crtcs \subseteq Crtcs
    BY <1>0, <1>3 DEF TypeOK
  <2> QED
    BY <2>1, FirstCrtc
<1>5. /\ queue' \in [Crtcs -> Seq(Commits)] /\ QueueInv'
      /\ \A m : InQueue(m)' <=> InQueue(m) \/ m = k
  BY <1>0, <1>1, <1>3, <1>4, QueueAppend
<1>6. /\ pc' = [pc EXCEPT ![c] = "idle"] /\ commit' = [commit EXCEPT ![c] = None]
      /\ request' = [request EXCEPT ![c] = NoRequest]
      /\ UniqueInv' /\ BoundInv' /\ LockInv'
  BY <1>0, <1>1, ReturnSteps
<1>7. TypeOK'
  <2>1. /\ pc' \in [Clients -> Steps]
        /\ commit' \in [Clients -> Commits \union {None}]
        /\ request' \in [Clients -> States \union {NoRequest}]
        /\ seen' \in [Clients -> [Objects -> Nat]]
        /\ lock' \in [Locks -> Clients \union {None}]
    BY <1>0, <1>1, ReturnSteps
  <2> QED
    BY <1>0, <1>1, <1>5, <2>1, Zenon DEF TypeOK, pending
<1>8. ClientInv'
  BY <1>0, <1>1, <1>2, <1>6, ClientStepInv
<1>9. LiveInv'
  <2>1. /\ \A d \in Clients \ {c} : pc[d] \in InUse => commit[d] # k
        /\ pc \in [Clients -> Steps] /\ commit \in [Clients -> Commits \union {None}]
    BY <1>0, <1>3 DEF InUse, TypeOK
  <2>2. \A m : At(InUse, m)' <=> At(InUse, m) /\ m # k
    BY <1>2, <1>6, <2>1, LeavesAt, Zenon
  <2>3. At(InUse, k)
    BY <1>2 DEF At
  <2> QED
    BY <1>0, <1>1, <1>5, <2>2, <2>3 DEF LiveInv
<1>10. BackInv' /\ FlightKept
  <2>1. /\ UNCHANGED <<pending, programmed, sw, hw>> /\ of' = of /\ next' = next
        /\ "idle" \in {"idle", "flush"}
        /\ IF "idle" = "flush" THEN of[k].nonblock = FALSE /\ None = k
                               ELSE of[k].nonblock = TRUE
    BY <1>1
  <2> QED
    BY <1>0, <1>1, <1>5, <1>6, <2>1, Queueing, Zenon
<1> QED
  BY <1>6, <1>7, <1>8, <1>9, <1>10 DEF IInv

LEMMA DispatchInv ==
  ASSUME IInv, NEW c \in Clients, Dispatch(c)
  PROVE  IInv' /\ FlightKept
<1>1. pc[c] \notin Unprepared /\ TypeOK /\ ClientInv
  BY DEF Dispatch, Unprepared, IInv
<1>2. commit[c] \in Commits
  BY <1>1 DEF ClientInv
<1>3. of[commit[c]].nonblock \in BOOLEAN
  BY <1>1, <1>2 DEF TypeOK
<1> QED
  BY <1>3, DispatchSync, DispatchBlocking, DispatchNonblocking

-----------------------------------------------------------------------------
(* The blocking caller wakes up: its work is done, the commit is its own.  *)
LEMMA FlushInv ==
  ASSUME IInv, NEW c \in Clients, Flush(c)
  PROVE  IInv' /\ FlightKept
<1> DEFINE k == commit[c]
<1>0. /\ TypeOK /\ ClientInv /\ UniqueInv /\ LockInv /\ BoundInv /\ LiveInv
      /\ QueueInv /\ WorkInv /\ PendInv /\ ProgInv /\ LagInv
  BY DEF IInv, BackInv
<1>1. /\ pc[c] = "flush" /\ Kfree(k) /\ Return(c) /\ ~InQueue(k)
      /\ UNCHANGED <<next, pending, queue, programmed, sw, hw, backoffs>>
  BY DEF Flush, state, Queued, InQueue
<1>2. pc[c] \notin Unprepared
  BY <1>1 DEF Unprepared
<1>3. /\ k \in Commits
      /\ \A d \in Clients \ {c} : pc[d] \notin Unprepared => commit[d] # k
      /\ \A S : S \cap Unprepared = {} /\ At(S, k) => pc[c] \in S
  BY <1>0, <1>2, Own
<1>4. /\ pending_crtcs' \subseteq Crtcs /\ pending_planes' \subseteq Planes
      /\ programmed' \subseteq Commits /\ hw' \in [Objects -> Nat]
      /\ pc \in [Clients -> Steps] /\ commit \in [Clients -> Commits \union {None}]
  BY <1>0, <1>1 DEF TypeOK, pending
<1>5. /\ pc' = [pc EXCEPT ![c] = "idle"] /\ commit' = [commit EXCEPT ![c] = None]
      /\ \A m \in Commits : m # k => of'[m] = of[m]
      /\ ClientInv' /\ UniqueInv' /\ LiveInv' /\ BoundInv' /\ LockInv' /\ TypeOK'
  <2>1. UNCHANGED <<next, queue, sw, backoffs>>
    BY <1>1
  <2> QED
    BY <1>0, <1>1, <1>2, <1>4, <2>1, FreeStep
<1>6. \A m : InQueue(m)' <=> InQueue(m)
  BY <1>1 DEF InQueue
<1>7. ~Res(k)
  BY <1>1, <1>3, Uses DEF Res
<1>8. /\ \A m : At({"swap", "dispatch", "sync"}, m)'
                  <=> At({"swap", "dispatch", "sync"}, m)
      /\ \A m : At({"dispatch", "sync"}, m)' <=> At({"dispatch", "sync"}, m)
      /\ \A m : At({"sync"}, m)' <=> At({"sync"}, m)
      /\ \A m : At({"flush"}, m)' <=> At({"flush"}, m) /\ m # k
  <2>1. /\ "idle" \notin {"swap", "dispatch", "sync"} /\ pc[c] \notin {"swap", "dispatch", "sync"}
        /\ "idle" \notin {"dispatch", "sync"} /\ pc[c] \notin {"dispatch", "sync"}
        /\ "idle" \notin {"sync"} /\ pc[c] \notin {"sync"}
        /\ "idle" \notin {"flush"} /\ pc[c] \in {"flush"}
        /\ \A d \in Clients \ {c} : pc[d] \in {"flush"} => commit[d] # k
    BY <1>1, <1>3 DEF Unprepared
  <2>2. \A S : "idle" \notin S /\ pc[c] \notin S => \A m : At(S, m)' <=> At(S, m)
    BY <1>4, <1>5, SameAt, Zenon
  <2>3. \A m : At({"flush"}, m)' <=> At({"flush"}, m) /\ m # k
    BY <1>4, <1>5, <2>1, LeavesAt, Zenon
  <2> QED
    BY <2>1, <2>2, <2>3
<1>9. /\ \A m : Res(m)' <=> Res(m)
      /\ \A m : Flight(m)' <=> Flight(m)
  BY <1>1, <1>6, <1>8 DEF Res, Flight
<1>10. QueueInv' /\ ProgInv' /\ PendInv' /\ LagInv' /\ FlightKept
  <2>1. QueueInv'
    BY <1>0, <1>1 DEF QueueInv
  <2>2. ProgInv'
    BY <1>0, <1>1, <1>6, <1>8 DEF ProgInv
  <2>3. /\ UNCHANGED pending /\ sw' = sw /\ hw' = hw
        /\ \A m \in Commits : Res(m) => of'[m] = of[m]
    BY <1>1, <1>5, <1>7
  <2>4. \A m \in Commits : Flight(m) => of'[m] = of[m]
    BY <2>3, FlightRes
  <2> QED
    BY <1>0, <1>9, <2>1, <2>2, <2>3, <2>4, PendKept, LagKept
<1>11. WorkInv'
  <2> SUFFICES ASSUME NEW m \in Commits, InQueue(m)
               PROVE  /\ m < next
                      /\ ObjectsOf(m)' # {}
                      /\ of'[m].nonblock = FALSE => At({"flush"}, m)'
                      /\ \A d \in Clients : pc'[d] \notin Unprepared /\ commit'[d] = m
                                              => pc'[d] = "flush"
    BY <1>1, <1>6 DEF WorkInv
  <2>1. m # k /\ of'[m] = of[m] /\ ObjectsOf(m)' = ObjectsOf(m)
    BY <1>1, <1>5 DEF ObjectsOf
  <2>2. /\ m < next /\ ObjectsOf(m) # {}
        /\ of[m].nonblock = FALSE => At({"flush"}, m)
        /\ \A d \in Clients : pc[d] \notin Unprepared /\ commit[d] = m => pc[d] = "flush"
    BY <1>0 DEF WorkInv
  <2>3. \A d \in Clients : pc'[d] \notin Unprepared /\ commit'[d] = m => pc'[d] = "flush"
    BY <1>4, <1>5, <2>2 DEF Unprepared
  <2> QED
    BY <1>8, <2>1, <2>2, <2>3
<1> QED
  BY <1>5, <1>10, <1>11 DEF IInv, BackInv

-----------------------------------------------------------------------------
(* complete_commit: the objects catch up.                                  *)
LEMMA ProgramInv ==
  ASSUME IInv, NEW m \in Commits, At({"sync"}, m) \/ InQueue(m), Program(m),
         UNCHANGED <<clients, memory, pending, queue, backoffs>>
  PROVE  IInv' /\ Lands(m)
<1>0. /\ TypeOK /\ ClientInv /\ UniqueInv /\ LockInv /\ BoundInv /\ LiveInv
      /\ QueueInv /\ WorkInv /\ PendInv /\ ProgInv /\ LagInv
  BY DEF IInv, BackInv
<1>1. /\ m \notin programmed
      /\ hw' = [o \in Objects |-> IF o \in ObjectsOf(m) THEN sw[o] ELSE hw[o]]
      /\ programmed' = programmed \union {m}
      /\ UNCHANGED <<lock, pc, request, seen, commit, live, of, next, pending_crtcs,
                     pending_planes, queue, sw, backoffs>>
  BY DEF Program, clients, memory, pending
<1>2. TypeOK'
  <2>1. hw' \in [Objects -> Nat] /\ programmed' \subseteq Commits
    BY <1>0, <1>1 DEF TypeOK
  <2> QED
    BY <1>0, <1>1, <2>1, Zenon DEF TypeOK
<1>3. BoundInv' /\ ClientInv' /\ UniqueInv' /\ QueueInv'
  <2>1. BoundInv'
    BY <1>0, <1>1 DEF BoundInv, Checked
  <2>2. ClientInv' /\ UniqueInv'
    BY <1>0, <1>1 DEF ClientInv, UniqueInv, Masks
  <2>3. QueueInv'
    BY <1>0, <1>1 DEF QueueInv
  <2> QED
    BY <2>1, <2>2, <2>3
<1>4. /\ \A S, n : At(S, n)' <=> At(S, n)
      /\ \A n : InQueue(n)' <=> InQueue(n)
      /\ \A n : ObjectsOf(n)' = ObjectsOf(n)
  BY <1>1 DEF At, InQueue, ObjectsOf
<1>5. \A n : Res(n)' <=> Res(n)
  BY <1>4 DEF Res
<1>6. \A n : Flight(n)' <=> Flight(n) /\ n # m
  BY <1>1, <1>4 DEF Flight
<1>7. Flight(m) /\ Res(m)
  <2>1. At({"sync"}, m) => At({"dispatch", "sync"}, m)
    BY DEF At
  <2> QED
    BY <1>1, <2>1, FlightRes DEF Flight
<1>8. LiveInv' /\ WorkInv' /\ PendInv' /\ ProgInv'
  <2>1. LiveInv'
    BY <1>0, <1>1, <1>4 DEF LiveInv
  <2>2. WorkInv'
    BY <1>0, <1>1, <1>4 DEF WorkInv
  <2>3. PendInv'
    <3>1. UNCHANGED pending /\ \A n \in Commits : Res(n) => of'[n] = of[n]
      BY <1>1 DEF pending
    <3> QED
      BY <1>0, <1>5, <3>1, PendKept
  <2>4. ProgInv'
    BY <1>0, <1>1, <1>4 DEF ProgInv
  <2> QED
    BY <2>1, <2>2, <2>3, <2>4
<1>9. LagInv'
  <2> SUFFICES ASSUME NEW o \in Objects
               PROVE  sw[o] = hw'[o] + (IF Flying(o)' THEN 1 ELSE 0)
    BY <1>1 DEF LagInv
  <2>1. sw[o] = hw[o] + (IF Flying(o) THEN 1 ELSE 0) /\ sw[o] \in Nat /\ hw[o] \in Nat
    BY <1>0 DEF LagInv, TypeOK
  <2>2. CASE o \in ObjectsOf(m)
    <3>1. ~Flying(o)'
      <4> SUFFICES ASSUME NEW n \in Commits, Flight(n), n # m, o \in ObjectsOf(n)
                   PROVE  FALSE
        BY <1>4, <1>6 DEF Flying
      <4>1. ObjectsOf(n) \cap ObjectsOf(m) = {}
        BY <1>0, <1>7, FlightRes DEF PendInv
      <4> QED
        BY <2>2, <4>1
    <3>2. hw'[o] = sw[o]
      BY <1>1, <2>2
    <3> QED
      BY <2>1, <3>1, <3>2
  <2>3. CASE o \notin ObjectsOf(m)
    <3>1. Flying(o)' <=> Flying(o)
      BY <1>4, <1>6, <2>3 DEF Flying
    <3>2. hw'[o] = hw[o]
      BY <1>1, <2>3
    <3> QED
      BY <2>1, <3>1, <3>2
  <2> QED
    BY <2>2, <2>3
<1>10. LockInv'
  BY <1>0, <1>1 DEF LockInv, Committing
<1>11. Lands(m)
  BY <1>1, <1>6, <1>7 DEF Lands
<1> QED
  BY <1>2, <1>3, <1>8, <1>9, <1>10, <1>11 DEF IInv, BackInv

-----------------------------------------------------------------------------
(* commit_destroy: the masks lose exactly what the commit had reserved.    *)
LEMMA PendDropped ==
  ASSUME TypeOK, PendInv, NEW m \in Commits, Res(m),
         \A n \in Commits : Res(n)' <=> Res(n) /\ n # m,
         \A n \in Commits : n # m => of'[n] = of[n],
         pending_crtcs' = pending_crtcs \ of[m].crtcs,
         pending_planes' = pending_planes \ of[m].planes
  PROVE  PendInv'
<1>1. \A n \in Commits : n # m => ObjectsOf(n)' = ObjectsOf(n)
  BY DEF ObjectsOf
<1>2. \A n \in Commits : Res(n) /\ n # m => ObjectsOf(n) \cap ObjectsOf(m) = {}
  BY DEF PendInv
<1>3. \A n \in Commits : Res(n) /\ n # m => /\ of[n].crtcs \cap of[m].crtcs = {}
                                            /\ of[n].planes \cap of[m].planes = {}
  BY <1>2 DEF ObjectsOf
<1>4. \A q \in Crtcs : q \in pending_crtcs' <=>
                         \E n \in Commits : Res(n)' /\ q \in of'[n].crtcs
  BY <1>3 DEF PendInv
<1>5. \A p \in Planes : p \in pending_planes' <=>
                          \E n \in Commits : Res(n)' /\ p \in of'[n].planes
  BY <1>3 DEF PendInv
<1>6. \A n, l \in Commits : Res(n)' /\ Res(l)' /\ n # l
                              => ObjectsOf(n)' \cap ObjectsOf(l)' = {}
  BY <1>1 DEF PendInv
<1> QED
  BY <1>4, <1>5, <1>6 DEF PendInv

(* A display thread destroys its commit, and frees it when nobody waits.   *)
LEMMA ThreadDestroyInv ==
  ASSUME IInv, NEW t \in Crtcs, ThreadDestroy(t)
  PROVE  IInv' /\ FlightKept
<1> DEFINE m == Head(queue[t])
<1>0. /\ TypeOK /\ ClientInv /\ UniqueInv /\ LockInv /\ BoundInv /\ LiveInv
      /\ QueueInv /\ WorkInv /\ PendInv /\ ProgInv /\ LagInv
  BY DEF IInv, BackInv
<1>1. /\ queue[t] # <<>> /\ queue' = [queue EXCEPT ![t] = Tail(@)]
      /\ m \in programmed /\ programmed' = programmed \ {m}
      /\ pending_crtcs' = pending_crtcs \ of[m].crtcs
      /\ pending_planes' = pending_planes \ of[m].planes
      /\ IF of[m].nonblock THEN Kfree(m) ELSE live' = live /\ of' = of
      /\ UNCHANGED <<lock, pc, request, seen, commit, next, sw, hw, backoffs>>
  BY DEF ThreadDestroy, CommitDestroy, clients, state
<1>2. /\ queue' \in [Crtcs -> Seq(Commits)] /\ QueueInv'
      /\ m \in Commits /\ InQueue(m)
      /\ \A n \in Commits : InQueue(n)' <=> InQueue(n) /\ n # m
  BY <1>0, <1>1, QueueTail
<1>3. /\ m < next /\ of[m].nonblock \in BOOLEAN
      /\ of[m].nonblock = FALSE => At({"flush"}, m)
      /\ \A c \in Clients : pc[c] \notin Unprepared /\ commit[c] = m => pc[c] = "flush"
  BY <1>0, <1>2 DEF WorkInv, TypeOK
<1>4. /\ \A n \in Commits : n # m => of'[n] = of[n]
      /\ of[m].nonblock = FALSE => of' = of /\ live' = live
      /\ of[m].nonblock = TRUE => live' = live \ {m}
      /\ live' \subseteq Commits
      /\ of' \in [Commits -> [crtcs : SUBSET Crtcs, planes : SUBSET Planes,
                              nonblock : BOOLEAN]]
  <2>1. NoFields \in [crtcs : SUBSET Crtcs, planes : SUBSET Planes, nonblock : BOOLEAN]
    BY DEF NoFields
  <2>2. /\ live \subseteq Commits
        /\ of \in [Commits -> [crtcs : SUBSET Crtcs, planes : SUBSET Planes,
                               nonblock : BOOLEAN]]
    BY <1>0 DEF TypeOK
  <2>3. CASE of[m].nonblock = FALSE
    BY <1>1, <2>2, <2>3
  <2>4. CASE of[m].nonblock = TRUE
    <3>1. live' = live \ {m} /\ of' = [of EXCEPT ![m] = NoFields]
      BY <1>1, <2>4 DEF Kfree
    <3> QED
      BY <2>1, <2>2, <2>4, <3>1
  <2> QED
    BY <1>3, <2>3, <2>4
<1>5. \A c \in Clients : pc[c] \notin Unprepared => of'[commit[c]] = of[commit[c]]
  <2> SUFFICES ASSUME NEW c \in Clients, pc[c] \notin Unprepared
               PROVE  of'[commit[c]] = of[commit[c]]
    OBVIOUS
  <2>1. commit[c] \in Commits
    BY <1>0 DEF ClientInv
  <2>2. commit[c] = m => of[m].nonblock = FALSE
    BY <1>0, <1>3 DEF ClientInv
  <2> QED
    BY <1>4, <2>1, <2>2
<1>6. TypeOK'
  <2>1. /\ pending_crtcs' \subseteq Crtcs /\ pending_planes' \subseteq Planes
        /\ programmed' \subseteq Commits
    BY <1>0, <1>1 DEF TypeOK
  <2> QED
    BY <1>0, <1>1, <1>2, <1>4, <2>1, Zenon DEF TypeOK
<1>7. BoundInv' /\ UniqueInv' /\ LockInv'
  <2>1. BoundInv'
    BY <1>0, <1>1 DEF BoundInv, Checked
  <2>2. UniqueInv'
    BY <1>0, <1>1 DEF UniqueInv
  <2>3. LockInv'
    BY <1>0, <1>1 DEF LockInv, Committing
  <2> QED
    BY <2>1, <2>2, <2>3
<1>8. ClientInv'
  <2> SUFFICES ASSUME NEW c \in Clients
               PROVE  /\ pc[c] # "idle" => request[c] \in States
                      /\ pc[c] \notin Unprepared =>
                           /\ commit[c] \in Commits /\ commit[c] < next
                           /\ of'[commit[c]] = Masks(request[c])
                      /\ pc[c] = "sync" => of'[commit[c]].crtcs = {}
                      /\ pc[c] = "flush" => of'[commit[c]].nonblock = FALSE
    BY <1>1 DEF ClientInv, Masks
  <2>1. pc[c] \in {"sync", "flush"} => pc[c] \notin Unprepared
    BY DEF Unprepared
  <2> QED
    BY <1>0, <1>5, <2>1 DEF ClientInv
<1>9. \A S, n : At(S, n)' <=> At(S, n)
  BY <1>1 DEF At
<1>10. /\ ~At({"swap", "dispatch", "sync"}, m) /\ ~At({"dispatch", "sync"}, m)
       /\ ~At({"sync"}, m)
  BY <1>3 DEF At, Unprepared
<1>11. \A n \in Commits : Res(n)' <=> Res(n) /\ n # m
  BY <1>2, <1>9, <1>10 DEF Res
<1>12. \A n \in Commits : Flight(n)' <=> Flight(n)
  BY <1>1, <1>2, <1>9, <1>10 DEF Flight
<1>13. LiveInv'
  <2>1. CASE of[m].nonblock = FALSE
    <3>1. At(InUse, m)
      BY <1>3, <2>1 DEF At, InUse, Steps, Unprepared
    <3> QED
      BY <1>0, <1>2, <1>4, <1>9, <2>1, <3>1 DEF LiveInv
  <2>2. CASE of[m].nonblock = TRUE
    <3>1. ~At(InUse, m)
      <4> SUFFICES ASSUME NEW c \in Clients, pc[c] \in InUse, commit[c] = m PROVE FALSE
        BY DEF At
      <4>1. pc[c] = "flush"
        BY <1>3 DEF InUse
      <4> QED
        BY <1>0, <2>2, <4>1 DEF ClientInv
    <3> QED
      BY <1>0, <1>2, <1>4, <1>9, <2>2, <3>1 DEF LiveInv
  <2> QED
    BY <1>3, <2>1, <2>2
<1>14. PendInv'
  BY <1>0, <1>1, <1>2, <1>4, <1>11, PendDropped DEF Res
<1>15. ProgInv' /\ LagInv' /\ FlightKept
  <2>1. ProgInv'
    <3>1. programmed \subseteq Commits
      BY <1>0 DEF TypeOK
    <3> QED
      BY <1>0, <1>1, <1>2, <1>9, <3>1 DEF ProgInv
  <2>2. \A n \in Commits : Flight(n) => of'[n] = of[n]
    BY <1>1, <1>4 DEF Flight
  <2> QED
    BY <1>0, <1>1, <1>12, <2>1, <2>2, LagKept
<1>16. WorkInv'
  <2> SUFFICES ASSUME NEW n \in Commits, InQueue(n), n # m
               PROVE  /\ n < next
                      /\ ObjectsOf(n)' # {}
                      /\ of'[n].nonblock = FALSE => At({"flush"}, n)'
                      /\ \A d \in Clients : pc[d] \notin Unprepared /\ commit[d] = n
                                              => pc[d] = "flush"
    BY <1>1, <1>2 DEF WorkInv
  <2>1. of'[n] = of[n] /\ ObjectsOf(n)' = ObjectsOf(n)
    BY <1>4 DEF ObjectsOf
  <2> QED
    BY <1>0, <1>9, <2>1 DEF WorkInv
<1> QED
  BY <1>2, <1>6, <1>7, <1>8, <1>13, <1>14, <1>15, <1>16 DEF IInv, BackInv

(* The caller of a state without CRTC destroys and frees its commit.       *)
LEMMA SyncDestroyInv ==
  ASSUME IInv, NEW c \in Clients, SyncDestroy(c)
  PROVE  IInv' /\ FlightKept
<1> DEFINE k == commit[c]
<1>0. /\ TypeOK /\ ClientInv /\ UniqueInv /\ LockInv /\ BoundInv /\ LiveInv
      /\ QueueInv /\ WorkInv /\ PendInv /\ ProgInv /\ LagInv
  BY DEF IInv, BackInv
<1>1. /\ pc[c] = "sync" /\ Kfree(k) /\ Return(c)
      /\ k \in programmed /\ programmed' = programmed \ {k}
      /\ pending_crtcs' = pending_crtcs \ of[k].crtcs
      /\ pending_planes' = pending_planes \ of[k].planes
      /\ UNCHANGED <<next, queue, sw, hw, backoffs>>
  BY DEF SyncDestroy, CommitDestroy, state
<1>2. pc[c] \notin Unprepared /\ pc[c] # "flush"
  BY <1>1 DEF Unprepared
<1>3. /\ k \in Commits /\ ~InQueue(k)
      /\ \A d \in Clients \ {c} : pc[d] \notin Unprepared => commit[d] # k
  BY <1>0, <1>2, Own
<1>4. /\ pending_crtcs' \subseteq Crtcs /\ pending_planes' \subseteq Planes
      /\ programmed' \subseteq Commits /\ hw' \in [Objects -> Nat]
      /\ pc \in [Clients -> Steps] /\ commit \in [Clients -> Commits \union {None}]
      /\ programmed \subseteq Commits
  BY <1>0, <1>1 DEF TypeOK
<1>5. /\ pc' = [pc EXCEPT ![c] = "idle"] /\ commit' = [commit EXCEPT ![c] = None]
      /\ \A m \in Commits : m # k => of'[m] = of[m]
      /\ ClientInv' /\ UniqueInv' /\ LiveInv' /\ BoundInv' /\ LockInv' /\ TypeOK'
  <2>1. UNCHANGED <<next, queue, sw, backoffs>>
    BY <1>1
  <2> QED
    BY <1>0, <1>1, <1>2, <1>3, <1>4, <2>1, FreeStep
<1>6. \A m : InQueue(m)' <=> InQueue(m)
  BY <1>1 DEF InQueue
<1>7. /\ \A m : At({"swap", "dispatch", "sync"}, m)'
                  <=> At({"swap", "dispatch", "sync"}, m) /\ m # k
      /\ \A m : At({"dispatch", "sync"}, m)' <=> At({"dispatch", "sync"}, m) /\ m # k
      /\ \A m : At({"sync"}, m)' <=> At({"sync"}, m) /\ m # k
      /\ \A m : At({"flush"}, m)' <=> At({"flush"}, m)
  <2>1. /\ "idle" \notin {"swap", "dispatch", "sync"} /\ pc[c] \in {"swap", "dispatch", "sync"}
        /\ "idle" \notin {"dispatch", "sync"} /\ pc[c] \in {"dispatch", "sync"}
        /\ "idle" \notin {"sync"} /\ pc[c] \in {"sync"}
        /\ "idle" \notin {"flush"} /\ pc[c] \notin {"flush"}
    BY <1>1
  <2>2. \A S : "idle" \notin S /\ pc[c] \notin S => \A m : At(S, m)' <=> At(S, m)
    BY <1>4, <1>5, SameAt, Zenon
  <2>3. \A S : /\ "idle" \notin S /\ pc[c] \in S
               /\ \A d \in Clients \ {c} : pc[d] \in S => commit[d] # k
          => \A m : At(S, m)' <=> At(S, m) /\ m # k
    BY <1>4, <1>5, LeavesAt, Zenon
  <2>4. /\ \A d \in Clients \ {c} : pc[d] \in {"swap", "dispatch", "sync"} => commit[d] # k
        /\ \A d \in Clients \ {c} : pc[d] \in {"dispatch", "sync"} => commit[d] # k
        /\ \A d \in Clients \ {c} : pc[d] \in {"sync"} => commit[d] # k
    BY <1>3 DEF Unprepared
  <2> QED
    BY <2>1, <2>2, <2>3, <2>4
<1>8. \A m : Res(m)' <=> Res(m) /\ m # k
  BY <1>3, <1>6, <1>7 DEF Res
<1>9. \A m : Flight(m)' <=> Flight(m)
  BY <1>1, <1>3, <1>6, <1>7 DEF Flight
<1>10. Res(k)
  BY <1>1 DEF Res, At
<1>11. PendInv'
  BY <1>0, <1>1, <1>3, <1>5, <1>8, <1>10, PendDropped
<1>12. QueueInv' /\ ProgInv' /\ LagInv' /\ FlightKept
  <2>1. QueueInv'
    BY <1>0, <1>1 DEF QueueInv
  <2>2. ProgInv'
    BY <1>0, <1>1, <1>6, <1>7 DEF ProgInv
  <2>3. \A m \in Commits : Flight(m) => of'[m] = of[m]
    BY <1>1, <1>5 DEF Flight
  <2> QED
    BY <1>0, <1>1, <1>9, <2>1, <2>2, <2>3, LagKept
<1>13. WorkInv'
  <2> SUFFICES ASSUME NEW m \in Commits, InQueue(m)
               PROVE  /\ m < next
                      /\ ObjectsOf(m)' # {}
                      /\ of'[m].nonblock = FALSE => At({"flush"}, m)'
                      /\ \A d \in Clients : pc'[d] \notin Unprepared /\ commit'[d] = m
                                              => pc'[d] = "flush"
    BY <1>1, <1>6 DEF WorkInv
  <2>1. m # k /\ of'[m] = of[m] /\ ObjectsOf(m)' = ObjectsOf(m)
    BY <1>3, <1>5 DEF ObjectsOf
  <2>2. /\ m < next /\ ObjectsOf(m) # {}
        /\ of[m].nonblock = FALSE => At({"flush"}, m)
        /\ \A d \in Clients : pc[d] \notin Unprepared /\ commit[d] = m => pc[d] = "flush"
    BY <1>0 DEF WorkInv
  <2>3. \A d \in Clients : pc'[d] \notin Unprepared /\ commit'[d] = m => pc'[d] = "flush"
    BY <1>4, <1>5, <2>2 DEF Unprepared
  <2> QED
    BY <1>7, <2>1, <2>2, <2>3
<1> QED
  BY <1>5, <1>11, <1>12, <1>13 DEF IInv, BackInv

-----------------------------------------------------------------------------
(* Nothing is initially committed.                                         *)
LEMMA InitInv == Init => IInv
<1> SUFFICES ASSUME Init PROVE IInv
  OBVIOUS
<1> USE DEF Init
<1>1. TypeOK
  <2>1. NoFields \in [crtcs : SUBSET Crtcs, planes : SUBSET Planes, nonblock : BOOLEAN]
    BY DEF NoFields
  <2>2. of \in [Commits -> [crtcs : SUBSET Crtcs, planes : SUBSET Planes, nonblock : BOOLEAN]]
    BY <2>1
  <2>3. queue \in [Crtcs -> Seq(Commits)]
    BY DEF Commits
  <2>4. next \in 1 .. MaxCommits + 1 /\ backoffs \in 0 .. MaxBackoffs
    BY BoundsAssumption
  <2>5. seen \in [Clients -> [Objects -> Nat]] /\ pc \in [Clients -> Steps]
    BY DEF NothingSeen, Steps
  <2> QED
    BY <2>2, <2>3, <2>4, <2>5 DEF TypeOK
<1>2. \A S, m : "idle" \notin S => ~At(S, m)
  BY DEF At
<1>3. \A m : ~InQueue(m)
  BY EmptyQueue DEF InQueue
<1>4. BoundInv
  <2>1. Checked = {}
    BY DEF Checked
  <2> QED
    BY <2>1, FS_EmptySet, BoundsAssumption DEF BoundInv
<1>5. ClientInv /\ UniqueInv
  BY DEF ClientInv, UniqueInv, Unprepared
<1>6. LiveInv
  BY <1>2, <1>3 DEF LiveInv, InUse, Unprepared
<1>7. LockInv
  BY DEF LockInv, Committing
<1>8. QueueInv
  BY EmptyQueue DEF QueueInv
<1>9. WorkInv
  BY <1>3 DEF WorkInv
<1>10. \A m : ~Res(m) /\ ~Flight(m)
  BY <1>2, <1>3 DEF Res, Flight
<1>11. PendInv /\ ProgInv
  BY <1>10 DEF PendInv, ProgInv
<1>12. LagInv
  BY <1>10 DEF LagInv, Flying
<1> QED
  BY <1>1, <1>4, <1>5, <1>6, <1>7, <1>8, <1>9, <1>11, <1>12 DEF IInv, BackInv

LEMMA StutterInv ==
  ASSUME IInv, UNCHANGED vars
  PROVE  IInv' /\ FlightKept
<1>1. UNCHANGED <<lock, pc, request, seen, commit, live, of, next, pending_crtcs,
                  pending_planes, queue, programmed, sw, hw, backoffs>>
  BY DEF vars, clients, memory, pending, state
<1>2. /\ \A S, n : At(S, n)' <=> At(S, n)
      /\ \A n : InQueue(n)' <=> InQueue(n)
      /\ \A n : ObjectsOf(n)' = ObjectsOf(n)
  BY <1>1 DEF At, InQueue, ObjectsOf
<1>3. /\ \A n : Res(n)' <=> Res(n)
      /\ \A n : Flight(n)' <=> Flight(n)
  BY <1>1, <1>2 DEF Res, Flight
<1>4. TypeOK'
  BY <1>1, Zenon DEF IInv, TypeOK
<1>5. BoundInv' /\ LiveInv'
  BY <1>1, <1>2 DEF IInv, BoundInv, Checked, LiveInv
<1>6. ClientInv' /\ UniqueInv' /\ LockInv'
  BY <1>1 DEF IInv, ClientInv, UniqueInv, LockInv, Committing, Masks
<1>7. QueueInv' /\ WorkInv' /\ ProgInv'
  BY <1>1, <1>2 DEF IInv, BackInv, QueueInv, WorkInv, ProgInv
<1>8. PendInv' /\ LagInv' /\ FlightKept
  <2>1. UNCHANGED pending /\ \A n \in Commits : of'[n] = of[n]
    BY <1>1 DEF pending
  <2> QED
    BY <1>1, <1>3, <2>1, PendKept, LagKept DEF IInv, BackInv
<1> QED
  BY <1>4, <1>5, <1>6, <1>7, <1>8 DEF IInv, BackInv

(* A step of a display thread or of a caller that programs.                *)
LEMMA ThreadProgramInv ==
  ASSUME IInv, NEW t \in Crtcs, ThreadProgram(t)
  PROVE  IInv' /\ \E k \in Commits : Lands(k)
<1>1. /\ queue[t] # <<>> /\ Program(Head(queue[t]))
      /\ UNCHANGED <<clients, memory, pending, queue, backoffs>>
  BY DEF ThreadProgram
<1>2. queue[t] \in Seq(Commits) /\ Distinct(queue[t])
  BY DEF IInv, BackInv, TypeOK, QueueInv
<1>3. Head(queue[t]) \in Commits /\ InQueue(Head(queue[t]))
  BY <1>1, <1>2, TailSet DEF InQueue
<1> QED
  BY <1>1, <1>3, ProgramInv

LEMMA SyncProgramInv ==
  ASSUME IInv, NEW c \in Clients, SyncProgram(c)
  PROVE  IInv' /\ \E k \in Commits : Lands(k)
<1>1. /\ pc[c] = "sync" /\ Program(commit[c])
      /\ UNCHANGED <<clients, memory, pending, queue, backoffs>>
  BY DEF SyncProgram
<1>2. commit[c] \in Commits
  BY <1>1 DEF IInv, ClientInv, Unprepared
<1>3. At({"sync"}, commit[c])
  BY <1>1 DEF At
<1> QED
  BY <1>1, <1>2, <1>3, ProgramInv

(* What a step is to CommitContract.                                       *)
Mapped ==
  \/ FlightKept
  \/ \E c \in Clients : Launches(commit[c], request[c].objects) /\ request[c] \in States
  \/ \E k \in Commits : Lands(k)

LEMMA NextInv ==
  ASSUME IInv, [Next]_vars
  PROVE  IInv' /\ Mapped
<1>1. ASSUME NEW c \in Clients, NEW r \in Requests, Check(c, r) PROVE IInv' /\ Mapped
  BY <1>1, CheckInv DEF Mapped
<1>2. ASSUME NEW c \in Clients, PrepareFails(c) \/ LockInterrupted(c) \/ Backoff(c)
                                  \/ WaitInterrupted(c)
      PROVE  IInv' /\ Mapped
  BY <1>2, PrepareFailsInv, ConnectionInv, WaitInterruptedInv DEF Mapped
<1>3. ASSUME NEW c \in Clients, Swap(c) PROVE IInv' /\ Mapped
  <2>1. request[c] \in States
    BY <1>3 DEF Swap, IInv, ClientInv
  <2> QED
    BY <1>3, <2>1, SwapInv DEF Mapped
<1>4. ASSUME NEW c \in Clients, ClientStep(c) PROVE IInv' /\ Mapped
  BY <1>3, <1>4, PrepareInv, ConnectionInv, ReserveInv, DispatchInv, FlushInv,
     SyncProgramInv, SyncDestroyInv DEF ClientStep, Mapped
<1>5. ASSUME NEW t \in Crtcs, ThreadStep(t) PROVE IInv' /\ Mapped
  BY <1>5, ThreadProgramInv, ThreadDestroyInv DEF ThreadStep, Mapped
<1>6. CASE UNCHANGED vars
  BY <1>6, StutterInv DEF Mapped
<1> QED
  BY <1>1, <1>2, <1>4, <1>5, <1>6 DEF Next

(* The inductive invariant, for any clients, objects, requests and bounds. *)
THEOREM Invariance == Spec => []IInv
<1>1. Init => IInv
  BY InitInv
<1>2. IInv /\ [Next]_vars => IInv'
  BY NextInv
<1> QED
  BY <1>1, <1>2, PTL DEF Spec

(* The fields, masks and queues of msm_atomic_commit keep their types.     *)
THEOREM TypeCorrect == Spec => []TypeOK
<1>1. IInv => TypeOK
  BY DEF IInv
<1> QED
  BY <1>1, Invariance, PTL

(* An msm_commit is freed exactly when neither its caller nor a display    *)
(* thread refers to it any more, on every path through msm_atomic_commit.  *)
THEOREM FreedOnce == Spec => []LiveWhileUsed
<1>1. IInv => LiveWhileUsed
  <2> SUFFICES ASSUME IInv PROVE LiveWhileUsed
    OBVIOUS
  <2>1. \A c \in Clients : Using(c) <=> pc[c] \in InUse
    BY DEF IInv, TypeOK, Using, InUse, Unprepared, Steps
  <2>2. \A m : m \in {commit[c] : c \in {d \in Clients : Using(d)}}
                 \union UNION {ToSet(queue[t]) : t \in Crtcs}
               <=> At(InUse, m) \/ InQueue(m)
    BY <2>1 DEF At, InQueue
  <2>3. \A m : At(InUse, m) \/ InQueue(m) => m \in Commits
    <3>1. \A m : At(InUse, m) => m \in Commits
      BY DEF At, IInv, ClientInv, InUse
    <3>2. \A t \in Crtcs : ToSet(queue[t]) \subseteq Commits
      <4>1. \A t \in Crtcs : queue[t] \in Seq(Commits)
        BY DEF IInv, TypeOK
      <4> QED
        BY <4>1 DEF ToSet
    <3> QED
      BY <3>1, <3>2 DEF InQueue
  <2>4. live \subseteq Commits /\ \A m \in Commits : m \in live <=> At(InUse, m) \/ InQueue(m)
    BY DEF IInv, TypeOK, LiveInv
  <2> QED
    BY <2>2, <2>3, <2>4 DEF LiveWhileUsed
<1> QED
  BY <1>1, Invariance, PTL

(* The commits that passed the wait, as AtomicCommit collects them.        *)
LEMMA ReservedMembers ==
  ASSUME IInv
  PROVE  \A m : m \in Reserved <=> m \in Commits /\ Res(m)
<1>1. \A m : m \in Reserved <=> Res(m)
  BY DEF Reserved, Res, At, InQueue
<1>2. \A m : At({"swap", "dispatch", "sync"}, m) => m \in Commits
  BY DEF At, IInv, ClientInv, Unprepared
<1>3. \A t \in Crtcs : ToSet(queue[t]) \subseteq Commits
  <2>1. \A t \in Crtcs : queue[t] \in Seq(Commits)
    BY DEF IInv, TypeOK
  <2> QED
    BY <2>1 DEF ToSet
<1> QED
  BY <1>1, <1>2, <1>3 DEF Res, InQueue

(* pending_crtcs and pending_planes are the objects of the commits between *)
(* the wait and commit_destroy, and no two of these overlap.               *)
THEOREM MasksExact == Spec => []PendingExact
<1>1. IInv => PendingExact
  <2> SUFFICES ASSUME IInv PROVE PendingExact
    OBVIOUS
  <2>1. \A m : m \in Reserved <=> m \in Commits /\ Res(m)
    BY ReservedMembers
  <2>2. /\ pending_crtcs \subseteq Crtcs /\ pending_planes \subseteq Planes
        /\ \A m \in Commits : of[m].crtcs \subseteq Crtcs /\ of[m].planes \subseteq Planes
    BY DEF IInv, TypeOK
  <2>3. PendInv
    BY DEF IInv, BackInv
  <2>4. pending_crtcs = UNION {of[m].crtcs : m \in Reserved}
    BY <2>1, <2>2, <2>3 DEF PendInv
  <2>5. pending_planes = UNION {of[m].planes : m \in Reserved}
    BY <2>1, <2>2, <2>3 DEF PendInv
  <2>6. \A m, n \in Reserved : m # n => ObjectsOf(m) \cap ObjectsOf(n) = {}
    BY <2>1, <2>3 DEF PendInv
  <2> QED
    BY <2>4, <2>5, <2>6 DEF PendingExact
<1> QED
  BY <1>1, Invariance, PTL

(* Unless connection_mutex was backed off from, the state that is swapped  *)
(* in was checked against the state it replaces.                           *)
THEOREM CheckedStateCommitted == Spec => []ValidUntilBackoff
<1>1. IInv => ValidUntilBackoff
  BY DEF IInv, LockInv, ValidUntilBackoff, Validated
<1> QED
  BY <1>1, Invariance, PTL

-----------------------------------------------------------------------------
(* The updates in flight are the objects of the commits in flight ...      *)
InFlight == {m \in Commits : Flight(m)}
UpdatesExact == Updates = {ObjectsOf(m) : m \in InFlight}
LEMMA FlightUpdates ==
  ASSUME IInv
  PROVE  UpdatesExact
<1>1. \A m : m \in InFlight <=>
        m \in ({commit[c] : c \in {d \in Clients : pc[d] \in {"dispatch", "sync"}}}
                 \union UNION {ToSet(queue[t]) : t \in Crtcs}) \ programmed
  <2>1. \A m : Flight(m) => m \in Commits
    BY ReservedMembers, FlightRes DEF Reserved, Flight, At, InQueue
  <2> QED
    BY <2>1 DEF InFlight, Flight, At, InQueue
<1> QED
  BY <1>1 DEF Updates, UpdatesExact

(* ... which share none, and have one.                                     *)
LEMMA FlightObjects ==
  ASSUME IInv
  PROVE  /\ \A m \in InFlight : ObjectsOf(m) \in (SUBSET Objects) \ {{}}
         /\ \A m \in InFlight, n \in Commits :
              Res(n) /\ m # n => ObjectsOf(m) \cap ObjectsOf(n) = {}
<1>0. /\ TypeOK /\ ClientInv /\ UniqueInv /\ WorkInv /\ PendInv
  BY DEF IInv, BackInv
<1>1. ASSUME NEW m \in Commits, Flight(m) PROVE ObjectsOf(m) \in (SUBSET Objects) \ {{}}
  <2>1. ObjectsOf(m) \subseteq Objects
    BY <1>0 DEF TypeOK, ObjectsOf, Objects
  <2>2. CASE InQueue(m)
    BY <1>0, <2>1, <2>2 DEF WorkInv
  <2>3. CASE At({"dispatch", "sync"}, m)
    <3>1. PICK c \in Clients : pc[c] \in {"dispatch", "sync"} /\ commit[c] = m
      BY <2>3 DEF At
    <3>2. ObjectsOf(m) # {}
      BY <1>0, <3>1, Own DEF Unprepared
    <3> QED
      BY <2>1, <3>2
  <2> QED
    BY <1>1, <2>2, <2>3 DEF Flight
<1>2. \A m \in InFlight, n \in Commits :
        Res(n) /\ m # n => ObjectsOf(m) \cap ObjectsOf(n) = {}
  BY <1>0, FlightRes DEF PendInv, InFlight
<1> QED
  BY <1>1, <1>2 DEF InFlight

LEMMA ContractInit == Init => Contract!Init
<1> SUFFICES ASSUME Init PROVE Contract!Init
  OBVIOUS
<1>1. Updates = {}
  <2>1. {d \in Clients : pc[d] \in {"dispatch", "sync"}} = {}
    BY DEF Init
  <2>2. \A t \in Crtcs : ToSet(queue[t]) = {}
    BY EmptyQueue DEF Init
  <2> QED
    BY <2>1, <2>2 DEF Updates
<1> QED
  BY <1>1 DEF Init, Contract!Init

LEMMA ContractKept ==
  ASSUME UpdatesExact, UpdatesExact', FlightKept
  PROVE  UNCHANGED Contract!vars
<1>1. InFlight' = InFlight /\ \A m \in InFlight : ObjectsOf(m)' = ObjectsOf(m)
  BY DEF FlightKept, InFlight, ObjectsOf
<1>2. Updates' = Updates
  BY <1>1 DEF UpdatesExact
<1> QED
  BY <1>2 DEF FlightKept, Contract!vars

LEMMA ContractCommit ==
  ASSUME IInv, UpdatesExact, UpdatesExact', NEW k, NEW S \in (SUBSET Objects) \ {{}},
         Launches(k, S)
  PROVE  Contract!Commit(S)
<1>1. InFlight' = InFlight \union {k} /\ \A m : ObjectsOf(m)' = ObjectsOf(m)
  BY DEF Launches, InFlight, ObjectsOf
<1>2. Updates' = Updates \union {S}
  BY <1>1 DEF UpdatesExact, Launches
<1>3. S \cap UNION Updates = {}
  <2>1. \A m \in InFlight : ObjectsOf(m) \cap S = {}
    BY FlightObjects DEF Launches, InFlight
  <2> QED
    BY <2>1 DEF UpdatesExact
<1> QED
  BY <1>2, <1>3 DEF Launches, Contract!Commit

LEMMA ContractApply ==
  ASSUME IInv, UpdatesExact, UpdatesExact', NEW k \in Commits, Lands(k)
  PROVE  /\ ObjectsOf(k) \in (SUBSET Objects) \ {{}}
         /\ Contract!Apply(ObjectsOf(k))
<1>1. /\ InFlight' = InFlight \ {k} /\ k \in InFlight
      /\ \A m : ObjectsOf(m)' = ObjectsOf(m)
  BY DEF Lands, InFlight, ObjectsOf
<1>2. ObjectsOf(k) \in (SUBSET Objects) \ {{}}
  BY <1>1, FlightObjects
<1>3. \A m \in InFlight : m # k => ObjectsOf(m) # ObjectsOf(k)
  <2>1. Res(k)
    BY <1>1, FlightRes DEF InFlight
  <2> QED
    BY <1>2, <2>1, FlightObjects
<1>4. Updates' = Updates \ {ObjectsOf(k)} /\ ObjectsOf(k) \in Updates
  BY <1>1, <1>3 DEF UpdatesExact
<1>5. hw' = [o \in Objects |-> IF o \in ObjectsOf(k) THEN hw[o] + 1 ELSE hw[o]]
  <2>1. \A o \in ObjectsOf(k) : o \in Objects => sw[o] = hw[o] + 1
    BY <1>1 DEF IInv, BackInv, LagInv, Flying, InFlight
  <2> QED
    BY <2>1 DEF Lands
<1> QED
  BY <1>2, <1>4, <1>5 DEF Lands, Contract!Apply

(* msm_atomic.c implements CommitContract: an update is swapped in as a    *)
(* whole on top of one that the hardware has taken, and is programmed as a *)
(* whole, once.  (That it is programmed at all is left to TLC.)            *)
THEOREM Implements == Spec => Contract!Spec
<1>1. Init => Contract!Init
  BY ContractInit
<1>2. IInv => UpdatesExact
  BY FlightUpdates
<1>3. IInv /\ UpdatesExact /\ UpdatesExact' /\ [Next]_vars
        => [Contract!Next]_(Contract!vars)
  <2> SUFFICES ASSUME IInv, UpdatesExact, UpdatesExact', [Next]_vars
               PROVE  Contract!Next \/ UNCHANGED Contract!vars
    OBVIOUS
  <2>1. CASE FlightKept
    BY <2>1, ContractKept
  <2>2. ASSUME NEW c \in Clients, Launches(commit[c], request[c].objects),
               request[c] \in States
        PROVE  Contract!Next
    <3>1. request[c].objects \in (SUBSET Objects) \ {{}}
      BY <2>2 DEF States
    <3> QED
      BY <2>2, <3>1, ContractCommit DEF Contract!Next
  <2>3. ASSUME NEW k \in Commits, Lands(k) PROVE Contract!Next
    BY <2>3, ContractApply DEF Contract!Next
  <2> QED
    BY <2>1, <2>2, <2>3, NextInv DEF Mapped
<1> QED
  BY <1>1, <1>2, <1>3, Invariance, PTL DEF Spec, Contract!Spec

(* No CRTC and no plane ever has a second update swapped in before the     *)
(* hardware took the first.                                                *)
THEOREM HardwareOneBehind == Spec => []Contract!OneBehind
<1>1. IInv => Contract!OneBehind
  <2> SUFFICES ASSUME IInv, NEW o \in Objects
               PROVE  sw[o] = hw[o] + (IF o \in UNION Updates THEN 1 ELSE 0)
    BY DEF Contract!OneBehind
  <2>1. o \in UNION Updates <=> Flying(o)
    BY FlightUpdates DEF UpdatesExact, InFlight, Flying
  <2> QED
    BY <2>1 DEF IInv, BackInv, LagInv
<1> QED
  BY <1>1, Invariance, PTL
=============================================================================
