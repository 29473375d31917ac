-------------------------- MODULE VmHandoverProofs --------------------------
(***************************************************************************)
(* The hand-over of the display hardware, proved for any number of         *)
(* interrupt lines and parcels.                                            *)
(*                                                                         *)
(* The inductive invariant IInv relates three things: what the hypervisor  *)
(* has given to whom (mem, irq, parcel, notices), what each VM has written *)
(* down about it (handle, n_irq_lent) and where its client and its worker  *)
(* are.  Memory and Lines say that the handle of the primary VM and the    *)
(* count of the trusted VM are exact, Notices that a notification on its   *)
(* way is newer than what the trusted VM holds, PrimaryJob and TrustedJob  *)
(* what each step of a hand-over may rely on, Local and AtRest how the     *)
(* request of a VM goes with its ownership.                                *)
(*                                                                         *)
(* It holds when the notification of a release does not fail once a line   *)
(* could not be given back, in that release or an earlier one              *)
(* (~TwoFailures): when both fail, the trusted VM keeps a handle and a     *)
(* count for memory that it has given back.  What is said of the hardware  *)
(* being used, and the refinement, further takes a user space that does not*)
(* ask for the hardware before the VM's release has been completed         *)
(* (~Eager); the run VmHandoverEager shows what happens otherwise.         *)
(***************************************************************************)
EXTENDS VmHandover, SequenceTheorems, TLAPS

Lending == {"lend_mem", "notify", "lend_irq"}
Reclaiming == {"reclaim_mem", "reclaim_irq"}
Accepting == {"accept_mem", "accept_irq"}
Releasing == {"release_irq", "release_mem"}
Committing == {"prepare", "frame", "pre_release", "release"}

(* The memory and its notices.                                             *)
Memory ==
  /\ mem = "home" <=> handle[Primary] < 0
  /\ handle[Primary] >= 0 => handle[Primary] = parcel /\ parcel >= 1
  /\ handle[Trusted] <= parcel
  /\ n_irq_lent[Trusted] > 0 => mem = "accepted" \/ handle[Trusted] < 0
  /\ n_irq_lent[Trusted] > 0 \/ mem = "accepted" => notices = <<>>
Notices ==
  /\ \A k \in 1 .. Len(notices) :
       handle[Trusted] < notices[k] /\ notices[k] <= parcel
  /\ \A j, k \in 1 .. Len(notices) : j < k => notices[j] < notices[k]

(* The lines.                                                              *)
Accepted == \A i \in Irqs : irq[i] = "accepted" <=> i <= n_irq_lent[Trusted]
Counted == \A i \in Irqs : irq[i] # "home" => i <= n_irq_lent[Primary]
Forgotten ==
  /\ handle[Primary] < 0 /\ n_irq_lent[Primary] = 0 /\ Primary \in damaged
  /\ req[Primary] = "RELEASE" /\ client[Primary] = "idle"
  /\ worker[Primary] = "idle" /\ job[Primary] = "none"
Lines == Accepted /\ (Counted \/ Forgotten)

(* What each job relies on.                                                *)
PrimaryJob ==
  /\ job[Primary] \in {"none"} \union Lending \union Reclaiming
  /\ job[Primary] \in Lending => holder[Primary] = "worker"
  /\ job[Primary] = "lend_mem" => Owns(Primary)
  /\ job[Primary] = "notify" =>
       /\ mem = "lent" /\ n_irq_lent[Primary] = 0
       /\ handle[Trusted] < parcel
       /\ \A k \in 1 .. Len(notices) : notices[k] < parcel
  /\ job[Primary] = "lend_irq" => handle[Primary] >= 0
  /\ job[Primary] = "reclaim_irq" => handle[Primary] < 0
  /\ job[Primary] \in Reclaiming /\ holder[Primary] = "worker" =>
       Primary \in damaged
TrustedJob ==
  /\ job[Trusted] \in {"none"} \union Accepting \union Releasing
  /\ job[Trusted] \in Accepting => holder[Trusted] = "client"
  /\ job[Trusted] = "accept_irq" => mem = "accepted" /\ handle[Trusted] = parcel
  /\ job[Trusted] = "release_mem" =>
       n_irq_lent[Trusted] = 0 \/ Trusted \in damaged

(* The client and the worker of a VM.  That of the trusted VM may come too *)
(* early, before the worker has given everything back.                     *)
Waits(v) == v = Primary \/ ~Eager
Threads(v) ==
  /\ job[v] # "none" <=> holder[v] \in {"client", "worker"}
  /\ holder[v] = "client" <=> client[v] = "acquiring"
  /\ holder[v] = "worker" <=> worker[v] = "releasing"
  /\ client[v] = "acquiring" => asked[v] = "ACQUIRE"
  /\ client[v] # "idle" /\ asked[v] = "ACQUIRE" => req[v] = "RELEASE"
  /\ client[v] # "idle" /\ asked[v] # "ACQUIRE" => req[v] # "RELEASE"
  /\ worker[v] # "idle" => work[v] = req[v]
  /\ worker[v] \in {"pre_release", "release", "releasing"} =>
       req[v] = "RELEASE"
InTurn(v) ==
  /\ worker[v] # "idle" /\ req[v] = "RELEASE" => client[v] = "idle"
  /\ \/ req[v] # "RELEASE"
     \/ worker[v] \in Committing
     \/ client[v] = "checked"
     \/ holder[v] = "visitor"
     => Owns(v)
Local(v) == Threads(v) /\ (Waits(v) => InTurn(v))
AtRest ==
  /\ req[Primary] = "RELEASE" /\ worker[Primary] = "idle"
  /\ client[Primary] = "idle" /\ Owns(Primary)
  => Primary \in damaged

IInv ==
  /\ TypeOK /\ Memory /\ Notices /\ Lines /\ PrimaryJob /\ TrustedJob
  /\ (\A v \in VMs : Local(v)) /\ AtRest

-----------------------------------------------------------------------------
(* Helpers.                                                                *)
LEMMA TwoVMs ==
  /\ VMs = {Primary, Trusted} /\ Primary # Trusted /\ Waits(Primary)
  /\ NumIrqs \in Nat /\ NumIrqs >= 1 /\ 1 \in Irqs
BY VMsAssumption, NumIrqsAssumption DEF VMs, Irqs, Waits

LEMMA Numbers ==
  ASSUME TypeOK
  PROVE  /\ parcel \in Nat /\ MaxParcels \in Nat /\ parcel <= MaxParcels
         /\ \A v \in VMs : handle[v] \in Int /\ handle[v] >= -1
         /\ \A v \in VMs : n_irq_lent[v] \in Nat /\ n_irq_lent[v] <= NumIrqs
<1>1. parcel \in 0 .. MaxParcels /\ MaxParcels \in Nat
  BY BoundsAssumption DEF TypeOK
<1>2. \A v \in VMs : handle[v] \in -1 .. MaxParcels
  BY DEF TypeOK
<1>3. \A v \in VMs : n_irq_lent[v] \in 0 .. NumIrqs
  BY DEF TypeOK
<1> QED BY <1>1, <1>2, <1>3, TwoVMs

LEMMA NoticesTyped ==
  ASSUME TypeOK
  PROVE  /\ Len(notices) \in Nat
         /\ \A k \in 1 .. Len(notices) :
              notices[k] \in 1 .. MaxParcels /\ notices[k] \in Nat
<1>1. notices \in Seq(1 .. MaxParcels)
  BY DEF TypeOK
<1>2. Len(notices) \in Nat /\ DOMAIN notices = 1 .. Len(notices)
  BY <1>1
<1>3. ASSUME NEW k \in 1 .. Len(notices)
      PROVE  notices[k] \in 1 .. MaxParcels /\ notices[k] \in Nat
  <2>1. notices[k] \in 1 .. MaxParcels
    BY <1>1, <1>2, ElementOfSeq
  <2> QED BY <2>1
<1> QED BY <1>2, <1>3

LEMMA OwnsPrimary ==
  Owns(Primary) <=> n_irq_lent[Primary] = 0 /\ handle[Primary] < 0
BY DEF Owns
LEMMA OwnsPrimaryNext ==
  Owns(Primary)' <=> n_irq_lent'[Primary] = 0 /\ handle'[Primary] < 0
BY DEF Owns
LEMMA OwnsTrusted ==
  Owns(Trusted) <=> n_irq_lent[Trusted] = NumIrqs /\ handle[Trusted] >= 0
BY TwoVMs DEF Owns
LEMMA OwnsTrustedNext ==
  Owns(Trusted)' <=> n_irq_lent'[Trusted] = NumIrqs /\ handle'[Trusted] >= 0
BY TwoVMs DEF Owns
LEMMA OwnsKept ==
  ASSUME NEW v \in VMs, handle'[v] = handle[v], n_irq_lent'[v] = n_irq_lent[v]
  PROVE  Owns(v)' <=> Owns(v)
BY DEF Owns

(* What the building blocks of the actions do, VM by VM.                   *)
LEMMA GotoDoes ==
  ASSUME TypeOK, NEW v \in VMs, NEW what \in Jobs, Goto(v, what)
  PROVE  /\ job' \in [VMs -> Jobs] /\ job'[v] = what
         /\ \A w \in VMs \ {v} : job'[w] = job[w]
         /\ UNCHANGED <<holder, req, client, asked, worker, work>>
BY DEF TypeOK, Goto, commits

LEMMA HandleDoes ==
  ASSUME TypeOK, NEW v \in VMs, NEW h \in -1 .. MaxParcels, Handle(v, h)
  PROVE  /\ handle' \in [VMs -> -1 .. MaxParcels] /\ handle'[v] = h
         /\ \A w \in VMs \ {v} : handle'[w] = handle[w]
BY DEF TypeOK, Handle

LEMMA CountDoes ==
  ASSUME TypeOK, NEW v \in VMs, NEW n \in 0 .. NumIrqs, Count(v, n)
  PROVE  /\ n_irq_lent' \in [VMs -> 0 .. NumIrqs] /\ n_irq_lent'[v] = n
         /\ \A w \in VMs \ {v} : n_irq_lent'[w] = n_irq_lent[w]
BY DEF TypeOK, Count

LEMMA LineDoes ==
  ASSUME TypeOK, NEW i \in Irqs, NEW place \in Places, Line(i, place)
  PROVE  /\ irq' \in [Irqs -> Places] /\ irq'[i] = place
         /\ \A j \in Irqs \ {i} : irq'[j] = irq[j]
BY DEF TypeOK, Line

LEMMA DoneDoes ==
  ASSUME TypeOK, NEW v \in VMs, NEW ok \in BOOLEAN, Done(v, ok)
  PROVE  /\ holder' \in [VMs -> {"none", "client", "worker", "visitor"}]
         /\ job' \in [VMs -> Jobs]
         /\ client' \in [VMs -> {"idle", "acquiring", "checked"}]
         /\ worker' \in [VMs -> {"idle", "prepare", "frame", "pre_release",
                                 "release", "releasing"}]
         /\ holder'[v] = "none" /\ job'[v] = "none"
         /\ holder[v] = "client" =>
              /\ client'[v] = IF ok THEN "checked" ELSE "idle"
              /\ worker'[v] = worker[v]
         /\ holder[v] # "client" =>
              client'[v] = client[v] /\ worker'[v] = "idle"
         /\ UNCHANGED <<req, asked, work>>
<1>1. "none" \in Jobs
  BY DEF Jobs
<1>2. CASE holder[v] = "client"
  BY <1>1, <1>2 DEF TypeOK, Done
<1>3. CASE holder[v] # "client"
  BY <1>1, <1>3 DEF TypeOK, Done
<1> QED BY <1>2, <1>3

LEMMA DoneElsewhere ==
  ASSUME TypeOK, NEW v \in VMs, NEW ok \in BOOLEAN, Done(v, ok),
         NEW w \in VMs, w # v
  PROVE  /\ holder'[w] = holder[w] /\ job'[w] = job[w]
         /\ client'[w] = client[w] /\ worker'[w] = worker[w]
BY DEF TypeOK, Done

-----------------------------------------------------------------------------
(* The client and the worker of a VM of which nothing changes.             *)
LEMMA LocalKept ==
  ASSUME NEW w \in VMs, Local(w),
         job'[w] = job[w], holder'[w] = holder[w], client'[w] = client[w],
         asked'[w] = asked[w], req'[w] = req[w], worker'[w] = worker[w],
         work'[w] = work[w], Owns(w) => Owns(w)'
  PROVE  Local(w)'
BY DEF Local, Threads, InTurn

(* A job goes on: whatever becomes of the handle and the count.            *)
LEMMA InJob ==
  ASSUME NEW v \in VMs, Local(v), job[v] # "none", job'[v] # "none",
         UNCHANGED <<holder, req, client, asked, worker, work>>
  PROVE  Local(v)'
BY DEF Local, Threads, InTurn, Committing

(* A job ends, with the hardware when it has succeeded for a client.       *)
LEMMA JobEnds ==
  ASSUME NEW v \in VMs, NEW ok \in BOOLEAN, TypeOK, Local(v),
         job[v] # "none", Done(v, ok), holder[v] = "client" /\ ok => Owns(v)'
  PROVE  Local(v)'
<1>1. /\ holder'[v] = "none" /\ job'[v] = "none"
      /\ UNCHANGED <<req, asked, work>>
  BY DoneDoes
<1>2. CASE holder[v] = "client"
  <2>1. /\ client'[v] = IF ok THEN "checked" ELSE "idle"
        /\ worker'[v] = worker[v]
    BY <1>2, DoneDoes
  <2>2. client[v] = "acquiring" /\ asked[v] = "ACQUIRE" /\ req[v] = "RELEASE"
    BY <1>2 DEF Local, Threads, InTurn
  <2>3. Waits(v) => worker[v] = "idle"
    BY <2>2 DEF Local, Threads, InTurn
  <2> QED BY <1>1, <1>2, <2>1, <2>2, <2>3 DEF Local, Threads, InTurn, Committing
<1>3. CASE holder[v] # "client"
  <2>1. client'[v] = client[v] /\ worker'[v] = "idle"
    BY <1>3, DoneDoes
  <2>2. worker[v] = "releasing"
    BY <1>3 DEF Local, Threads, InTurn
  <2>3. req[v] = "RELEASE" /\ (Waits(v) => client[v] = "idle")
    BY <2>2 DEF Local, Threads, InTurn
  <2> QED BY <1>1, <1>3, <2>1, <2>2, <2>3 DEF Local, Threads, InTurn, Committing
<1> QED BY <1>2, <1>3

(* Nobody gives way to the other VM's jobs.                                *)
LEMMA InAJob ==
  ASSUME NEW v \in VMs, Waits(v), Local(v), job[v] # "none"
  PROVE  /\ req[v] = "RELEASE" /\ client[v] # "checked"
         /\ worker[v] \notin Committing /\ holder[v] \in {"client", "worker"}
         /\ holder[v] = "client" => client[v] = "acquiring" /\ worker[v] = "idle"
         /\ holder[v] = "worker" => client[v] = "idle" /\ worker[v] = "releasing"
BY DEF Local, Threads, InTurn, Committing

(* While the primary VM has all lines the trusted one has none.            *)
LEMMA NothingAccepted ==
  ASSUME TypeOK, Lines, n_irq_lent[Primary] = 0, ~Forgotten
  PROVE  n_irq_lent[Trusted] = 0 /\ \A i \in Irqs : irq[i] = "home"
<1>1. \A i \in Irqs : i \in Nat /\ i >= 1
  BY DEF Irqs
<1>2. \A i \in Irqs : irq[i] = "home"
  BY <1>1 DEF Lines, Counted
<1>3. ~(1 <= n_irq_lent[Trusted])
  BY <1>2, TwoVMs DEF Lines, Accepted
<1>4. n_irq_lent[Trusted] \in Nat
  BY Numbers, TwoVMs
<1> QED BY <1>2, <1>3, <1>4

(* The type invariant in parts.                                            *)
MemType == mem \in Places /\ parcel \in 0 .. MaxParcels
NoticeType == notices \in Seq(1 .. MaxParcels)
LineType == irq \in [Irqs -> Places]
VmType ==
  /\ handle \in [VMs -> -1 .. MaxParcels]
  /\ n_irq_lent \in [VMs -> 0 .. NumIrqs]
JobType ==
  /\ holder \in [VMs -> {"none", "client", "worker", "visitor"}]
  /\ job \in [VMs -> Jobs]
ThreadType ==
  /\ client \in [VMs -> {"idle", "acquiring", "checked"}]
  /\ worker \in [VMs -> {"idle", "prepare", "frame", "pre_release", "release",
                         "releasing"}]
RequestType ==
  /\ req \in [VMs -> Requests] /\ asked \in [VMs -> Requests]
  /\ work \in [VMs -> Requests]
DamageType == damaged \subseteq VMs

LEMMA Types ==
  TypeOK <=> /\ MemType /\ NoticeType /\ LineType /\ VmType /\ JobType
             /\ ThreadType /\ RequestType /\ DamageType
BY DEF TypeOK, MemType, NoticeType, LineType, VmType, JobType, ThreadType,
  RequestType, DamageType
LEMMA TypesNext ==
  TypeOK' <=> /\ MemType' /\ NoticeType' /\ LineType' /\ VmType' /\ JobType'
              /\ ThreadType' /\ RequestType' /\ DamageType'
BY DEF TypeOK, MemType, NoticeType, LineType, VmType, JobType, ThreadType,
  RequestType, DamageType
LEMMA TypesKept ==
  /\ MemType /\ UNCHANGED <<mem, parcel>> => MemType'
  /\ NoticeType /\ UNCHANGED notices => NoticeType'
  /\ LineType /\ UNCHANGED irq => LineType'
  /\ VmType /\ UNCHANGED <<handle, n_irq_lent>> => VmType'
  /\ JobType /\ UNCHANGED <<holder, job>> => JobType'
  /\ ThreadType /\ UNCHANGED <<client, worker>> => ThreadType'
  /\ RequestType /\ UNCHANGED <<req, asked, work>> => RequestType'
  /\ DamageType /\ UNCHANGED damaged => DamageType'
BY DEF MemType, NoticeType, LineType, VmType, JobType, ThreadType,
  RequestType, DamageType

LEMMA JobsListed ==
  /\ "none" \in Jobs /\ "lend_mem" \in Jobs /\ "notify" \in Jobs
  /\ "lend_irq" \in Jobs /\ "reclaim_mem" \in Jobs /\ "reclaim_irq" \in Jobs
  /\ "accept_mem" \in Jobs /\ "accept_irq" \in Jobs
  /\ "release_irq" \in Jobs /\ "release_mem" \in Jobs
BY DEF Jobs

(* A job that goes on, or a loop of it that takes another turn.            *)
LEMMA PrimaryGoesOn ==
  ASSUME IInv, job[Primary] # "none", job'[Primary] # "none",
         job'[Trusted] = job[Trusted],
         UNCHANGED <<holder, req, client, asked, worker, work>>,
         handle'[Trusted] = handle[Trusted],
         n_irq_lent'[Trusted] = n_irq_lent[Trusted],
         Primary \in damaged => Primary \in damaged'
  PROVE  (\A v \in VMs : Local(v)') /\ AtRest' /\ ~Forgotten /\ Counted
<1>1. Local(Primary) /\ Local(Trusted)
  BY TwoVMs DEF IInv
<1>2. Local(Primary)'
  BY <1>1, InJob, TwoVMs
<1>3. Local(Trusted)'
  BY <1>1, LocalKept, OwnsKept, TwoVMs
<1>4. client[Primary] # "idle" \/ worker[Primary] # "idle"
  BY <1>1, InAJob, TwoVMs
<1>5. AtRest'
  BY <1>4 DEF AtRest
<1>6. ~Forgotten
  BY DEF Forgotten
<1> QED BY <1>2, <1>3, <1>5, <1>6, TwoVMs DEF IInv, Lines

LEMMA TrustedGoesOn ==
  ASSUME IInv, job[Trusted] # "none", job'[Trusted] # "none",
         job'[Primary] = job[Primary],
         UNCHANGED <<holder, req, client, asked, worker, work>>,
         handle'[Primary] = handle[Primary],
         n_irq_lent'[Primary] = n_irq_lent[Primary],
         Primary \in damaged => Primary \in damaged'
  PROVE  (\A v \in VMs : Local(v)') /\ AtRest' /\ (Forgotten => Forgotten')
<1>1. Local(Primary) /\ Local(Trusted)
  BY TwoVMs DEF IInv
<1>2. Local(Trusted)'
  BY <1>1, InJob, TwoVMs
<1>3. Owns(Primary)' <=> Owns(Primary)
  BY OwnsKept, TwoVMs
<1>4. Local(Primary)'
  BY <1>1, <1>3, LocalKept, TwoVMs
<1>5. AtRest'
  BY <1>3 DEF IInv, AtRest
<1>6. Forgotten => Forgotten'
  BY DEF Forgotten
<1> QED BY <1>2, <1>4, <1>5, <1>6, TwoVMs

-----------------------------------------------------------------------------
(* The primary VM lends.                                                   *)
LEMMA LendMemInv ==
  ASSUME IInv, NEW v \in VMs, LendMem(v)
  PROVE  IInv'
<1>1. v = Primary /\ job[Primary] = "lend_mem"
  BY TwoVMs DEF LendMem, IInv, TrustedJob, Accepting, Releasing
<1>2. /\ n_irq_lent[Primary] = 0 /\ handle[Primary] < 0 /\ mem = "home"
      /\ holder[Primary] = "worker"
  BY <1>1, OwnsPrimary DEF IInv, PrimaryJob, Memory, Lending
<1>3. UNCHANGED <<irq, notices, n_irq_lent>>
  BY DEF LendMem
<1>4. TypeOK
  BY DEF IInv
<1>5. CASE /\ mem = "home" /\ parcel < MaxParcels
           /\ mem' = "lent" /\ parcel' = parcel + 1
           /\ Handle(Primary, parcel + 1) /\ Goto(Primary, "notify")
           /\ UNCHANGED damaged
  <2>1. parcel + 1 \in -1 .. MaxParcels /\ parcel + 1 \in 0 .. MaxParcels
    BY <1>4, <1>5, Numbers
  <2>2. /\ handle' \in [VMs -> -1 .. MaxParcels] /\ handle'[Primary] = parcel + 1
        /\ handle'[Trusted] = handle[Trusted]
    BY <1>4, <1>5, <2>1, HandleDoes, TwoVMs
  <2>3. /\ job' \in [VMs -> Jobs] /\ job'[Primary] = "notify"
        /\ job'[Trusted] = job[Trusted]
        /\ UNCHANGED <<holder, req, client, asked, worker, work>>
    BY <1>4, <1>5, GotoDoes, JobsListed, TwoVMs
  <2>4. TypeOK'
    <3>1. MemType'
      BY <1>5, <2>1 DEF MemType, Places
    <3>2. VmType' /\ JobType'
      BY <1>3, <2>2, <2>3, <1>4, Types DEF VmType, JobType
    <3> QED BY <1>3, <1>4, <1>5, <2>3, <3>1, <3>2, Types, TypesKept, TypesNext
  <2>5. (\A w \in VMs : Local(w)') /\ AtRest' /\ ~Forgotten /\ Counted
    BY <1>1, <1>3, <1>5, <2>2, <2>3, PrimaryGoesOn
  <2>6. n_irq_lent[Trusted] = 0
    BY <1>2, <1>4, <2>5, NothingAccepted DEF IInv
  <2>7. Memory'
    <3>1. parcel \in Nat /\ handle[Trusted] \in Int /\ handle[Trusted] <= parcel
      BY <1>4, Numbers, TwoVMs DEF IInv, Memory
    <3> QED BY <1>3, <1>5, <2>2, <2>6, <3>1 DEF Memory
  <2>8. Notices' /\ (\A k \in 1 .. Len(notices) : notices[k] < parcel')
    <3>1. \A k \in 1 .. Len(notices) : notices[k] \in Nat
      BY <1>4, NoticesTyped
    <3>2. parcel \in Nat /\ parcel' = parcel + 1
      BY <1>4, <1>5, Numbers
    <3> QED BY <1>3, <2>2, <3>1, <3>2 DEF IInv, Notices
  <2>9. Lines'
    BY <1>3, <2>5 DEF IInv, Lines, Accepted, Counted
  <2>10. handle'[Trusted] < parcel'
    BY <1>4, <1>5, <2>2, Numbers, TwoVMs DEF IInv, Memory
  <2>11. PrimaryJob'
    BY <1>2, <1>3, <1>5, <2>3, <2>8, <2>10 DEF PrimaryJob, Lending, Reclaiming
  <2>12. TrustedJob'
    BY <1>2, <1>3, <1>5, <2>3 DEF IInv, TrustedJob
  <2> QED BY <2>4, <2>5, <2>7, <2>8, <2>9, <2>11, <2>12 DEF IInv
<1>6. CASE Goto(Primary, "reclaim_mem") /\ Damage(Primary)
           /\ UNCHANGED <<mem, parcel, handle>>
  <2>1. /\ job' \in [VMs -> Jobs] /\ job'[Primary] = "reclaim_mem"
        /\ job'[Trusted] = job[Trusted]
        /\ UNCHANGED <<holder, req, client, asked, worker, work>>
    BY <1>4, <1>6, GotoDoes, JobsListed, TwoVMs
  <2>2. damaged' = damaged \union {Primary}
    BY <1>6 DEF Damage
  <2>3. TypeOK'
    <3>1. JobType' /\ DamageType'
      BY <1>4, <2>1, <2>2, Types, TwoVMs DEF JobType, DamageType
    <3> QED BY <1>3, <1>4, <1>6, <2>1, <3>1, Types, TypesKept, TypesNext
  <2>4. (\A w \in VMs : Local(w)') /\ AtRest' /\ ~Forgotten /\ Counted
    BY <1>1, <1>3, <1>6, <2>1, <2>2, PrimaryGoesOn
  <2>5. Memory' /\ Notices'
    BY <1>3, <1>6 DEF IInv, Memory, Notices
  <2>6. Lines'
    BY <1>3, <2>4 DEF IInv, Lines, Accepted, Counted
  <2>7. PrimaryJob'
    BY <2>1, <2>2 DEF PrimaryJob, Lending, Reclaiming
  <2>8. TrustedJob'
    BY <1>3, <1>6, <2>1, <2>2 DEF IInv, TrustedJob
  <2> QED BY <2>3, <2>4, <2>5, <2>6, <2>7, <2>8 DEF IInv
<1> QED BY <1>1, <1>5, <1>6 DEF LendMem

LEMMA NotifyMemInv ==
  ASSUME IInv, NEW v \in VMs, NotifyMem(v)
  PROVE  IInv'
<1>1. v = Primary /\ job[Primary] = "notify"
  BY TwoVMs DEF NotifyMem, IInv, TrustedJob, Accepting, Releasing
<1>2. /\ mem = "lent" /\ n_irq_lent[Primary] = 0 /\ handle[Trusted] < parcel
      /\ holder[Primary] = "worker"
      /\ \A k \in 1 .. Len(notices) : notices[k] < parcel
  BY <1>1 DEF IInv, PrimaryJob, Lending
<1>3. UNCHANGED <<mem, irq, parcel, handle, n_irq_lent>>
  BY DEF NotifyMem, vm
<1>4. TypeOK
  BY DEF IInv
<1>5. handle[Primary] = parcel /\ parcel \in 1 .. MaxParcels
  <2>1. handle[Primary] >= 0
    BY <1>2, <1>4, Numbers, TwoVMs DEF IInv, Memory
  <2> QED BY <1>4, <2>1, Numbers DEF IInv, Memory
<1>6. CASE notices' = Append(notices, handle[Primary])
           /\ Goto(Primary, "lend_irq") /\ UNCHANGED damaged
  <2>1. /\ job' \in [VMs -> Jobs] /\ job'[Primary] = "lend_irq"
        /\ job'[Trusted] = job[Trusted]
        /\ UNCHANGED <<holder, req, client, asked, worker, work>>
    BY <1>4, <1>6, GotoDoes, JobsListed, TwoVMs
  <2>2. TypeOK'
    <3>1. JobType'
      BY <1>4, <2>1, Types DEF JobType
    <3>2. NoticeType'
      BY <1>4, <1>5, <1>6, Types DEF NoticeType
    <3> QED BY <1>3, <1>4, <1>6, <2>1, <3>1, <3>2, Types, TypesKept, TypesNext
  <2>3. (\A w \in VMs : Local(w)') /\ AtRest' /\ ~Forgotten /\ Counted
    BY <1>1, <1>3, <1>6, <2>1, PrimaryGoesOn
  <2>4. n_irq_lent[Trusted] = 0
    BY <1>2, <1>4, <2>3, NothingAccepted DEF IInv
  <2>5. Memory'
    BY <1>2, <1>3, <2>4 DEF IInv, Memory
  <2>6. Notices'
    <3>1. notices \in Seq(1 .. MaxParcels)
      BY <1>4 DEF TypeOK
    <3>2. /\ Len(notices') = Len(notices) + 1 /\ Len(notices) \in Nat
          /\ \A k \in 1 .. Len(notices) : notices'[k] = notices[k]
          /\ notices'[Len(notices) + 1] = parcel
      BY <1>5, <1>6, <3>1
    <3>3. \A k \in 1 .. Len(notices') :
             k \in 1 .. Len(notices) \/ k = Len(notices) + 1
      BY <3>2
    <3>4. \A k \in 1 .. Len(notices') :
             handle'[Trusted] < notices'[k] /\ notices'[k] <= parcel'
      BY <1>2, <1>3, <1>5, <3>2, <3>3 DEF IInv, Notices
    <3>5. \A j, k \in 1 .. Len(notices') : j < k => notices'[j] < notices'[k]
      <4>1. SUFFICES ASSUME NEW j \in 1 .. Len(notices'),
                            NEW k \in 1 .. Len(notices'), j < k
                     PROVE  notices'[j] < notices'[k]
        OBVIOUS
      <4>2. j \in 1 .. Len(notices)
        BY <4>1, <3>2
      <4>3. CASE k \in 1 .. Len(notices)
        BY <4>1, <4>2, <4>3, <3>2 DEF IInv, Notices
      <4>4. CASE k = Len(notices) + 1
        BY <4>2, <4>4, <3>2, <1>2
      <4> QED BY <3>3, <4>3, <4>4
    <3> QED BY <3>4, <3>5 DEF Notices
  <2>7. Lines'
    BY <1>3, <2>3 DEF IInv, Lines, Accepted, Counted
  <2>8. PrimaryJob'
    <3>1. handle[Primary] >= 0
      BY <1>5
    <3> QED BY <1>2, <1>3, <2>1, <3>1 DEF PrimaryJob, Lending, Reclaiming
  <2>9. TrustedJob'
    BY <1>3, <1>6, <2>1 DEF IInv, TrustedJob
  <2> QED BY <2>2, <2>3, <2>5, <2>6, <2>7, <2>8, <2>9 DEF IInv
<1>7. CASE Goto(Primary, "reclaim_mem") /\ Damage(Primary) /\ UNCHANGED notices
  <2>1. /\ job' \in [VMs -> Jobs] /\ job'[Primary] = "reclaim_mem"
        /\ job'[Trusted] = job[Trusted]
        /\ UNCHANGED <<holder, req, client, asked, worker, work>>
    BY <1>4, <1>7, GotoDoes, JobsListed, TwoVMs
  <2>2. damaged' = damaged \union {Primary}
    BY <1>7 DEF Damage
  <2>3. TypeOK'
    <3>1. JobType' /\ DamageType'
      BY <1>4, <2>1, <2>2, Types, TwoVMs DEF JobType, DamageType
    <3> QED BY <1>3, <1>4, <1>7, <2>1, <3>1, Types, TypesKept, TypesNext
  <2>4. (\A w \in VMs : Local(w)') /\ AtRest' /\ ~Forgotten /\ Counted
    BY <1>1, <1>3, <2>1, <2>2, PrimaryGoesOn
  <2>5. Memory' /\ Notices'
    BY <1>3, <1>7 DEF IInv, Memory, Notices
  <2>6. Lines'
    BY <1>3, <2>4 DEF IInv, Lines, Accepted, Counted
  <2>7. PrimaryJob'
    BY <2>1, <2>2 DEF PrimaryJob, Lending, Reclaiming
  <2>8. TrustedJob'
    BY <1>3, <2>1, <2>2 DEF IInv, TrustedJob
  <2> QED BY <2>3, <2>4, <2>5, <2>6, <2>7, <2>8 DEF IInv
<1> QED BY <1>1, <1>6, <1>7 DEF NotifyMem

LEMMA LendIrqInv ==
  ASSUME IInv, NEW v \in VMs, LendIrq(v)
  PROVE  IInv'
<1>1. v = Primary /\ job[Primary] = "lend_irq"
  BY TwoVMs DEF LendIrq, IInv, TrustedJob, Accepting, Releasing
<1>2. handle[Primary] >= 0 /\ holder[Primary] = "worker" /\ mem # "home"
  <2>1. handle[Primary] >= 0 /\ holder[Primary] = "worker"
    BY <1>1 DEF IInv, PrimaryJob, Lending
  <2> QED BY <2>1, Numbers, TwoVMs DEF IInv, Memory
<1>3. UNCHANGED <<mem, parcel, notices, handle>>
  BY DEF LendIrq, hyp_irq
<1>4. TypeOK /\ n_irq_lent[Primary] \in Nat /\ n_irq_lent[Primary] <= NumIrqs
  BY Numbers, TwoVMs DEF IInv
<1>5. ~Forgotten /\ Counted
  BY <1>1 DEF IInv, Lines, Forgotten
<1>6. CASE /\ n_irq_lent[Primary] = NumIrqs /\ Done(Primary, TRUE)
           /\ UNCHANGED <<irq, n_irq_lent, damaged>>
  <2>1. /\ holder' \in [VMs -> {"none", "client", "worker", "visitor"}]
        /\ job' \in [VMs -> Jobs]
        /\ client' \in [VMs -> {"idle", "acquiring", "checked"}]
        /\ worker' \in [VMs -> {"idle", "prepare", "frame", "pre_release",
                                 "release", "releasing"}]
        /\ job'[Primary] = "none"
        /\ UNCHANGED <<req, asked, work>>
    BY <1>4, <1>6, DoneDoes, TwoVMs
  <2>2. /\ holder'[Trusted] = holder[Trusted] /\ job'[Trusted] = job[Trusted]
        /\ client'[Trusted] = client[Trusted]
        /\ worker'[Trusted] = worker[Trusted]
    BY <1>4, <1>6, DoneElsewhere, TwoVMs
  <2>3. TypeOK'
    <3>1. JobType' /\ ThreadType'
      BY <2>1 DEF JobType, ThreadType
    <3> QED BY <1>3, <1>4, <1>6, <2>1, <3>1, Types, TypesKept, TypesNext
  <2>4. Local(Primary)'
    BY <1>1, <1>2, <1>4, <1>6, JobEnds, TwoVMs DEF IInv
  <2>5. Local(Trusted)'
    BY <1>3, <1>6, <2>1, <2>2, LocalKept, OwnsKept, TwoVMs DEF IInv
  <2>6. ~Owns(Primary)'
    BY <1>4, <1>6, TwoVMs, OwnsPrimaryNext
  <2>7. AtRest'
    BY <2>6 DEF AtRest
  <2>8. Memory' /\ Notices'
    BY <1>3, <1>6 DEF IInv, Memory, Notices
  <2>9. Lines'
    BY <1>5, <1>6 DEF IInv, Lines, Accepted, Counted
  <2>10. PrimaryJob'
    BY <2>1 DEF PrimaryJob, Lending, Reclaiming
  <2>11. TrustedJob'
    BY <1>3, <1>6, <2>2 DEF IInv, TrustedJob
  <2> QED BY <2>3, <2>4, <2>5, <2>7, <2>8, <2>9, <2>10, <2>11, TwoVMs DEF IInv
<1>7. CASE /\ n_irq_lent[Primary] < NumIrqs
           /\ irq[n_irq_lent[Primary] + 1] = "home"
           /\ Line(n_irq_lent[Primary] + 1, "lent")
           /\ Count(Primary, n_irq_lent[Primary] + 1)
           /\ \/ UNCHANGED <<holder, job, commits, damaged>>
              \/ Goto(Primary, "reclaim_mem") /\ Damage(Primary)
  <2> DEFINE n == n_irq_lent[Primary] + 1
  <2>1. n \in Irqs /\ n \in 0 .. NumIrqs /\ "lent" \in Places
    BY <1>4, <1>7, TwoVMs DEF Irqs, Places
  <2>2. /\ irq' \in [Irqs -> Places] /\ irq'[n] = "lent"
        /\ \A j \in Irqs \ {n} : irq'[j] = irq[j]
    BY <1>4, <1>7, <2>1, LineDoes
  <2>3. /\ n_irq_lent' \in [VMs -> 0 .. NumIrqs] /\ n_irq_lent'[Primary] = n
        /\ n_irq_lent'[Trusted] = n_irq_lent[Trusted]
    BY <1>4, <1>7, <2>1, CountDoes, TwoVMs
  <2>4. /\ job' \in [VMs -> Jobs] /\ job'[Primary] \in {"lend_irq", "reclaim_mem"}
        /\ job'[Trusted] = job[Trusted]
        /\ UNCHANGED <<holder, req, client, asked, worker, work>>
        /\ damaged \subseteq damaged' /\ damaged' \subseteq VMs
        /\ (Trusted \in damaged' <=> Trusted \in damaged)
        /\ job'[Primary] = "reclaim_mem" => Primary \in damaged'
    <3>1. CASE UNCHANGED <<holder, job, commits, damaged>>
      BY <1>1, <1>4, <3>1 DEF commits, TypeOK
    <3>2. CASE Goto(Primary, "reclaim_mem") /\ Damage(Primary)
      <4>1. damaged' = damaged \union {Primary} /\ damaged \subseteq VMs
        BY <1>4, <3>2 DEF Damage, TypeOK
      <4> QED BY <1>4, <3>2, <4>1, GotoDoes, JobsListed, TwoVMs
    <3> QED BY <1>7, <3>1, <3>2
  <2> HIDE DEF n
  <2>5. TypeOK'
    <3>1. VmType' /\ LineType'
      BY <1>3, <1>4, <2>2, <2>3, Types DEF VmType, LineType
    <3>2. JobType' /\ DamageType'
      BY <1>4, <2>4, Types DEF JobType, DamageType
    <3> QED BY <1>3, <1>4, <2>4, <3>1, <3>2, Types, TypesKept, TypesNext
  <2>6. (\A w \in VMs : Local(w)') /\ AtRest'
    BY <1>1, <1>3, <2>3, <2>4, PrimaryGoesOn
  <2>7. Memory' /\ Notices'
    BY <1>3, <2>3 DEF IInv, Memory, Notices
  <2>8. Lines'
    <3>1. Accepted'
      <4>1. irq[n] # "accepted"
        BY <1>7 DEF n
      <4> QED BY <2>1, <2>2, <2>3, <4>1 DEF IInv, Lines, Accepted
    <3>2. Counted'
      <4>1. \A i \in Irqs : i \in Nat
        BY DEF Irqs
      <4>2. \A i \in Irqs : i <= n_irq_lent[Primary] => i <= n
        BY <1>4, <4>1 DEF n
      <4>3. n <= n
        BY <1>4 DEF n
      <4> QED BY <1>5, <2>1, <2>2, <2>3, <4>2, <4>3 DEF Counted
    <3> QED BY <3>1, <3>2 DEF Lines
  <2>9. PrimaryJob'
    BY <1>2, <1>3, <2>4 DEF PrimaryJob, Lending, Reclaiming
  <2>10. TrustedJob'
    BY <1>3, <2>3, <2>4 DEF IInv, TrustedJob
  <2> QED BY <2>5, <2>6, <2>7, <2>8, <2>9, <2>10 DEF IInv
<1>8. CASE /\ Goto(Primary, "reclaim_mem") /\ Damage(Primary)
           /\ UNCHANGED <<irq, n_irq_lent>>
  <2>1. /\ job' \in [VMs -> Jobs] /\ job'[Primary] = "reclaim_mem"
        /\ job'[Trusted] = job[Trusted]
        /\ UNCHANGED <<holder, req, client, asked, worker, work>>
    BY <1>4, <1>8, GotoDoes, JobsListed, TwoVMs
  <2>2. damaged' = damaged \union {Primary}
    BY <1>8 DEF Damage
  <2>3. TypeOK'
    <3>1. JobType' /\ DamageType'
      BY <1>4, <2>1, <2>2, Types, TwoVMs DEF JobType, DamageType
    <3> QED BY <1>3, <1>4, <1>8, <2>1, <3>1, Types, TypesKept, TypesNext
  <2>4. (\A w \in VMs : Local(w)') /\ AtRest'
    BY <1>1, <1>3, <1>8, <2>1, <2>2, PrimaryGoesOn
  <2>5. Memory' /\ Notices'
    BY <1>3, <1>8 DEF IInv, Memory, Notices
  <2>6. Lines'
    BY <1>5, <1>8 DEF IInv, Lines, Accepted, Counted
  <2>7. PrimaryJob'
    BY <2>1, <2>2 DEF PrimaryJob, Lending, Reclaiming
  <2>8. TrustedJob'
    BY <1>3, <1>8, <2>1, <2>2, TwoVMs DEF IInv, TrustedJob
  <2> QED BY <2>3, <2>4, <2>5, <2>6, <2>7, <2>8 DEF IInv
<1> QED BY <1>1, <1>6, <1>7, <1>8 DEF LendIrq

-----------------------------------------------------------------------------
(* A job ends.                                                             *)
LEMMA PrimaryEnds ==
  ASSUME IInv, NEW ok \in BOOLEAN, job[Primary] # "none", Done(Primary, ok),
         handle'[Trusted] = handle[Trusted],
         n_irq_lent'[Trusted] = n_irq_lent[Trusted],
         ok => Owns(Primary)'
  PROVE  /\ JobType' /\ ThreadType' /\ RequestType'
         /\ \A v \in VMs : Local(v)'
         /\ job'[Primary] = "none" /\ worker'[Primary] = "idle"
         /\ ~ok => client'[Primary] = "idle"
         /\ req' = req /\ req[Primary] = "RELEASE"
         /\ job'[Trusted] = job[Trusted] /\ holder'[Trusted] = holder[Trusted]
         /\ ~Forgotten /\ Counted
<1>1. TypeOK /\ Local(Primary) /\ Local(Trusted)
  BY TwoVMs DEF IInv
<1>2. /\ holder' \in [VMs -> {"none", "client", "worker", "visitor"}]
      /\ job' \in [VMs -> Jobs]
      /\ client' \in [VMs -> {"idle", "acquiring", "checked"}]
      /\ worker' \in [VMs -> {"idle", "prepare", "frame", "pre_release",
                              "release", "releasing"}]
      /\ job'[Primary] = "none"
      /\ UNCHANGED <<req, asked, work>>
  BY <1>1, DoneDoes, TwoVMs
<1>3. /\ holder'[Trusted] = holder[Trusted] /\ job'[Trusted] = job[Trusted]
      /\ client'[Trusted] = client[Trusted]
      /\ worker'[Trusted] = worker[Trusted]
  BY <1>1, DoneElsewhere, TwoVMs
<1>4. JobType' /\ ThreadType' /\ RequestType'
  BY <1>1, <1>2, Types, TypesKept DEF JobType, ThreadType
<1>5. Local(Primary)'
  BY <1>1, JobEnds, TwoVMs
<1>6. Local(Trusted)'
  BY <1>1, <1>2, <1>3, LocalKept, OwnsKept, TwoVMs
<1>7. /\ req[Primary] = "RELEASE" /\ holder[Primary] \in {"client", "worker"}
      /\ holder[Primary] = "client" => worker[Primary] = "idle"
      /\ holder[Primary] = "worker" => client[Primary] = "idle"
  BY <1>1, InAJob, TwoVMs
<1>8. /\ holder[Primary] = "client" =>
           /\ client'[Primary] = IF ok THEN "checked" ELSE "idle"
           /\ worker'[Primary] = worker[Primary]
      /\ holder[Primary] # "client" =>
           /\ client'[Primary] = client[Primary] /\ worker'[Primary] = "idle"
  BY <1>1, DoneDoes, TwoVMs
<1>9. ~Forgotten /\ Counted
  BY DEF IInv, Lines, Forgotten
<1> QED BY <1>2, <1>3, <1>4, <1>5, <1>6, <1>7, <1>8, <1>9, TwoVMs

LEMMA TrustedEnds ==
  ASSUME IInv, NEW ok \in BOOLEAN, job[Trusted] # "none", Done(Trusted, ok),
         handle'[Primary] = handle[Primary],
         n_irq_lent'[Primary] = n_irq_lent[Primary],
         Primary \in damaged => Primary \in damaged',
         holder[Trusted] = "client" /\ ok => Owns(Trusted)'
  PROVE  /\ JobType' /\ ThreadType' /\ RequestType'
         /\ \A v \in VMs : Local(v)'
         /\ job'[Trusted] = "none"
         /\ job'[Primary] = job[Primary] /\ holder'[Primary] = holder[Primary]
         /\ AtRest' /\ (Forgotten => Forgotten')
<1>1. TypeOK /\ Local(Primary) /\ Local(Trusted)
  BY TwoVMs DEF IInv
<1>2. /\ holder' \in [VMs -> {"none", "client", "worker", "visitor"}]
      /\ job' \in [VMs -> Jobs]
      /\ client' \in [VMs -> {"idle", "acquiring", "checked"}]
      /\ worker' \in [VMs -> {"idle", "prepare", "frame", "pre_release",
                              "release", "releasing"}]
      /\ job'[Trusted] = "none"
      /\ UNCHANGED <<req, asked, work>>
  BY <1>1, DoneDoes, TwoVMs
<1>3. /\ holder'[Primary] = holder[Primary] /\ job'[Primary] = job[Primary]
      /\ client'[Primary] = client[Primary]
      /\ worker'[Primary] = worker[Primary]
  BY <1>1, DoneElsewhere, TwoVMs
<1>4. JobType' /\ ThreadType' /\ RequestType'
  BY <1>1, <1>2, Types, TypesKept DEF JobType, ThreadType
<1>5. Local(Trusted)'
  BY <1>1, JobEnds, TwoVMs
<1>6. Owns(Primary)' <=> Owns(Primary)
  BY OwnsKept, TwoVMs
<1>7. Local(Primary)'
  BY <1>1, <1>2, <1>3, <1>6, LocalKept, TwoVMs
<1>8. AtRest'
  BY <1>2, <1>3, <1>6 DEF IInv, AtRest
<1>9. Forgotten => Forgotten'
  BY <1>2, <1>3 DEF Forgotten
<1> QED BY <1>2, <1>3, <1>4, <1>5, <1>7, <1>8, <1>9, TwoVMs

-----------------------------------------------------------------------------
(* The primary VM reclaims.                                                *)
LEMMA ReclaimMemInv ==
  ASSUME IInv, NEW v \in VMs, ReclaimMem(v)
  PROVE  IInv'
<1>1. v = Primary /\ job[Primary] = "reclaim_mem"
  BY TwoVMs DEF ReclaimMem, IInv, TrustedJob, Accepting, Releasing
<1>2. UNCHANGED <<irq, parcel, notices, n_irq_lent, damaged>>
  BY DEF ReclaimMem
<1>3. TypeOK /\ (holder[Primary] = "worker" => Primary \in damaged)
  BY <1>1 DEF IInv, PrimaryJob, Reclaiming
<1>4. CASE /\ Goto(Primary, "reclaim_irq")
           /\ \/ handle[Primary] < 0 /\ UNCHANGED <<mem, handle>>
              \/ /\ handle[Primary] = parcel /\ mem \in {"lent", "released"}
                 /\ mem' = "home" /\ Handle(Primary, -1)
  <2>1. /\ job' \in [VMs -> Jobs] /\ job'[Primary] = "reclaim_irq"
        /\ job'[Trusted] = job[Trusted]
        /\ UNCHANGED <<holder, req, client, asked, worker, work>>
    BY <1>3, <1>4, GotoDoes, JobsListed, TwoVMs
  <2>2. /\ handle' \in [VMs -> -1 .. MaxParcels] /\ handle'[Primary] < 0
        /\ handle'[Trusted] = handle[Trusted] /\ mem' = "home"
        /\ mem # "home" => mem # "accepted"
    <3>1. CASE handle[Primary] < 0 /\ UNCHANGED <<mem, handle>>
      BY <1>3, <3>1 DEF TypeOK, IInv, Memory
    <3>2. CASE /\ mem \in {"lent", "released"}
               /\ mem' = "home" /\ Handle(Primary, -1)
      <4>1. -1 \in -1 .. MaxParcels /\ -1 < 0
        BY BoundsAssumption
      <4> QED BY <1>3, <3>2, <4>1, HandleDoes, TwoVMs
    <3> QED BY <1>4, <3>1, <3>2
  <2>3. TypeOK'
    <3>1. MemType' /\ VmType' /\ JobType'
      BY <1>2, <1>3, <2>1, <2>2, Types
      DEF MemType, Places, VmType, JobType
    <3> QED BY <1>2, <1>3, <2>1, <3>1, Types, TypesKept, TypesNext
  <2>4. (\A w \in VMs : Local(w)') /\ AtRest' /\ ~Forgotten /\ Counted
    BY <1>1, <1>2, <2>1, <2>2, PrimaryGoesOn
  <2>5. Memory'
    <3>1. ~(handle'[Primary] >= 0)
      <4>1. handle'[Primary] \in Int
        BY <2>2, TwoVMs
      <4> QED BY <2>2, <4>1
    <3> QED BY <1>2, <2>2, <3>1 DEF IInv, Memory
  <2>6. Notices'
    BY <1>2, <2>2 DEF IInv, Notices
  <2>7. Lines'
    BY <1>2, <2>4 DEF IInv, Lines, Accepted, Counted
  <2>8. PrimaryJob'
    BY <1>2, <1>3, <2>1, <2>2 DEF PrimaryJob, Lending, Reclaiming
  <2>9. TrustedJob'
    BY <1>2, <2>1, <2>2 DEF IInv, TrustedJob
  <2> QED BY <2>3, <2>4, <2>5, <2>6, <2>7, <2>8, <2>9 DEF IInv
<1>5. CASE /\ handle[Primary] >= 0 /\ Done(Primary, FALSE)
           /\ UNCHANGED <<mem, handle>>
  <2>1. /\ JobType' /\ ThreadType' /\ RequestType'
        /\ \A w \in VMs : Local(w)'
        /\ job'[Primary] = "none" /\ Counted
        /\ job'[Trusted] = job[Trusted] /\ holder'[Trusted] = holder[Trusted]
    BY <1>1, <1>2, <1>5, PrimaryEnds
  <2>2. TypeOK'
    BY <1>2, <1>3, <1>5, <2>1, Types, TypesKept, TypesNext
  <2>3. AtRest'
    <3>1. handle[Primary] \in Int
      BY <1>3, Numbers, TwoVMs
    <3>2. ~Owns(Primary)'
      BY <1>5, <3>1, OwnsPrimaryNext
    <3> QED BY <3>2 DEF AtRest
  <2>4. Memory' /\ Notices'
    BY <1>2, <1>5 DEF IInv, Memory, Notices
  <2>5. Lines'
    BY <1>2, <2>1 DEF IInv, Lines, Accepted, Counted
  <2>6. PrimaryJob'
    BY <2>1 DEF PrimaryJob, Lending, Reclaiming
  <2>7. TrustedJob'
    BY <1>2, <1>5, <2>1 DEF IInv, TrustedJob
  <2> QED BY <2>1, <2>2, <2>3, <2>4, <2>5, <2>6, <2>7 DEF IInv
<1> QED BY <1>1, <1>4, <1>5 DEF ReclaimMem

LEMMA ReclaimIrqInv ==
  ASSUME IInv, NEW v \in VMs, ReclaimIrq(v)
  PROVE  IInv'
<1>1. v = Primary /\ job[Primary] = "reclaim_irq"
  BY TwoVMs DEF ReclaimIrq, IInv, TrustedJob, Accepting, Releasing
<1>2. UNCHANGED <<mem, parcel, notices, handle>>
  BY DEF ReclaimIrq, hyp_irq
<1>3. /\ handle[Primary] < 0
      /\ holder[Primary] = "worker" => Primary \in damaged
  BY <1>1 DEF IInv, PrimaryJob, Reclaiming
<1>4. TypeOK /\ n_irq_lent[Primary] \in Nat /\ n_irq_lent[Primary] <= NumIrqs
  BY Numbers, TwoVMs DEF IInv
<1>5. holder[Primary] \in {"client", "worker"}
  BY <1>1, InAJob, TwoVMs DEF IInv
<1>6. CASE /\ n_irq_lent[Primary] = 0 /\ Done(Primary, TRUE)
           /\ UNCHANGED <<irq, n_irq_lent, damaged>>
  <2>1. Owns(Primary)'
    BY <1>2, <1>3, <1>6, OwnsPrimaryNext
  <2>2. /\ JobType' /\ ThreadType' /\ RequestType'
        /\ \A w \in VMs : Local(w)'
        /\ job'[Primary] = "none" /\ Counted
        /\ job'[Trusted] = job[Trusted] /\ holder'[Trusted] = holder[Trusted]
    BY <1>1, <1>2, <1>6, <2>1, PrimaryEnds
  <2>3. TypeOK'
    BY <1>2, <1>4, <1>6, <2>2, Types, TypesKept, TypesNext
  <2>4. AtRest'
    <3>1. holder[Primary] = "client" => client'[Primary] = "checked"
      BY <1>4, <1>6, DoneDoes, TwoVMs
    <3> QED BY <1>3, <1>5, <1>6, <3>1 DEF AtRest
  <2>5. Memory' /\ Notices'
    BY <1>2, <1>6 DEF IInv, Memory, Notices
  <2>6. Lines'
    BY <1>6, <2>2 DEF IInv, Lines, Accepted, Counted
  <2>7. PrimaryJob'
    BY <2>2 DEF PrimaryJob, Lending, Reclaiming
  <2>8. TrustedJob'
    BY <1>2, <1>6, <2>2 DEF IInv, TrustedJob
  <2> QED BY <2>2, <2>3, <2>4, <2>5, <2>6, <2>7, <2>8 DEF IInv
<1>7. CASE /\ n_irq_lent[Primary] > 0
           /\ irq[n_irq_lent[Primary]] \in {"lent", "released"}
           /\ Line(n_irq_lent[Primary], "home")
           /\ Count(Primary, n_irq_lent[Primary] - 1)
           /\ UNCHANGED <<holder, job, commits, damaged>>
  <2> DEFINE n == n_irq_lent[Primary]
  <2>1. n \in Irqs /\ n - 1 \in 0 .. NumIrqs /\ "home" \in Places
    BY <1>4, <1>7, TwoVMs DEF Irqs, Places
  <2>2. /\ irq' \in [Irqs -> Places] /\ irq'[n] = "home"
        /\ \A j \in Irqs \ {n} : irq'[j] = irq[j]
    BY <1>4, <1>7, <2>1, LineDoes
  <2>3. /\ n_irq_lent' \in [VMs -> 0 .. NumIrqs] /\ n_irq_lent'[Primary] = n - 1
        /\ n_irq_lent'[Trusted] = n_irq_lent[Trusted]
    BY <1>4, <1>7, <2>1, CountDoes, TwoVMs
  <2>4. irq[n] \in {"lent", "released"}
    BY <1>7
  <2>5. UNCHANGED <<holder, job, req, client, asked, worker, work, damaged>>
    BY <1>7 DEF commits
  <2>6. TypeOK'
    <3>1. VmType' /\ LineType'
      BY <1>2, <1>4, <2>2, <2>3, Types DEF VmType, LineType
    <3> QED BY <1>2, <1>4, <2>5, <3>1, Types, TypesKept, TypesNext
  <2>7. (\A w \in VMs : Local(w)') /\ AtRest' /\ ~Forgotten /\ Counted
    BY <1>1, <1>2, <2>3, <2>5, PrimaryGoesOn
  <2>8. Memory' /\ Notices'
    BY <1>2, <2>3 DEF IInv, Memory, Notices
  <2>9. Lines'
    <3>1. Accepted'
      BY <2>1, <2>2, <2>3, <2>4 DEF IInv, Lines, Accepted
    <3>2. \A i \in Irqs : irq[i] # "home" => i <= n
      BY <2>7 DEF Counted
    <3>3. ASSUME NEW i \in Irqs, irq'[i] # "home"
          PROVE  i <= n - 1
      <4>1. i # n /\ i <= n
        BY <2>2, <3>2, <3>3
      <4>2. i \in Nat /\ n \in Nat
        BY <1>4 DEF Irqs
      <4> HIDE DEF n
      <4> QED BY <4>1, <4>2
    <3> QED BY <2>3, <3>1, <3>3 DEF Lines, Counted
  <2>10. PrimaryJob'
    BY <1>1, <1>2, <1>3, <2>5 DEF PrimaryJob, Lending, Reclaiming
  <2>11. TrustedJob'
    BY <1>2, <2>3, <2>5 DEF IInv, TrustedJob
  <2> QED BY <2>6, <2>7, <2>8, <2>9, <2>10, <2>11 DEF IInv
<1>8. CASE /\ n_irq_lent[Primary] > 0
           /\ Count(Primary, 0) /\ Done(Primary, FALSE) /\ Damage(Primary)
           /\ UNCHANGED irq
  <2>1. 0 \in 0 .. NumIrqs
    BY TwoVMs
  <2>2. /\ n_irq_lent' \in [VMs -> 0 .. NumIrqs] /\ n_irq_lent'[Primary] = 0
        /\ n_irq_lent'[Trusted] = n_irq_lent[Trusted]
    BY <1>4, <1>8, <2>1, CountDoes, TwoVMs
  <2>3. damaged' = damaged \union {Primary}
    BY <1>8 DEF Damage
  <2>4. /\ JobType' /\ ThreadType' /\ RequestType'
        /\ \A w \in VMs : Local(w)'
        /\ job'[Primary] = "none" /\ worker'[Primary] = "idle"
        /\ client'[Primary] = "idle" /\ req'[Primary] = "RELEASE"
        /\ job'[Trusted] = job[Trusted] /\ holder'[Trusted] = holder[Trusted]
    BY <1>1, <1>2, <1>8, <2>2, PrimaryEnds
  <2>5. TypeOK'
    <3>1. VmType' /\ DamageType'
      BY <1>2, <1>4, <2>2, <2>3, Types, TwoVMs DEF VmType, DamageType
    <3> QED BY <1>2, <1>4, <1>8, <2>4, <3>1, Types, TypesKept, TypesNext
  <2>6. AtRest'
    BY <2>3 DEF AtRest
  <2>7. Memory' /\ Notices'
    BY <1>2, <2>2 DEF IInv, Memory, Notices
  <2>8. Lines'
    <3>1. Forgotten'
      BY <1>2, <1>3, <2>2, <2>3, <2>4 DEF Forgotten
    <3> QED BY <1>8, <2>2, <3>1 DEF IInv, Lines, Accepted
  <2>9. PrimaryJob'
    BY <2>4 DEF PrimaryJob, Lending, Reclaiming
  <2>10. TrustedJob'
    BY <1>2, <2>2, <2>3, <2>4 DEF IInv, TrustedJob
  <2> QED BY <2>4, <2>5, <2>6, <2>7, <2>8, <2>9, <2>10 DEF IInv
<1> QED BY <1>1, <1>6, <1>7, <1>8 DEF ReclaimIrq

-----------------------------------------------------------------------------
(* The trusted VM accepts and releases.                                    *)
LEMMA AcceptMemInv ==
  ASSUME IInv, NEW v \in VMs, AcceptMem(v)
  PROVE  IInv'
<1>1. v = Trusted /\ job[Trusted] = "accept_mem"
  BY TwoVMs DEF AcceptMem, IInv, PrimaryJob, Lending, Reclaiming
<1>2. UNCHANGED <<irq, parcel, notices, n_irq_lent, damaged>>
  BY DEF AcceptMem
<1>3. TypeOK /\ holder[Trusted] = "client"
  BY <1>1 DEF IInv, TrustedJob, Accepting
<1>4. ASSUME NEW next \in Jobs, Goto(Trusted, next), next # "none",
             handle'[Primary] = handle[Primary]
      PROVE  /\ JobType' /\ job'[Trusted] = next /\ job'[Primary] = job[Primary]
             /\ UNCHANGED <<holder, req, client, asked, worker, work>>
             /\ (\A w \in VMs : Local(w)') /\ AtRest' /\ Lines'
  <2>1. /\ job' \in [VMs -> Jobs] /\ job'[Trusted] = next
        /\ job'[Primary] = job[Primary]
        /\ UNCHANGED <<holder, req, client, asked, worker, work>>
    BY <1>3, <1>4, GotoDoes, TwoVMs
  <2>2. JobType'
    BY <1>3, <2>1, Types DEF JobType
  <2>3. (\A w \in VMs : Local(w)') /\ AtRest' /\ (Forgotten => Forgotten')
    BY <1>1, <1>2, <1>4, <2>1, TrustedGoesOn
  <2>4. Lines'
    BY <1>2, <2>3 DEF IInv, Lines, Accepted, Counted
  <2> QED BY <2>1, <2>2, <2>3, <2>4
<1>5. CASE /\ mem = "lent" /\ handle[Trusted] = parcel
           /\ mem' = "accepted"
           /\ Goto(Trusted, "accept_irq") \/ Goto(Trusted, "release_irq")
           /\ UNCHANGED handle
  <2>1. PICK next \in {"accept_irq", "release_irq"} : Goto(Trusted, next)
    BY <1>5
  <2>2. /\ JobType' /\ job'[Trusted] = next /\ job'[Primary] = job[Primary]
        /\ UNCHANGED <<holder, req, client, asked, worker, work>>
        /\ (\A w \in VMs : Local(w)') /\ AtRest' /\ Lines'
    BY <1>4, <1>5, <2>1, JobsListed
  <2>3. notices = <<>>
    <3>1. parcel \in Nat /\ \A k \in 1 .. Len(notices) : notices[k] \in Nat
      BY <1>3, Numbers, NoticesTyped
    <3>2. \A k \in 1 .. Len(notices) : parcel < notices[k] /\ notices[k] <= parcel
      BY <1>5 DEF IInv, Notices
    <3>3. ~(1 \in 1 .. Len(notices))
      BY <3>1, <3>2
    <3>4. notices \in Seq(1 .. MaxParcels) /\ Len(notices) \in Nat
      BY <1>3, NoticesTyped DEF TypeOK
    <3>5. Len(notices) = 0
      BY <3>3, <3>4
    <3> QED BY <3>4, <3>5, EmptySeq
  <2>4. job[Primary] # "notify"
    <3>1. parcel \in Nat
      BY <1>3, Numbers
    <3> QED BY <1>5, <3>1 DEF IInv, PrimaryJob
  <2>5. TypeOK'
    <3>1. MemType'
      BY <1>2, <1>3, <1>5, Types DEF MemType, Places
    <3> QED BY <1>2, <1>3, <1>5, <2>2, <3>1, Types, TypesKept, TypesNext
  <2>6. Memory'
    BY <1>2, <1>5, <2>3 DEF IInv, Memory
  <2>7. Notices'
    BY <1>2, <1>5 DEF IInv, Notices
  <2>8. PrimaryJob'
    <3>1. Owns(Primary)' <=> Owns(Primary)
      BY <1>2, <1>5, OwnsKept, TwoVMs
    <3> QED BY <1>2, <1>5, <2>2, <2>4, <3>1 DEF IInv, PrimaryJob
  <2>9. TrustedJob'
    BY <1>2, <1>3, <1>5, <2>1, <2>2 DEF TrustedJob, Accepting, Releasing
  <2> QED BY <2>2, <2>5, <2>6, <2>7, <2>8, <2>9 DEF IInv
<1>6. CASE /\ Handle(Trusted, -1) /\ Goto(Trusted, "release_irq")
           /\ UNCHANGED mem
  <2>1. -1 \in -1 .. MaxParcels
    BY BoundsAssumption
  <2>2. /\ handle' \in [VMs -> -1 .. MaxParcels] /\ handle'[Trusted] = -1
        /\ handle'[Primary] = handle[Primary]
    BY <1>3, <1>6, <2>1, HandleDoes, TwoVMs
  <2>3. /\ JobType' /\ job'[Trusted] = "release_irq"
        /\ job'[Primary] = job[Primary]
        /\ UNCHANGED <<holder, req, client, asked, worker, work>>
        /\ (\A w \in VMs : Local(w)') /\ AtRest' /\ Lines'
    BY <1>4, <1>6, <2>2, JobsListed
  <2>4. TypeOK'
    <3>1. VmType'
      BY <1>2, <1>3, <2>2, Types DEF VmType
    <3> QED BY <1>2, <1>3, <1>6, <2>3, <3>1, Types, TypesKept, TypesNext
  <2>5. parcel \in Nat /\ \A k \in 1 .. Len(notices) : notices[k] \in Nat
    BY <1>3, Numbers, NoticesTyped
  <2>6. Memory'
    <3>1. -1 <= parcel /\ -1 < 0
      BY <2>5
    <3> QED BY <1>2, <1>6, <2>2, <3>1 DEF IInv, Memory
  <2>7. Notices'
    <3>1. \A k \in 1 .. Len(notices) : -1 < notices[k]
      BY <2>5
    <3> QED BY <1>2, <2>2, <3>1 DEF IInv, Notices
  <2>8. PrimaryJob'
    <3>1. Owns(Primary)' <=> Owns(Primary)
      BY <1>2, <2>2, OwnsKept, TwoVMs
    <3>2. -1 < parcel
      BY <2>5
    <3> QED BY <1>2, <1>6, <2>2, <2>3, <3>1, <3>2 DEF IInv, PrimaryJob
  <2>9. TrustedJob'
    BY <2>3 DEF TrustedJob, Accepting, Releasing
  <2> QED BY <2>3, <2>4, <2>6, <2>7, <2>8, <2>9 DEF IInv
<1>7. CASE Goto(Trusted, "release_irq") /\ UNCHANGED <<mem, handle>>
  <2>1. /\ JobType' /\ job'[Trusted] = "release_irq"
        /\ job'[Primary] = job[Primary]
        /\ UNCHANGED <<holder, req, client, asked, worker, work>>
        /\ (\A w \in VMs : Local(w)') /\ AtRest' /\ Lines'
    BY <1>4, <1>7, JobsListed
  <2>2. TypeOK'
    BY <1>2, <1>3, <1>7, <2>1, Types, TypesKept, TypesNext
  <2>3. Memory' /\ Notices'
    BY <1>2, <1>7 DEF IInv, Memory, Notices
  <2>4. PrimaryJob'
    <3>1. Owns(Primary)' <=> Owns(Primary)
      BY <1>2, <1>7, OwnsKept, TwoVMs
    <3> QED BY <1>2, <1>7, <2>1, <3>1 DEF IInv, PrimaryJob
  <2>5. TrustedJob'
    BY <2>1 DEF TrustedJob, Accepting, Releasing
  <2> QED BY <2>1, <2>2, <2>3, <2>4, <2>5 DEF IInv
<1> QED BY <1>1, <1>5, <1>6, <1>7 DEF AcceptMem

(* The primary VM's job sees nothing of the lines of the trusted VM.       *)
LEMMA PrimaryJobKept ==
  ASSUME PrimaryJob, mem' = mem, parcel' = parcel, notices' = notices,
         handle' = handle, n_irq_lent'[Primary] = n_irq_lent[Primary],
         job'[Primary] = job[Primary], holder'[Primary] = holder[Primary],
         Primary \in damaged => Primary \in damaged'
  PROVE  PrimaryJob'
<1>1. Owns(Primary)' <=> Owns(Primary)
  BY OwnsKept, TwoVMs
<1> QED BY <1>1 DEF PrimaryJob

LEMMA AcceptIrqInv ==
  ASSUME IInv, NEW v \in VMs, AcceptIrq(v)
  PROVE  IInv'
<1>1. v = Trusted /\ job[Trusted] = "accept_irq"
  BY TwoVMs DEF AcceptIrq, IInv, PrimaryJob, Lending, Reclaiming
<1>2. UNCHANGED <<mem, parcel, notices, handle, damaged>>
  BY DEF AcceptIrq, hyp_irq
<1>3. /\ holder[Trusted] = "client" /\ mem = "accepted"
      /\ handle[Trusted] = parcel /\ notices = <<>>
  BY <1>1 DEF IInv, TrustedJob, Accepting, Memory
<1>4. TypeOK /\ n_irq_lent[Trusted] \in Nat /\ n_irq_lent[Trusted] <= NumIrqs
  BY Numbers, TwoVMs DEF IInv
<1>5. CASE /\ n_irq_lent[Trusted] = NumIrqs
           /\ \E ok \in BOOLEAN : Done(Trusted, ok)
           /\ UNCHANGED <<irq, n_irq_lent>>
  <2>1. PICK ok \in BOOLEAN : Done(Trusted, ok)
    BY <1>5
  <2>2. Owns(Trusted)'
    <3>1. parcel >= 0
      BY <1>4, Numbers
    <3> QED BY <1>2, <1>3, <1>5, <3>1, OwnsTrustedNext
  <2>3. /\ JobType' /\ ThreadType' /\ RequestType'
        /\ \A w \in VMs : Local(w)'
        /\ job'[Trusted] = "none"
        /\ job'[Primary] = job[Primary] /\ holder'[Primary] = holder[Primary]
        /\ AtRest' /\ (Forgotten => Forgotten')
    BY <1>1, <1>2, <1>5, <2>1, <2>2, TrustedEnds
  <2>4. TypeOK'
    BY <1>2, <1>4, <1>5, <2>3, Types, TypesKept, TypesNext
  <2>5. Memory' /\ Notices'
    BY <1>2, <1>5 DEF IInv, Memory, Notices
  <2>6. Lines'
    BY <1>5, <2>3 DEF IInv, Lines, Accepted, Counted
  <2>7. PrimaryJob'
    BY <1>2, <1>5, <2>3, PrimaryJobKept DEF IInv
  <2>8. TrustedJob'
    BY <2>3 DEF TrustedJob, Accepting, Releasing
  <2> QED BY <2>3, <2>4, <2>5, <2>6, <2>7, <2>8 DEF IInv
<1>6. CASE /\ n_irq_lent[Trusted] < NumIrqs
           /\ irq[n_irq_lent[Trusted] + 1] = "lent"
           /\ Line(n_irq_lent[Trusted] + 1, "accepted")
           /\ Count(Trusted, n_irq_lent[Trusted] + 1)
           /\ \/ UNCHANGED <<holder, job, commits>>
              \/ Goto(Trusted, "release_irq")
  <2> DEFINE n == n_irq_lent[Trusted] + 1
  <2>1. n \in Irqs /\ n \in 0 .. NumIrqs /\ "accepted" \in Places
    BY <1>4, <1>6, TwoVMs DEF Irqs, Places
  <2>2. /\ irq' \in [Irqs -> Places] /\ irq'[n] = "accepted"
        /\ \A j \in Irqs \ {n} : irq'[j] = irq[j]
    BY <1>4, <1>6, <2>1, LineDoes
  <2>3. /\ n_irq_lent' \in [VMs -> 0 .. NumIrqs] /\ n_irq_lent'[Trusted] = n
        /\ n_irq_lent'[Primary] = n_irq_lent[Primary]
    BY <1>4, <1>6, <2>1, CountDoes, TwoVMs
  <2>4. /\ job' \in [VMs -> Jobs]
        /\ job'[Trusted] \in {"accept_irq", "release_irq"}
        /\ job'[Primary] = job[Primary]
        /\ UNCHANGED <<holder, req, client, asked, worker, work>>
    <3>1. CASE UNCHANGED <<holder, job, commits>>
      BY <1>1, <1>4, <3>1 DEF commits, TypeOK
    <3>2. CASE Goto(Trusted, "release_irq")
      BY <1>4, <3>2, GotoDoes, JobsListed, TwoVMs
    <3> QED BY <1>6, <3>1, <3>2
  <2>5. irq[n] = "lent" /\ n \in Nat /\ n_irq_lent[Trusted] < n
        /\ \A i \in Irqs : i <= n <=> i = n \/ i <= n_irq_lent[Trusted]
    <3>1. \A i \in Irqs : i \in Nat
      BY DEF Irqs
    <3> QED BY <1>4, <1>6, <3>1
  <2> HIDE DEF n
  <2>6. TypeOK'
    <3>1. VmType' /\ LineType' /\ JobType'
      BY <1>2, <1>4, <2>2, <2>3, <2>4, Types DEF VmType, LineType, JobType
    <3> QED BY <1>2, <1>4, <2>4, <3>1, Types, TypesKept, TypesNext
  <2>7. (\A w \in VMs : Local(w)') /\ AtRest' /\ (Forgotten => Forgotten')
    BY <1>1, <1>2, <2>3, <2>4, TrustedGoesOn
  <2>8. Memory' /\ Notices'
    BY <1>2, <1>3, <2>3 DEF IInv, Memory, Notices
  <2>9. Lines'
    <3>1. Accepted'
      BY <2>1, <2>2, <2>3, <2>5 DEF IInv, Lines, Accepted
    <3>2. Counted => Counted'
      BY <2>1, <2>2, <2>3, <2>5 DEF Counted
    <3> QED BY <2>7, <3>1, <3>2 DEF IInv, Lines
  <2>10. PrimaryJob'
    BY <1>2, <2>3, <2>4, PrimaryJobKept DEF IInv
  <2>11. TrustedJob'
    BY <1>2, <1>3, <2>4 DEF TrustedJob, Accepting, Releasing
  <2> QED BY <2>6, <2>7, <2>8, <2>9, <2>10, <2>11 DEF IInv
<1>7. CASE Goto(Trusted, "release_irq") /\ UNCHANGED <<irq, n_irq_lent>>
  <2>1. /\ job' \in [VMs -> Jobs] /\ job'[Trusted] = "release_irq"
        /\ job'[Primary] = job[Primary]
        /\ UNCHANGED <<holder, req, client, asked, worker, work>>
    BY <1>4, <1>7, GotoDoes, JobsListed, TwoVMs
  <2>2. TypeOK'
    <3>1. JobType'
      BY <1>4, <2>1, Types DEF JobType
    <3> QED BY <1>2, <1>4, <1>7, <2>1, <3>1, Types, TypesKept, TypesNext
  <2>3. (\A w \in VMs : Local(w)') /\ AtRest' /\ (Forgotten => Forgotten')
    BY <1>1, <1>2, <1>7, <2>1, TrustedGoesOn
  <2>4. Memory' /\ Notices'
    BY <1>2, <1>7 DEF IInv, Memory, Notices
  <2>5. Lines'
    BY <1>7, <2>3 DEF IInv, Lines, Accepted, Counted
  <2>6. PrimaryJob'
    BY <1>2, <1>7, <2>1, PrimaryJobKept DEF IInv
  <2>7. TrustedJob'
    BY <2>1 DEF TrustedJob, Accepting, Releasing
  <2> QED BY <2>2, <2>3, <2>4, <2>5, <2>6, <2>7 DEF IInv
<1> QED BY <1>1, <1>5, <1>6, <1>7 DEF AcceptIrq

LEMMA ReleaseIrqInv ==
  ASSUME IInv, NEW v \in VMs, ReleaseIrq(v)
  PROVE  IInv'
<1>1. v = Trusted /\ job[Trusted] = "release_irq"
  BY TwoVMs DEF ReleaseIrq, IInv, PrimaryJob, Lending, Reclaiming
<1>2. UNCHANGED <<mem, parcel, notices, handle>>
  BY DEF ReleaseIrq, hyp_irq
<1>3. TypeOK /\ n_irq_lent[Trusted] \in Nat /\ n_irq_lent[Trusted] <= NumIrqs
  BY Numbers, TwoVMs DEF IInv
<1>4. CASE /\ Goto(Trusted, "release_mem") /\ UNCHANGED <<irq, n_irq_lent>>
           /\ \/ n_irq_lent[Trusted] = 0 /\ UNCHANGED damaged
              \/ Damage(Trusted)
  <2>1. /\ job' \in [VMs -> Jobs] /\ job'[Trusted] = "release_mem"
        /\ job'[Primary] = job[Primary]
        /\ UNCHANGED <<holder, req, client, asked, worker, work>>
    BY <1>3, <1>4, GotoDoes, JobsListed, TwoVMs
  <2>2. /\ damaged \subseteq damaged' /\ damaged' \subseteq VMs
        /\ n_irq_lent[Trusted] = 0 \/ Trusted \in damaged'
    BY <1>3, <1>4, TwoVMs DEF Damage, TypeOK
  <2>3. TypeOK'
    <3>1. JobType' /\ DamageType'
      BY <1>3, <2>1, <2>2, Types DEF JobType, DamageType
    <3> QED BY <1>2, <1>3, <1>4, <2>1, <3>1, Types, TypesKept, TypesNext
  <2>4. (\A w \in VMs : Local(w)') /\ AtRest' /\ (Forgotten => Forgotten')
    BY <1>1, <1>2, <1>4, <2>1, <2>2, TrustedGoesOn
  <2>5. Memory' /\ Notices'
    BY <1>2, <1>4 DEF IInv, Memory, Notices
  <2>6. Lines'
    BY <1>4, <2>4 DEF IInv, Lines, Accepted, Counted
  <2>7. PrimaryJob'
    BY <1>2, <1>4, <2>1, <2>2, PrimaryJobKept DEF IInv
  <2>8. TrustedJob'
    BY <1>4, <2>1, <2>2 DEF TrustedJob, Accepting, Releasing
  <2> QED BY <2>3, <2>4, <2>5, <2>6, <2>7, <2>8 DEF IInv
<1>5. CASE /\ n_irq_lent[Trusted] > 0
           /\ irq[n_irq_lent[Trusted]] = "accepted"
           /\ Line(n_irq_lent[Trusted], "released")
           /\ Count(Trusted, n_irq_lent[Trusted] - 1)
           /\ \/ UNCHANGED <<holder, job, commits, damaged>>
              \/ Goto(Trusted, "release_mem") /\ Damage(Trusted)
  <2> DEFINE n == n_irq_lent[Trusted]
  <2>1. n \in Irqs /\ n - 1 \in 0 .. NumIrqs /\ "released" \in Places
    BY <1>3, <1>5, TwoVMs DEF Irqs, Places
  <2>2. /\ irq' \in [Irqs -> Places] /\ irq'[n] = "released"
        /\ \A j \in Irqs \ {n} : irq'[j] = irq[j]
    BY <1>3, <1>5, <2>1, LineDoes
  <2>3. /\ n_irq_lent' \in [VMs -> 0 .. NumIrqs] /\ n_irq_lent'[Trusted] = n - 1
        /\ n_irq_lent'[Primary] = n_irq_lent[Primary]
    BY <1>3, <1>5, <2>1, CountDoes, TwoVMs
  <2>4. /\ job' \in [VMs -> Jobs]
        /\ job'[Primary] = job[Primary]
        /\ UNCHANGED <<holder, req, client, asked, worker, work>>
        /\ damaged \subseteq damaged' /\ damaged' \subseteq VMs
        /\ \/ job'[Trusted] = "release_irq"
           \/ job'[Trusted] = "release_mem" /\ Trusted \in damaged'
    <3>1. CASE UNCHANGED <<holder, job, commits, damaged>>
      BY <1>1, <1>3, <3>1 DEF commits, TypeOK
    <3>2. CASE Goto(Trusted, "release_mem") /\ Damage(Trusted)
      <4>1. damaged' = damaged \union {Trusted} /\ damaged \subseteq VMs
        BY <1>3, <3>2 DEF Damage, TypeOK
      <4> QED BY <1>3, <3>2, <4>1, GotoDoes, JobsListed, TwoVMs
    <3> QED BY <1>5, <3>1, <3>2
  <2>5. irq[n] = "accepted" /\ n > 0
        /\ \A i \in Irqs : i <= n - 1 <=> i # n /\ i <= n
    <3>1. \A i \in Irqs : i \in Nat
      BY DEF Irqs
    <3> QED BY <1>3, <1>5, <3>1
  <2> HIDE DEF n
  <2>6. TypeOK'
    <3>1. VmType' /\ LineType' /\ JobType' /\ DamageType'
      BY <1>2, <1>3, <2>2, <2>3, <2>4, Types
      DEF VmType, LineType, JobType, DamageType
    <3> QED BY <1>2, <1>3, <2>4, <3>1, Types, TypesKept, TypesNext
  <2>7. (\A w \in VMs : Local(w)') /\ AtRest' /\ (Forgotten => Forgotten')
    BY <1>1, <1>2, <2>3, <2>4, TrustedGoesOn
  <2>8. Memory' /\ Notices'
    <3>1. n_irq_lent[Trusted] > 0
      BY <1>5
    <3> QED BY <1>2, <2>3, <3>1 DEF IInv, Memory, Notices
  <2>9. Lines'
    <3>1. Accepted'
      BY <2>1, <2>2, <2>3, <2>5 DEF IInv, Lines, Accepted, n
    <3>2. Counted => Counted'
      BY <2>1, <2>2, <2>3, <2>5 DEF Counted
    <3> QED BY <2>7, <3>1, <3>2 DEF IInv, Lines
  <2>10. PrimaryJob'
    BY <1>2, <2>3, <2>4, PrimaryJobKept DEF IInv
  <2>11. TrustedJob'
    BY <2>4 DEF TrustedJob, Accepting, Releasing
  <2> QED BY <2>6, <2>7, <2>8, <2>9, <2>10, <2>11 DEF IInv
<1> QED BY <1>1, <1>4, <1>5 DEF ReleaseIrq

LEMMA ReleaseMemInv ==
  ASSUME ~TwoFailures, IInv, NEW v \in VMs, ReleaseMem(v)
  PROVE  IInv'
<1>1. v = Trusted /\ job[Trusted] = "release_mem"
  BY TwoVMs DEF ReleaseMem, IInv, PrimaryJob, Lending, Reclaiming
<1>2. UNCHANGED <<irq, parcel, notices, n_irq_lent, damaged>>
  BY DEF ReleaseMem
<1>3. TypeOK /\ parcel \in Nat /\ \A k \in 1 .. Len(notices) : notices[k] \in Nat
  BY Numbers, NoticesTyped DEF IInv
<1>4. n_irq_lent[Trusted] = 0 \/ Trusted \in damaged
  BY <1>1 DEF IInv, TrustedJob
<1>5. ASSUME handle'[Primary] = handle[Primary]
      PROVE  /\ JobType' /\ ThreadType' /\ RequestType'
             /\ \A w \in VMs : Local(w)'
             /\ job'[Trusted] = "none"
             /\ job'[Primary] = job[Primary] /\ holder'[Primary] = holder[Primary]
             /\ AtRest' /\ Lines' /\ TrustedJob'
  <2>1. Done(Trusted, FALSE)
    BY <1>1 DEF ReleaseMem
  <2>2. /\ JobType' /\ ThreadType' /\ RequestType'
        /\ \A w \in VMs : Local(w)'
        /\ job'[Trusted] = "none"
        /\ job'[Primary] = job[Primary] /\ holder'[Primary] = holder[Primary]
        /\ AtRest' /\ (Forgotten => Forgotten')
    BY <1>1, <1>2, <1>5, <2>1, TrustedEnds
  <2>3. Lines'
    BY <1>2, <2>2 DEF IInv, Lines, Accepted, Counted
  <2>4. TrustedJob'
    BY <2>2 DEF TrustedJob, Accepting, Releasing
  <2> QED BY <2>2, <2>3, <2>4
<1>6. CASE UNCHANGED <<mem, handle>>
  <2>1. TypeOK'
    BY <1>2, <1>3, <1>5, <1>6, Types, TypesKept, TypesNext
  <2>2. Memory' /\ Notices'
    BY <1>2, <1>6 DEF IInv, Memory, Notices
  <2>3. PrimaryJob'
    BY <1>2, <1>5, <1>6, PrimaryJobKept DEF IInv
  <2> QED BY <1>5, <1>6, <2>1, <2>2, <2>3 DEF IInv
<1>7. CASE /\ mem = "accepted" /\ handle[Trusted] = parcel
           /\ mem' = "released"
           /\ \/ Handle(Trusted, -1)
              \/ Trusted \notin damaged /\ UNCHANGED handle
  <2>1. -1 \in -1 .. MaxParcels
    BY BoundsAssumption
  <2>2. /\ handle' \in [VMs -> -1 .. MaxParcels]
        /\ handle'[Primary] = handle[Primary]
        /\ \/ handle'[Trusted] = -1
           \/ handle'[Trusted] = handle[Trusted] /\ n_irq_lent[Trusted] = 0
    <3>1. CASE Handle(Trusted, -1)
      BY <1>3, <2>1, <3>1, HandleDoes, TwoVMs
    <3>2. CASE Trusted \notin damaged /\ UNCHANGED handle
      BY <1>3, <1>4, <3>2 DEF TypeOK
    <3> QED BY <1>7, <3>1, <3>2
  <2>3. TypeOK'
    <3>1. MemType' /\ VmType'
      BY <1>2, <1>3, <1>7, <2>2, Types DEF MemType, Places, VmType
    <3> QED BY <1>2, <1>3, <1>5, <2>2, <3>1, Types, TypesKept, TypesNext
  <2>4. notices = <<>>
    BY <1>7 DEF IInv, Memory
  <2>5. Memory'
    <3>1. -1 <= parcel /\ -1 < 0 /\ ~(0 > 0)
      BY <1>3
    <3> QED BY <1>2, <1>7, <2>2, <2>4, <3>1 DEF IInv, Memory
  <2>6. Notices'
    <3>1. \A k \in 1 .. Len(notices) : -1 < notices[k]
      BY <1>3
    <3> QED BY <1>2, <2>2, <3>1 DEF IInv, Notices
  <2>7. PrimaryJob'
    <3>1. Owns(Primary)' <=> Owns(Primary)
      BY <1>2, <2>2, OwnsKept, TwoVMs
    <3>2. job[Primary] # "notify"
      BY <1>7 DEF IInv, PrimaryJob
    <3> QED BY <1>2, <1>5, <2>2, <3>1, <3>2 DEF IInv, PrimaryJob
  <2> QED BY <1>5, <2>2, <2>3, <2>5, <2>6, <2>7 DEF IInv
<1> QED BY <1>1, <1>6, <1>7 DEF ReleaseMem

(* The notification arrives.                                               *)
LEMMA MemLentInv ==
  ASSUME IInv, MemLent
  PROVE  IInv'
<1>1. /\ notices # <<>> /\ holder[Trusted] = "none"
      /\ Handle(Trusted, Head(notices)) /\ notices' = Tail(notices)
      /\ UNCHANGED <<mem, irq, parcel, n_irq_lent, holder, job, damaged>>
      /\ UNCHANGED <<req, client, asked, worker, work>>
  BY DEF MemLent, commits
<1>2. TypeOK /\ parcel \in Nat
  BY Numbers DEF IInv
<1>3. n_irq_lent[Trusted] = 0 /\ mem # "accepted"
  <2>1. ~(n_irq_lent[Trusted] > 0) /\ mem # "accepted"
    BY <1>1 DEF IInv, Memory
  <2> QED BY <1>2, <2>1, Numbers, TwoVMs
<1>4. notices \in Seq(1 .. MaxParcels)
  BY <1>2 DEF TypeOK
<1>5. /\ Len(notices) \in Nat /\ Len(notices) >= 1
      /\ Head(notices) = notices[1] /\ Tail(notices) \in Seq(1 .. MaxParcels)
      /\ Len(Tail(notices)) = Len(notices) - 1
      /\ \A k \in 1 .. Len(Tail(notices)) : Tail(notices)[k] = notices[k + 1]
  BY <1>1, <1>4, HeadTailProperties
<1>6. Head(notices) \in 1 .. MaxParcels /\ Head(notices) \in -1 .. MaxParcels
      /\ Head(notices) <= parcel
  <2>1. 1 \in 1 .. Len(notices)
    BY <1>5
  <2>2. Head(notices) \in 1 .. MaxParcels
    BY <1>5, <2>1, <1>2, NoticesTyped
  <2>3. Head(notices) <= parcel
    BY <1>5, <2>1 DEF IInv, Notices
  <2> QED BY <2>2, <2>3, BoundsAssumption
<1>7. /\ handle' \in [VMs -> -1 .. MaxParcels]
      /\ handle'[Trusted] = Head(notices) /\ handle'[Primary] = handle[Primary]
  BY <1>1, <1>2, <1>6, HandleDoes, TwoVMs
<1>8. TypeOK'
  <2>1. VmType' /\ NoticeType'
    BY <1>1, <1>2, <1>5, <1>7, Types DEF VmType, NoticeType
  <2> QED BY <1>1, <1>2, <2>1, Types, TypesKept, TypesNext
<1>9. Memory'
  BY <1>1, <1>3, <1>6, <1>7 DEF IInv, Memory
<1>10. \A k \in 1 .. Len(notices') :
         k + 1 \in 1 .. Len(notices) /\ notices'[k] = notices[k + 1]
  BY <1>1, <1>5
<1>11. Notices'
  <2>1. ASSUME NEW k \in 1 .. Len(notices')
        PROVE  handle'[Trusted] < notices'[k] /\ notices'[k] <= parcel'
    <3>1. k + 1 \in 1 .. Len(notices) /\ notices'[k] = notices[k + 1]
      BY <1>10
    <3>2. 1 \in 1 .. Len(notices) /\ 1 < k + 1
      BY <1>5
    <3>3. notices[1] < notices[k + 1] /\ notices[k + 1] <= parcel
      BY <3>1, <3>2 DEF IInv, Notices
    <3> QED BY <1>1, <1>5, <1>7, <3>1, <3>3
  <2>2. ASSUME NEW j \in 1 .. Len(notices'), NEW k \in 1 .. Len(notices'), j < k
        PROVE  notices'[j] < notices'[k]
    <3>1. /\ j + 1 \in 1 .. Len(notices) /\ notices'[j] = notices[j + 1]
          /\ k + 1 \in 1 .. Len(notices) /\ notices'[k] = notices[k + 1]
      BY <1>10
    <3>2. j + 1 < k + 1
      BY <2>2
    <3>3. notices[j + 1] < notices[k + 1]
      BY <3>1, <3>2 DEF IInv, Notices
    <3> QED BY <3>1, <3>3
  <2> QED BY <2>1, <2>2 DEF Notices
<1>12. Lines'
  BY <1>1, <1>7 DEF IInv, Lines, Accepted, Counted, Forgotten
<1>13. PrimaryJob'
  <2>1. Owns(Primary)' <=> Owns(Primary)
    BY <1>1, <1>7, OwnsKept, TwoVMs
  <2>2. job[Primary] = "notify" =>
          /\ handle'[Trusted] < parcel
          /\ \A k \in 1 .. Len(notices') : notices'[k] < parcel
    <3>1. ASSUME job[Primary] = "notify"
          PROVE  \A k \in 1 .. Len(notices) : notices[k] < parcel
      BY <3>1 DEF IInv, PrimaryJob
    <3>2. 1 \in 1 .. Len(notices)
      BY <1>5
    <3> QED BY <1>5, <1>7, <1>10, <3>1, <3>2
  <2> QED BY <1>1, <1>7, <2>1, <2>2 DEF IInv, PrimaryJob
<1>14. job[Trusted] = "none"
  BY <1>1, TwoVMs DEF IInv, Local, Threads, InTurn
<1>15. TrustedJob'
  BY <1>1, <1>14 DEF TrustedJob, Accepting, Releasing
<1>16. Local(Primary)' /\ Local(Trusted)'
  <2>1. Owns(Primary)' <=> Owns(Primary)
    BY <1>1, <1>7, OwnsKept, TwoVMs
  <2>2. ~Owns(Trusted)
    BY <1>3, TwoVMs, OwnsTrusted
  <2> QED BY <1>1, <2>1, <2>2, LocalKept, TwoVMs DEF IInv
<1>17. AtRest'
  <2>1. Owns(Primary)' <=> Owns(Primary)
    BY <1>1, <1>7, OwnsKept, TwoVMs
  <2> QED BY <1>1, <2>1 DEF IInv, AtRest
<1> QED BY <1>8, <1>9, <1>11, <1>12, <1>13, <1>15, <1>16, <1>17, TwoVMs DEF IInv

-----------------------------------------------------------------------------
(* The clients, the workers and the visitors: nothing of the hand-over     *)
(* itself changes, and nothing of the other VM.                            *)
LEMMA ThreadsInv ==
  ASSUME IInv, NEW v \in VMs, TypeOK',
         UNCHANGED <<mem, irq, parcel, notices, handle, n_irq_lent>>,
         \A w \in VMs \ {v} :
           /\ holder'[w] = holder[w] /\ job'[w] = job[w] /\ req'[w] = req[w]
           /\ client'[w] = client[w] /\ asked'[w] = asked[w]
           /\ worker'[w] = worker[w] /\ work'[w] = work[w],
         damaged \subseteq damaged', Local(v)',
         v = Primary => AtRest' /\ PrimaryJob' /\ (Forgotten => Forgotten'),
         v = Trusted => TrustedJob'
  PROVE  IInv'
<1>1. Memory' /\ Notices'
  BY DEF IInv, Memory, Notices
<1>2. Accepted' /\ (Counted => Counted')
  BY DEF IInv, Lines, Accepted, Counted
<1>3. ASSUME NEW w \in VMs
      PROVE  Local(w)'
  <2>1. CASE w = v
    BY <2>1
  <2>2. CASE w # v
    <3>1. Owns(w)' <=> Owns(w)
      BY OwnsKept
    <3> QED BY <2>2, <3>1, LocalKept DEF IInv
  <2> QED BY <2>1, <2>2
<1>4. CASE v = Primary
  <2>1. /\ holder'[Trusted] = holder[Trusted] /\ job'[Trusted] = job[Trusted]
    BY <1>4, TwoVMs
  <2>2. TrustedJob'
    BY <2>1 DEF IInv, TrustedJob
  <2>3. Lines'
    BY <1>2, <1>4 DEF IInv, Lines
  <2> QED BY <1>1, <1>3, <1>4, <2>2, <2>3 DEF IInv
<1>5. CASE v = Trusted
  <2>1. /\ holder'[Primary] = holder[Primary] /\ job'[Primary] = job[Primary]
        /\ req'[Primary] = req[Primary] /\ client'[Primary] = client[Primary]
        /\ worker'[Primary] = worker[Primary]
    BY <1>5, TwoVMs
  <2>2. PrimaryJob'
    BY <2>1, PrimaryJobKept DEF IInv
  <2>3. Owns(Primary)' <=> Owns(Primary)
    BY OwnsKept, TwoVMs
  <2>4. AtRest'
    BY <2>1, <2>3 DEF IInv, AtRest
  <2>5. Forgotten => Forgotten'
    BY <2>1 DEF Forgotten
  <2>6. Lines'
    BY <1>2, <2>5 DEF IInv, Lines
  <2> QED BY <1>1, <1>3, <1>5, <2>2, <2>4, <2>6 DEF IInv
<1> QED BY <1>4, <1>5, TwoVMs

(* A VM of which the job does not change.                                  *)
LEMMA SameJob ==
  ASSUME IInv, UNCHANGED <<mem, parcel, notices, handle, n_irq_lent>>,
         UNCHANGED <<holder, job>>, damaged \subseteq damaged'
  PROVE  PrimaryJob' /\ TrustedJob'
<1>1. PrimaryJob'
  BY PrimaryJobKept DEF IInv
<1>2. TrustedJob'
  BY DEF IInv, TrustedJob
<1> QED BY <1>1, <1>2

LEMMA BeginDoes ==
  ASSUME TypeOK, NEW v \in VMs, NEW who \in {"client", "worker"},
         NEW what \in Jobs, Begin(v, who, what)
  PROVE  /\ JobType' /\ holder[v] = "none"
         /\ holder'[v] = who /\ job'[v] = what
         /\ \A w \in VMs \ {v} : holder'[w] = holder[w] /\ job'[w] = job[w]
BY DEF TypeOK, Begin, JobType

(* What a VM may ask for: the hardware when it has given it back, anything *)
(* else while it has the hardware.                                         *)
LEMMA ValidRequest ==
  ASSUME NEW v \in VMs, NEW r \in Requests, RequestValid(v, req[v], r)
  PROVE  /\ r = "ACQUIRE" => req[v] = "RELEASE" /\ (~Owns(v) \/ v = Trusted)
         /\ r # "ACQUIRE" => req[v] # "RELEASE" /\ Owns(v)
BY DEF RequestValid

LEMMA CheckInv ==
  ASSUME IInv, NEW v \in VMs, NEW r \in Requests, Check(v, r)
  PROVE  IInv'
<1>1. TypeOK /\ Local(v)
  BY DEF IInv
<1>2. /\ client[v] = "idle" /\ asked' = [asked EXCEPT ![v] = r]
      /\ UNCHANGED <<mem, irq, parcel, notices, handle, n_irq_lent>>
      /\ UNCHANGED <<req, worker, work, damaged>>
  BY DEF Check, hypervisor, vm
<1>3. /\ asked' \in [VMs -> Requests] /\ asked'[v] = r
      /\ \A w \in VMs \ {v} : asked'[w] = asked[w]
  BY <1>1, <1>2 DEF TypeOK
<1>4. RequestType'
  BY <1>1, <1>2, <1>3, Types DEF RequestType
<1>5. Owns(v)' <=> Owns(v)
  BY <1>2, OwnsKept
<1>6. ASSUME NEW c \in {"checked", "acquiring"},
             client' = [client EXCEPT ![v] = c]
      PROVE  /\ ThreadType' /\ client'[v] = c
             /\ \A w \in VMs \ {v} : client'[w] = client[w]
             /\ v = Primary => AtRest'
  <2>1. /\ ThreadType' /\ client'[v] = c
        /\ \A w \in VMs \ {v} : client'[w] = client[w]
    BY <1>1, <1>2, <1>6, Types DEF ThreadType
  <2> QED BY <2>1 DEF AtRest
<1>7. CASE /\ r = "NONE" /\ req[v] = "NONE"
           /\ client' = [client EXCEPT ![v] = "checked"]
           /\ UNCHANGED <<holder, job>>
  <2>1. /\ ThreadType' /\ client'[v] = "checked"
        /\ \A w \in VMs \ {v} : client'[w] = client[w]
        /\ v = Primary => AtRest'
    BY <1>6, <1>7
  <2>2. TypeOK'
    BY <1>1, <1>2, <1>4, <1>7, <2>1, Types, TypesKept, TypesNext
  <2>3. PrimaryJob' /\ TrustedJob'
    BY <1>2, <1>7, SameJob
  <2>4. Local(v)'
    BY <1>1, <1>2, <1>3, <1>5, <1>7, <2>1 DEF Local, Threads, InTurn
  <2>5. v = Primary => ~Forgotten
    BY <1>7 DEF Forgotten
  <2> QED BY <1>2, <1>3, <1>7, <2>1, <2>2, <2>3, <2>4, <2>5, ThreadsInv
<1>8. CASE /\ holder[v] = "none"
           /\ RequestValid(v, req[v], r)
           /\ v = Trusted /\ r = "ACQUIRE" /\ ~Eager => worker[v] = "idle"
           /\ ~(r = "ACQUIRE" /\ ~Owns(v))
           /\ client' = [client EXCEPT ![v] = "checked"]
           /\ UNCHANGED <<holder, job>>
  <2>1. /\ ThreadType' /\ client'[v] = "checked"
        /\ \A w \in VMs \ {v} : client'[w] = client[w]
        /\ v = Primary => AtRest'
    BY <1>6, <1>8
  <2>2. TypeOK'
    BY <1>1, <1>2, <1>4, <1>8, <2>1, Types, TypesKept, TypesNext
  <2>3. PrimaryJob' /\ TrustedJob'
    BY <1>2, <1>8, SameJob
  <2>4. /\ Owns(v)
        /\ r = "ACQUIRE" => req[v] = "RELEASE"
        /\ r = "ACQUIRE" /\ Waits(v) => worker[v] = "idle"
        /\ r # "ACQUIRE" => req[v] # "RELEASE"
        /\ v = Primary => req[v] # "RELEASE"
    BY <1>8, ValidRequest, TwoVMs DEF Waits
  <2>5. Local(v)'
    BY <1>1, <1>2, <1>3, <1>5, <1>8, <2>1, <2>4 DEF Local, Threads, InTurn
  <2>6. v = Primary => ~Forgotten
    BY <2>4 DEF Forgotten
  <2> QED BY <1>2, <1>3, <1>8, <2>1, <2>2, <2>3, <2>5, <2>6, ThreadsInv
<1>9. CASE /\ holder[v] = "none"
           /\ RequestValid(v, req[v], r)
           /\ v = Trusted /\ r = "ACQUIRE" /\ ~Eager => worker[v] = "idle"
           /\ r = "ACQUIRE" /\ ~Owns(v)
           /\ Begin(v, "client", IF v = Primary THEN "reclaim_mem"
                                                ELSE "accept_mem")
           /\ client' = [client EXCEPT ![v] = "acquiring"]
  <2> DEFINE what == IF v = Primary THEN "reclaim_mem" ELSE "accept_mem"
  <2>1. /\ ThreadType' /\ client'[v] = "acquiring"
        /\ \A w \in VMs \ {v} : client'[w] = client[w]
        /\ v = Primary => AtRest'
    BY <1>6, <1>9
  <2>2. what \in Jobs /\ what # "none"
    BY JobsListed
  <2>3. /\ JobType' /\ holder[v] = "none"
        /\ holder'[v] = "client" /\ job'[v] = what
        /\ \A w \in VMs \ {v} : holder'[w] = holder[w] /\ job'[w] = job[w]
    BY <1>1, <1>9, <2>2, BeginDoes
  <2>4. TypeOK'
    BY <1>1, <1>2, <1>4, <2>1, <2>3, Types, TypesKept, TypesNext
  <2>5. req[v] = "RELEASE"
    BY <1>9, ValidRequest
  <2>6. Waits(v) => worker[v] = "idle"
    <3>1. CASE v = Trusted
      BY <3>1, <1>9, TwoVMs DEF Waits
    <3>2. CASE v = Primary
      <4>1. worker[v] \notin Committing /\ worker[v] # "releasing"
        BY <1>1, <1>9, <2>5, <3>2, TwoVMs DEF Local, Threads, InTurn
      <4>2. worker[v] \in {"idle", "prepare", "frame", "pre_release", "release",
                           "releasing"}
        BY <1>1 DEF TypeOK
      <4> QED BY <4>1, <4>2 DEF Committing
    <3> QED BY <3>1, <3>2, TwoVMs
  <2>7. Local(v)'
    BY <1>1, <1>2, <1>3, <1>9, <2>1, <2>2, <2>3, <2>5, <2>6
    DEF Local, Threads, InTurn, Committing
  <2>8. v = Primary => PrimaryJob'
    BY <2>3 DEF PrimaryJob, Lending, Reclaiming
  <2>9. v = Trusted => TrustedJob'
    BY <2>3, TwoVMs DEF TrustedJob, Accepting, Releasing
  <2>10. v = Primary => ~Forgotten
    BY <1>9, OwnsPrimary DEF Forgotten
  <2> QED BY <1>2, <1>3, <2>1, <2>3, <2>4, <2>7, <2>8, <2>9, <2>10, ThreadsInv
<1> QED BY <1>7, <1>8, <1>9 DEF Check

(* A check that is not followed by a commit.                               *)
LEMMA CheckDropped ==
  ASSUME IInv, NEW v \in VMs, client[v] = "checked",
         client' = [client EXCEPT ![v] = "idle"],
         damaged' = IF asked[v] = "ACQUIRE" THEN damaged \union ({v} \ {Trusted})
                                            ELSE damaged,
         UNCHANGED <<mem, irq, parcel, notices, handle, n_irq_lent>>,
         UNCHANGED <<holder, job, req, asked, worker, work>>
  PROVE  IInv'
<1>1. TypeOK /\ Local(v)
  BY DEF IInv
<1>2. /\ ThreadType' /\ client'[v] = "idle"
      /\ \A w \in VMs \ {v} : client'[w] = client[w]
  BY <1>1, Types DEF ThreadType
<1>3. damaged \subseteq damaged' /\ damaged' \subseteq VMs
  BY <1>1 DEF TypeOK
<1>4. DamageType'
  BY <1>3 DEF DamageType
<1>5. TypeOK'
  BY <1>1, <1>2, <1>4, Types, TypesKept, TypesNext
<1>6. PrimaryJob' /\ TrustedJob'
  BY <1>3, SameJob
<1>7. Owns(v)' <=> Owns(v)
  BY OwnsKept
<1>8. Local(v)'
  BY <1>1, <1>2, <1>7 DEF Local, Threads, InTurn
<1>9. v = Primary => AtRest'
  <2>1. asked[v] = "ACQUIRE" /\ v = Primary => Primary \in damaged'
    BY TwoVMs
  <2>2. asked[v] # "ACQUIRE" => req[v] # "RELEASE"
    BY <1>1 DEF Local, Threads, InTurn
  <2> QED BY <2>1, <2>2 DEF AtRest
<1>10. v = Primary => ~Forgotten
  BY DEF Forgotten
<1> QED BY <1>2, <1>3, <1>5, <1>6, <1>8, <1>9, <1>10, ThreadsInv

LEMMA NotCommittedInv ==
  ASSUME IInv, NEW v \in VMs, NotCommitted(v)
  PROVE  IInv'
BY CheckDropped DEF NotCommitted, hypervisor, vm

LEMMA CheckFailsInv ==
  ASSUME IInv, NEW v \in VMs, CheckFails(v)
  PROVE  IInv'
<1>1. TypeOK /\ Local(v)
  BY DEF IInv
<1>2. /\ client[v] = "checked"
      /\ UNCHANGED <<mem, irq, parcel, notices, handle, n_irq_lent>>
      /\ UNCHANGED <<req, asked, worker, work>>
      /\ damaged' = IF asked[v] = "ACQUIRE"
                      THEN damaged \union ({v} \ {Trusted}) ELSE damaged
  BY DEF CheckFails, hypervisor, vm
<1>3. CASE /\ ~(asked[v] = "ACQUIRE" /\ v = Trusted)
           /\ client' = [client EXCEPT ![v] = "idle"]
           /\ UNCHANGED <<holder, job>>
  BY <1>2, <1>3, CheckDropped
<1>4. CASE /\ asked[v] = "ACQUIRE" /\ v = Trusted
           /\ Begin(v, "client", "release_irq")
           /\ client' = [client EXCEPT ![v] = "acquiring"]
  <2>1. /\ JobType' /\ holder[v] = "none"
        /\ holder'[v] = "client" /\ job'[v] = "release_irq"
        /\ \A w \in VMs \ {v} : holder'[w] = holder[w] /\ job'[w] = job[w]
    BY <1>1, <1>4, BeginDoes, JobsListed
  <2>2. /\ ThreadType' /\ client'[v] = "acquiring"
        /\ \A w \in VMs \ {v} : client'[w] = client[w]
    BY <1>1, <1>2, <1>4, Types DEF ThreadType
  <2>3. damaged' = damaged
    BY <1>2, <1>4
  <2>4. TypeOK'
    BY <1>1, <1>2, <2>1, <2>2, <2>3, Types, TypesKept, TypesNext
  <2>5. req[v] = "RELEASE" /\ (Waits(v) => worker[v] = "idle")
    BY <1>1, <1>2, <1>4 DEF Local, Threads, InTurn
  <2>6. Local(v)'
    BY <1>1, <1>2, <1>4, <2>1, <2>2, <2>5 DEF Local, Threads, InTurn, Committing
  <2>7. TrustedJob'
    BY <1>4, <2>1 DEF TrustedJob, Accepting, Releasing
  <2> QED BY <1>2, <1>4, <2>1, <2>2, <2>3, <2>4, <2>6, <2>7, TwoVMs, ThreadsInv
<1> QED BY <1>3, <1>4 DEF CheckFails

LEMMA SwapInv ==
  ASSUME IInv, NEW v \in VMs, Swap(v)
  PROVE  IInv'
<1>1. TypeOK /\ Local(v)
  BY DEF IInv
<1>2. /\ client[v] = "checked" /\ worker[v] = "idle"
      /\ UNCHANGED <<mem, irq, parcel, notices, handle, n_irq_lent>>
      /\ UNCHANGED <<holder, job, asked, damaged>>
  BY DEF Swap, hypervisor, vm
<1>3. /\ ThreadType' /\ client'[v] = "idle" /\ worker'[v] = "prepare"
      /\ \A w \in VMs \ {v} : client'[w] = client[w] /\ worker'[w] = worker[w]
  BY <1>1, Types DEF ThreadType, Swap
<1>4. /\ RequestType' /\ req'[v] = asked[v] /\ work'[v] = asked[v]
      /\ \A w \in VMs \ {v} : req'[w] = req[w] /\ work'[w] = work[w]
  BY <1>1, <1>2, Types DEF RequestType, Swap
<1>5. TypeOK'
  BY <1>1, <1>2, <1>3, <1>4, Types, TypesKept, TypesNext
<1>6. PrimaryJob' /\ TrustedJob'
  BY <1>2, SameJob
<1>7. Owns(v)' <=> Owns(v)
  BY <1>2, OwnsKept
<1>8. Local(v)'
  BY <1>1, <1>2, <1>3, <1>4, <1>7 DEF Local, Threads, InTurn, Committing
<1>9. v = Primary => AtRest' /\ ~Forgotten
  BY <1>2, <1>3 DEF AtRest, Forgotten
<1> QED BY <1>2, <1>3, <1>4, <1>5, <1>6, <1>8, <1>9, ThreadsInv

(* A step of the worker that does not begin a hand-over.                   *)
LEMMA WorkerSteps ==
  ASSUME IInv, NEW v \in VMs,
         NEW next \in {"idle", "frame", "pre_release", "release"},
         worker[v] # "idle", worker' = [worker EXCEPT ![v] = next],
         UNCHANGED <<mem, irq, parcel, notices, handle, n_irq_lent>>,
         UNCHANGED <<holder, job, req, client, asked, work>>,
         damaged \subseteq damaged', damaged' \subseteq VMs,
         worker[v] \in Committing,
         next \in {"pre_release", "release"} => req[v] = "RELEASE",
         next = "idle" /\ req[v] = "RELEASE" /\ v = Primary => v \in damaged'
  PROVE  IInv'
<1>1. TypeOK /\ Local(v)
  BY DEF IInv
<1>2. /\ ThreadType' /\ worker'[v] = next
      /\ \A w \in VMs \ {v} : worker'[w] = worker[w]
  BY <1>1, Types DEF ThreadType
<1>3. DamageType'
  BY DEF DamageType
<1>4. TypeOK'
  BY <1>1, <1>2, <1>3, Types, TypesKept, TypesNext
<1>5. PrimaryJob' /\ TrustedJob'
  BY SameJob
<1>6. Owns(v)' <=> Owns(v)
  BY OwnsKept
<1>7. worker[v] # "releasing"
  BY DEF Committing
<1>8. Local(v)'
  BY <1>1, <1>2, <1>6, <1>7 DEF Local, Threads, InTurn, Committing
<1>9. v = Primary => AtRest' /\ ~Forgotten
  BY <1>2 DEF AtRest, Forgotten
<1> QED BY <1>2, <1>4, <1>5, <1>8, <1>9, ThreadsInv

LEMMA FrameInv ==
  ASSUME IInv, NEW v \in VMs, Frame(v)
  PROVE  IInv'
<1>1. damaged' = damaged /\ damaged \subseteq VMs
  BY DEF Frame, IInv, TypeOK
<1> QED BY <1>1, WorkerSteps DEF Frame, hypervisor, vm, Committing

LEMMA PostCommitInv ==
  ASSUME IInv, NEW v \in VMs, PostCommit(v)
  PROVE  IInv'
<1>1. damaged' = damaged /\ damaged \subseteq VMs
  BY DEF PostCommit, IInv, TypeOK
<1>2. work[v] = req[v] /\ worker[v] = "frame"
  BY DEF PostCommit, IInv, Local, Threads, InTurn
<1>3. CASE work[v] = "RELEASE"
  BY <1>1, <1>2, <1>3, WorkerSteps DEF PostCommit, hypervisor, vm, Committing
<1>4. CASE work[v] # "RELEASE"
  BY <1>1, <1>2, <1>4, WorkerSteps DEF PostCommit, hypervisor, vm, Committing
<1> QED BY <1>3, <1>4

LEMMA PreReleaseInv ==
  ASSUME IInv, NEW v \in VMs, PreRelease(v)
  PROVE  IInv'
<1>1. damaged' = damaged /\ damaged \subseteq VMs
  BY DEF PreRelease, IInv, TypeOK
<1>2. worker[v] = "pre_release" /\ req[v] = "RELEASE"
  BY DEF PreRelease, IInv, Local, Threads, InTurn
<1> QED BY <1>1, <1>2, WorkerSteps DEF PreRelease, hypervisor, vm, Committing

LEMMA ClientsStayInv ==
  ASSUME IInv, NEW v \in VMs, ClientsStay(v)
  PROVE  IInv'
<1>1. /\ damaged \subseteq damaged' /\ damaged' \subseteq VMs /\ v \in damaged'
  BY DEF ClientsStay, Damage, IInv, TypeOK
<1> QED BY <1>1, WorkerSteps DEF ClientsStay, hypervisor, vm, Committing

LEMMA ReleaseInv ==
  ASSUME IInv, NEW v \in VMs, Release(v)
  PROVE  IInv'
<1>1. TypeOK /\ Local(v)
  BY DEF IInv
<1>2. /\ worker[v] = "release"
      /\ UNCHANGED <<mem, irq, parcel, notices, handle, n_irq_lent>>
      /\ UNCHANGED <<req, client, asked, work, damaged>>
  BY DEF Release, hypervisor, vm
<1> DEFINE what == IF v = Primary THEN "lend_mem" ELSE "release_irq"
<1>3. what \in Jobs /\ what # "none"
  BY JobsListed
<1>4. /\ JobType' /\ holder[v] = "none"
      /\ holder'[v] = "worker" /\ job'[v] = what
      /\ \A w \in VMs \ {v} : holder'[w] = holder[w] /\ job'[w] = job[w]
  BY <1>1, <1>3, BeginDoes DEF Release
<1>5. /\ ThreadType' /\ worker'[v] = "releasing"
      /\ \A w \in VMs \ {v} : worker'[w] = worker[w]
  BY <1>1, <1>2, Types DEF ThreadType, Release
<1>6. TypeOK'
  BY <1>1, <1>2, <1>4, <1>5, Types, TypesKept, TypesNext
<1>7. /\ req[v] = "RELEASE" /\ work[v] = req[v]
      /\ Waits(v) => client[v] = "idle" /\ Owns(v)
  BY <1>1, <1>2 DEF Local, Threads, InTurn, Committing
<1>8. Owns(v)' <=> Owns(v)
  BY <1>2, OwnsKept
<1>9. Local(v)'
  BY <1>1, <1>2, <1>3, <1>4, <1>5, <1>7 DEF Local, Threads, InTurn, Committing
<1>10. v = Primary => PrimaryJob'
  BY <1>4, <1>7, <1>8, TwoVMs DEF PrimaryJob, Lending, Reclaiming
<1>11. v = Trusted => TrustedJob'
  BY <1>4, TwoVMs DEF TrustedJob, Accepting, Releasing
<1>12. v = Primary => AtRest' /\ ~Forgotten
  BY <1>2, <1>5 DEF AtRest, Forgotten
<1> QED BY <1>2, <1>4, <1>5, <1>6, <1>9, <1>10, <1>11, <1>12, ThreadsInv

(* A visitor comes or goes.                                                *)
LEMMA Visiting ==
  ASSUME IInv, NEW v \in VMs, NEW who \in {"none", "visitor"},
         holder[v] \in {"none", "visitor"}, Owns(v) \/ who = "none",
         holder' = [holder EXCEPT ![v] = who],
         UNCHANGED <<mem, irq, parcel, notices, handle, n_irq_lent>>,
         UNCHANGED <<job, req, client, asked, worker, work, damaged>>
  PROVE  IInv'
<1>1. TypeOK /\ Local(v)
  BY DEF IInv
<1>2. /\ JobType' /\ holder'[v] = who
      /\ \A w \in VMs \ {v} : holder'[w] = holder[w]
  BY <1>1, Types DEF JobType
<1>3. TypeOK'
  BY <1>1, <1>2, Types, TypesKept, TypesNext
<1>4. job[v] = "none"
  BY <1>1 DEF Local, Threads, InTurn
<1>5. Owns(v)' <=> Owns(v)
  BY OwnsKept
<1>6. Local(v)'
  BY <1>1, <1>2, <1>4, <1>5 DEF Local, Threads, InTurn
<1>7. v = Primary => PrimaryJob'
  BY <1>4 DEF PrimaryJob, Lending, Reclaiming
<1>8. v = Trusted => TrustedJob'
  BY <1>4 DEF TrustedJob, Accepting, Releasing
<1>9. v = Primary => AtRest' /\ (Forgotten => Forgotten')
  <2>1. Owns(Primary)' <=> Owns(Primary)
    BY OwnsKept, TwoVMs
  <2> QED BY <2>1 DEF IInv, AtRest, Forgotten
<1> QED BY <1>2, <1>3, <1>6, <1>7, <1>8, <1>9, ThreadsInv

LEMMA VisitInv ==
  ASSUME IInv, NEW v \in VMs, Visit(v)
  PROVE  IInv'
BY Visiting DEF Visit, hypervisor, vm, commits

LEMMA LeaveInv ==
  ASSUME IInv, NEW v \in VMs, Leave(v)
  PROVE  IInv'
BY Visiting DEF Leave, hypervisor, vm, commits

-----------------------------------------------------------------------------
LEMMA InitInv == Init => IInv
<1> SUFFICES ASSUME Init PROVE IInv
  OBVIOUS
<1>1. /\ mem = "home" /\ parcel = 0 /\ notices = <<>> /\ damaged = {}
      /\ \A i \in Irqs : irq[i] = "home"
      /\ handle[Primary] = -1 /\ handle[Trusted] = 0
      /\ n_irq_lent[Primary] = 0 /\ n_irq_lent[Trusted] = 0
      /\ req[Primary] = "NONE" /\ req[Trusted] = "RELEASE"
      /\ \A v \in VMs : /\ holder[v] = "none" /\ job[v] = "none"
                        /\ client[v] = "idle" /\ worker[v] = "idle"
  BY TwoVMs DEF Init
<1>2. TypeOK
  <2>1. MemType /\ NoticeType /\ LineType /\ DamageType
    BY BoundsAssumption
    DEF Init, MemType, NoticeType, LineType, DamageType, Places
  <2>2. VmType
    BY BoundsAssumption, NumIrqsAssumption DEF Init, VmType
  <2>3. JobType /\ ThreadType /\ RequestType
    BY DEF Init, JobType, ThreadType, RequestType, Jobs, Requests
  <2> QED BY <2>1, <2>2, <2>3, Types
<1>3. Memory /\ Notices
  BY <1>1 DEF Memory, Notices
<1>4. Lines
  BY <1>1, TwoVMs DEF Lines, Accepted, Counted, Irqs
<1>5. PrimaryJob /\ TrustedJob
  BY <1>1, TwoVMs
  DEF PrimaryJob, TrustedJob, Lending, Reclaiming, Accepting, Releasing
<1>6. ASSUME NEW v \in VMs PROVE Local(v)
  <2>1. Owns(Primary)
    BY <1>1, OwnsPrimary
  <2> QED BY <1>1, <2>1, TwoVMs DEF Local, Threads, InTurn, Committing
<1>7. AtRest
  BY <1>1 DEF AtRest
<1> QED BY <1>2, <1>3, <1>4, <1>5, <1>6, <1>7 DEF IInv

LEMMA NextInv ==
  ASSUME ~TwoFailures, IInv, [Next]_vars
  PROVE  IInv'
<1>1. ASSUME NEW v \in VMs, Job(v)
      PROVE  IInv'
  BY <1>1, LendMemInv, NotifyMemInv, LendIrqInv, ReclaimMemInv, ReclaimIrqInv,
     AcceptMemInv, AcceptIrqInv, ReleaseIrqInv, ReleaseMemInv DEF Job
<1>2. ASSUME NEW v \in VMs, Client(v)
      PROVE  IInv'
  BY <1>2, CheckInv, CheckFailsInv, NotCommittedInv, SwapInv DEF Client
<1>3. ASSUME NEW v \in VMs, Worker(v)
      PROVE  IInv'
  BY <1>3, FrameInv, PostCommitInv, PreReleaseInv, ReleaseInv, ClientsStayInv
  DEF Worker
<1>4. CASE MemLent
  BY <1>4, MemLentInv
<1>5. CASE UNCHANGED vars
  <2>1. /\ UNCHANGED <<mem, irq, parcel, notices, handle, n_irq_lent>>
        /\ UNCHANGED <<holder, job, req, client, asked, worker, work, damaged>>
    BY <1>5 DEF vars, hypervisor, vm, commits
  <2>2. TypeOK'
    BY <2>1, Types, TypesKept, TypesNext DEF IInv
  <2>3. Owns(Primary)' <=> Owns(Primary)
    BY <2>1, OwnsKept, TwoVMs
  <2>4. AtRest' /\ (Forgotten => Forgotten') /\ PrimaryJob' /\ TrustedJob'
    BY <2>1, <2>3, SameJob DEF IInv, AtRest, Forgotten
  <2>5. Local(Primary)'
    BY <2>1, <2>3, LocalKept, TwoVMs DEF IInv
  <2> QED BY <2>1, <2>2, <2>4, <2>5, ThreadsInv, TwoVMs
<1>6. CASE \E v \in VMs : Visit(v) \/ Leave(v)
  BY <1>6, VisitInv, LeaveInv
<1> QED BY <1>1, <1>2, <1>3, <1>4, <1>5, <1>6 DEF Next

(* The inductive invariant: what the hypervisor has given to whom, what    *)
(* each VM has written down about it and where its client and its worker   *)
(* are go together in every reachable state, unless the notification of a  *)
(* release fails after a line could not be given back (~TwoFailures).      *)
THEOREM Invariance ==
  ASSUME ~TwoFailures
  PROVE  Spec => []IInv
<1>1. Init => IInv
  BY InitInv
<1>2. IInv /\ [Next]_vars => IInv'
  BY NextInv
<1> QED BY <1>1, <1>2, PTL DEF Spec

(* Types: handles, counts and line numbers stay in their ranges.           *)
THEOREM TypeCorrect ==
  ASSUME ~TwoFailures
  PROVE  Spec => []TypeOK
<1>1. IInv => TypeOK
  BY DEF IInv
<1> QED BY <1>1, Invariance, PTL

-----------------------------------------------------------------------------
LEMMA OwnsGranted ==
  ASSUME IInv, NEW v \in VMs, Owns(v)
  PROVE  Granted(v) /\ mem = Place(v)
<1>1. TypeOK
  BY DEF IInv
<1>2. CASE v = Primary
  <2>1. n_irq_lent[Primary] = 0 /\ handle[Primary] < 0
    BY <1>2, OwnsPrimary
  <2>2. mem = "home"
    BY <2>1 DEF IInv, Memory
  <2>3. Primary \in damaged \/ \A i \in Irqs : irq[i] = "home"
    BY <1>1, <2>1, NothingAccepted DEF IInv, Forgotten
  <2> QED BY <1>2, <2>2, <2>3 DEF Granted, Owners, Place
<1>3. CASE v = Trusted
  <2>1. n_irq_lent[Trusted] = NumIrqs /\ handle[Trusted] >= 0
    BY <1>3, OwnsTrusted
  <2>2. mem = "accepted"
    <3>1. n_irq_lent[Trusted] > 0
      BY <2>1, TwoVMs
    <3>2. ~(handle[Trusted] < 0)
      BY <1>1, <2>1, Numbers, TwoVMs
    <3> QED BY <3>1, <3>2 DEF IInv, Memory
  <2>3. \A i \in Irqs : irq[i] = "accepted"
    <3>1. \A i \in Irqs : i <= NumIrqs
      BY TwoVMs DEF Irqs
    <3> QED BY <2>1, <3>1 DEF IInv, Lines, Accepted
  <2> QED BY <1>3, <2>2, <2>3, TwoVMs DEF Granted, Owners, Place
<1> QED BY <1>2, <1>3, TwoVMs

LEMMA UsersOwn ==
  ASSUME ~Eager, IInv, NEW v \in VMs, v \in Users
  PROVE  Owns(v)
BY DEF IInv, Local, Threads, InTurn, Waits, Users, Committing

(* What a VM believes is right: vm_owns_hw of a VM claims the hardware only*)
(* when the hypervisor has given it the memory and, unless a step of a     *)
(* hand-over of it has failed, every interrupt line.                       *)
THEOREM BelievesRightly ==
  ASSUME ~TwoFailures
  PROVE  Spec => []BelievesWhatItHolds
<1>1. IInv => BelievesWhatItHolds
  BY OwnsGranted DEF BelievesWhatItHolds
<1> QED BY <1>1, Invariance, PTL

(* No commit and no visitor is at the hardware of the other VM: what the   *)
(* check found out about the ownership still holds when the worker has     *)
(* come to the frame.                                                      *)
THEOREM NeverAtOthersHw ==
  ASSUME ~Eager, ~TwoFailures
  PROVE  Spec => []HwOnlyWhileGranted
<1>1. IInv => HwOnlyWhileGranted
  <2> SUFFICES ASSUME IInv, NEW v \in Users PROVE Granted(v)
    BY DEF HwOnlyWhileGranted
  <2>1. v \in VMs
    BY DEF Users
  <2> QED BY <2>1, UsersOwn, OwnsGranted
<1> QED BY <1>1, Invariance, PTL

(* A VM at rest of which no step of a hand-over has failed can always ask  *)
(* for something: sde_vm_request_valid refuses no VM everything.           *)
THEOREM NeverStuck ==
  ASSUME ~Eager, ~TwoFailures
  PROVE  Spec => []AlwaysAWay
<1>1. IInv => AlwaysAWay
  <2> SUFFICES ASSUME IInv, NEW v \in VMs, client[v] = "idle",
                      worker[v] = "idle", holder[v] = "none", v \notin damaged
               PROVE  \E r \in Requests : RequestValid(v, req[v], r)
    BY DEF AlwaysAWay
  <2>1. "NONE" \in Requests /\ "ACQUIRE" \in Requests
    BY DEF Requests
  <2>2. CASE req[v] # "RELEASE"
    <3>1. Owns(v)
      BY <2>2 DEF IInv, Local, Threads, InTurn, Waits
    <3>2. RequestValid(v, req[v], "NONE")
      BY <2>2, <3>1 DEF RequestValid
    <3> QED BY <2>1, <3>2
  <2>3. CASE req[v] = "RELEASE"
    <3>1. v = Trusted \/ ~Owns(v)
      BY <2>3, TwoVMs DEF IInv, AtRest
    <3>2. RequestValid(v, req[v], "ACQUIRE")
      BY <2>3, <3>1 DEF RequestValid
    <3> QED BY <2>1, <3>2
  <2> QED BY <2>2, <2>3
<1> QED BY <1>1, Invariance, PTL

-----------------------------------------------------------------------------
(* The implementation of HwOwnership.                                      *)
LEMMA OwnersAre ==
  /\ mem = "home" => Owners = {Primary}
  /\ mem = "accepted" => Owners = {Trusted}
  /\ mem \notin {"home", "accepted"} => Owners = {}
BY TwoVMs DEF Owners, Place
LEMMA OwnersAreNext ==
  /\ mem' = "home" => Owners' = {Primary}
  /\ mem' = "accepted" => Owners' = {Trusted}
  /\ mem' \notin {"home", "accepted"} => Owners' = {}
BY TwoVMs DEF Owners, Place
LEMMA OwnersKept == mem' = mem => Owners' = Owners
BY DEF Owners, Place

(* A thread of v moves, the memory stays: it comes to the hardware, leaves *)
(* it, or neither.                                                         *)
LEMMA ThreadImplements ==
  ASSUME NEW v \in VMs, mem' = mem,
         \A w \in VMs \ {v} : holder'[w] = holder[w] /\ worker'[w] = worker[w],
         v \in Users' => v \in Users \/ v \in Owners
  PROVE  [Ownership!Next]_(Ownership!vars)
<1>1. Owners' = Owners
  BY OwnersKept
<1>2. \A w \in VMs \ {v} : w \in Users' <=> w \in Users
  BY DEF Users
<1>3. Users \subseteq VMs /\ Users' \subseteq VMs
  BY DEF Users
<1>4. CASE v \in Users' <=> v \in Users
  <2>1. Users' = Users
    BY <1>2, <1>3, <1>4
  <2> QED BY <1>1, <2>1 DEF Ownership!vars
<1>5. CASE v \in Users' /\ v \notin Users
  <2>1. Users' = Users \union {v}
    BY <1>2, <1>3, <1>5
  <2>2. Ownership!Start(v)
    BY <1>1, <1>5, <2>1 DEF Ownership!Start
  <2> QED BY <2>2 DEF Ownership!Next
<1>6. CASE v \notin Users' /\ v \in Users
  <2>1. Users' = Users \ {v}
    BY <1>2, <1>3, <1>6
  <2>2. Ownership!Stop(v)
    BY <1>1, <1>6, <2>1 DEF Ownership!Stop
  <2> QED BY <2>2 DEF Ownership!Next
<1> QED BY <1>4, <1>5, <1>6

(* A job is nobody at the hardware, neither before nor after its steps.    *)
LEMMA JobUsers ==
  ASSUME ~Eager, IInv, NEW v \in VMs, Job(v)
  PROVE  v \notin Users /\ Users' = Users
<1>1. TypeOK /\ Local(v) /\ job[v] # "none"
  BY DEF IInv, Job, LendMem, NotifyMem, LendIrq, ReclaimMem, ReclaimIrq,
     AcceptMem, AcceptIrq, ReleaseIrq, ReleaseMem
<1>2. worker[v] \notin Committing /\ holder[v] # "visitor"
  BY <1>1, InAJob DEF Waits
<1>3. v \notin Users
  BY <1>2 DEF Users, Committing
<1>4. CASE UNCHANGED <<holder, worker>>
  BY <1>3, <1>4 DEF Users
<1>5. CASE \E ok \in BOOLEAN : Done(v, ok)
  <2>1. PICK ok \in BOOLEAN : Done(v, ok)
    BY <1>5
  <2>2. /\ holder'[v] = "none"
        /\ worker'[v] \in {worker[v], "idle"}
        /\ \A w \in VMs : w # v => holder'[w] = holder[w] /\ worker'[w] = worker[w]
    BY <1>1, <2>1, DoneDoes, DoneElsewhere
  <2>3. v \notin Users'
    BY <1>2, <2>2 DEF Users, Committing
  <2>4. \A w \in VMs : w # v => (w \in Users' <=> w \in Users)
    BY <2>2 DEF Users
  <2>5. Users \subseteq VMs /\ Users' \subseteq VMs
    BY DEF Users
  <2> QED BY <1>3, <2>3, <2>4, <2>5
<1>6. UNCHANGED <<holder, worker>> \/ \E ok \in BOOLEAN : Done(v, ok)
  BY DEF Job, LendMem, NotifyMem, LendIrq, ReclaimMem, ReclaimIrq, AcceptMem,
     AcceptIrq, ReleaseIrq, ReleaseMem, Goto, commits
<1> QED BY <1>3, <1>4, <1>5, <1>6

(* A job gives the memory away, takes what nobody has, or leaves it.       *)
LEMMA JobMemory ==
  ASSUME IInv, NEW v \in VMs, Job(v)
  PROVE  \/ mem' = mem
         \/ mem = Place(v) /\ mem' \in {"lent", "released"}
         \/ mem \in {"lent", "released"} /\ mem' = Place(v)
<1>1. /\ job[v] \in {"lend_mem", "reclaim_mem"} => v = Primary
      /\ job[v] \in {"accept_mem", "release_mem"} => v = Trusted
  BY TwoVMs DEF IInv, PrimaryJob, TrustedJob, Lending, Reclaiming, Accepting,
     Releasing
<1>2. CASE LendMem(v) \/ ReclaimMem(v)
  BY <1>1, <1>2 DEF LendMem, ReclaimMem, Place
<1>3. CASE AcceptMem(v) \/ ReleaseMem(v)
  BY <1>1, <1>3, TwoVMs DEF AcceptMem, ReleaseMem, Place
<1>4. CASE NotifyMem(v) \/ LendIrq(v) \/ ReclaimIrq(v) \/ AcceptIrq(v)
           \/ ReleaseIrq(v)
  BY <1>4 DEF NotifyMem, LendIrq, ReclaimIrq, AcceptIrq, ReleaseIrq, hyp_irq
<1> QED BY <1>2, <1>3, <1>4 DEF Job

LEMMA JobImplements ==
  ASSUME ~Eager, IInv, NEW v \in VMs, Job(v)
  PROVE  [Ownership!Next]_(Ownership!vars)
<1>1. v \notin Users /\ Users' = Users
  BY JobUsers
<1>2. CASE mem' = mem
  BY <1>1, <1>2, OwnersKept DEF Ownership!vars
<1>3. CASE mem = Place(v) /\ mem' \in {"lent", "released"}
  <2>1. Owners = {v} /\ Owners' = {}
    BY <1>3, OwnersAre, OwnersAreNext, TwoVMs DEF Place
  <2>2. Ownership!Give(v)
    BY <1>1, <2>1 DEF Ownership!Give
  <2> QED BY <2>2 DEF Ownership!Next
<1>4. CASE mem \in {"lent", "released"} /\ mem' = Place(v)
  <2>1. Owners = {} /\ Owners' = {v}
    BY <1>4, OwnersAre, OwnersAreNext, TwoVMs DEF Place
  <2>2. Ownership!Take(v)
    BY <1>1, <2>1 DEF Ownership!Take
  <2> QED BY <2>2 DEF Ownership!Next
<1> QED BY <1>2, <1>3, <1>4, JobMemory

LEMMA StepImplements ==
  ASSUME ~Eager, IInv, IInv', [Next]_vars
  PROVE  [Ownership!Next]_(Ownership!vars)
<1>1. ASSUME NEW v \in VMs, v \in Users', mem' = mem
      PROVE  v \in Owners
  <2>1. Owns(v)'
    BY <1>1 DEF IInv, Local, Threads, InTurn, Waits, Users, Committing
  <2>2. mem' = Place(v)
    <3>1. (Owns(v) => mem = Place(v))'
      BY OwnsGranted, PTL
    <3> QED BY <2>1, <3>1 DEF Place
  <2> QED BY <1>1, <2>2 DEF Owners
<1>2. ASSUME NEW v \in VMs, mem' = mem,
             \A w \in VMs \ {v} :
               holder'[w] = holder[w] /\ worker'[w] = worker[w]
      PROVE  [Ownership!Next]_(Ownership!vars)
  BY <1>1, <1>2, ThreadImplements
<1>3. TypeOK
  BY DEF IInv
<1>4. CASE MemLent
  BY <1>2, <1>4, TwoVMs DEF MemLent, commits
<1>5. ASSUME NEW v \in VMs, Client(v)
      PROVE  [Ownership!Next]_(Ownership!vars)
  <2>1. mem' = mem
    BY <1>5 DEF Client, Check, CheckFails, NotCommitted, Swap, hypervisor
  <2>2. \A w \in VMs \ {v} : worker'[w] = worker[w]
    BY <1>3, <1>5 DEF Client, Check, CheckFails, NotCommitted, Swap, TypeOK
  <2>3. \A w \in VMs \ {v} : holder'[w] = holder[w]
    BY <1>3, <1>5
    DEF Client, Check, CheckFails, NotCommitted, Swap, Begin, TypeOK
  <2> QED BY <1>2, <2>1, <2>2, <2>3
<1>6. ASSUME NEW v \in VMs, Worker(v)
      PROVE  [Ownership!Next]_(Ownership!vars)
  <2>1. mem' = mem
    BY <1>6 DEF Worker, Frame, PostCommit, PreRelease, Release, ClientsStay,
       hypervisor
  <2>2. \A w \in VMs \ {v} : worker'[w] = worker[w]
    BY <1>3, <1>6 DEF Worker, Frame, PostCommit, PreRelease, Release,
       ClientsStay, TypeOK
  <2>3. \A w \in VMs \ {v} : holder'[w] = holder[w]
    BY <1>3, <1>6 DEF Worker, Frame, PostCommit, PreRelease, Release,
       ClientsStay, Begin, TypeOK
  <2> QED BY <1>2, <2>1, <2>2, <2>3
<1>7. ASSUME NEW v \in VMs, Visit(v) \/ Leave(v)
      PROVE  [Ownership!Next]_(Ownership!vars)
  <2>1. mem' = mem /\ worker' = worker
    BY <1>7 DEF Visit, Leave, hypervisor, commits
  <2>2. \A w \in VMs \ {v} : holder'[w] = holder[w]
    BY <1>3, <1>7 DEF Visit, Leave, TypeOK
  <2> QED BY <1>2, <2>1, <2>2
<1>8. CASE UNCHANGED vars
  BY <1>2, <1>8, TwoVMs DEF vars, hypervisor, commits
<1>9. ASSUME NEW v \in VMs, Job(v)
      PROVE  [Ownership!Next]_(Ownership!vars)
  BY <1>9, JobImplements
<1> QED BY <1>4, <1>5, <1>6, <1>7, <1>8, <1>9 DEF Next

(* The two VMs together hand the register memory over as HwOwnership says: *)
(* it never has two owners, it is taken only when nobody has it, and a VM  *)
(* gives it away only with no commit and no visitor of its own at the      *)
(* hardware.                                                               *)
THEOREM Implements ==
  ASSUME ~Eager, ~TwoFailures
  PROVE  Spec => ImplementsOwnership
<1>1. Init => Ownership!Init
  <2> SUFFICES ASSUME Init PROVE Ownership!Init
    OBVIOUS
  <2>1. Owners = {Primary}
    BY OwnersAre DEF Init
  <2>2. Users = {}
    BY DEF Init, Users
  <2> QED BY <2>1, <2>2 DEF Ownership!Init
<1>2. IInv /\ IInv' /\ [Next]_vars => [Ownership!Next]_(Ownership!vars)
  BY StepImplements
<1> QED BY <1>1, <1>2, Invariance, PTL
    DEF Spec, ImplementsOwnership, Ownership!Spec
=============================================================================
