----------------------------- MODULE VmHandover -----------------------------
(***************************************************************************)
(* The hand-over of the display hardware between the primary and the       *)
(* trusted VM: sde_vm_primary.c and sde_vm_trusted.c, with the check and   *)
(* the commit steps of sde_kms.c that call them.  Each VM has a client     *)
(* that checks and commits states of its one CRTC and a worker (the        *)
(* display thread) that completes the commits; both lend, accept, release  *)
(* and reclaim under the VM's vm_res_lock, one hypervisor call at a time.  *)
(*                                                                         *)
(* External: the hypervisor, which refuses to accept what is not lent, to  *)
(* release what is not accepted and to reclaim what is not given back, and *)
(* the notification of a lent memory parcel, which arrives later.          *)
(***************************************************************************)
EXTENDS Integers, Sequences, FiniteSets

CONSTANTS
  Primary, Trusted,  \* the two VMs
  NumIrqs,           \* irq_desc->n_irq
  MaxParcels,        \* bound: memory parcels lent in a run
  Eager,             \* user space of the trusted VM may ask for the hardware
                     \* while its release has not been completed
  TwoFailures        \* the notification of a release may fail after a line
                     \* could not be given back, in that release or before

VMs == {Primary, Trusted}
Irqs == 1 .. NumIrqs
Requests == {"NONE", "RELEASE", "ACQUIRE"}
Places == {"home", "lent", "accepted", "released"}

ASSUME VMsAssumption == Primary # Trusted
ASSUME NumIrqsAssumption == NumIrqs \in Nat \ {0}
ASSUME BoundsAssumption == MaxParcels \in Nat
ASSUME SwitchesAssumption == Eager \in BOOLEAN /\ TwoFailures \in BOOLEAN

VARIABLES
  mem,         \* hypervisor: where the register memory is
  irq,         \* hypervisor: where each interrupt line is
  parcel,      \* hypervisor: the handle of the latest memory parcel
  notices,     \* handles on their way to the trusted VM
  handle,      \* io_mem_handle of each VM
  n_irq_lent,  \* of each VM: lines lent (primary) or accepted (trusted)
  holder,      \* who holds each VM's vm_res_lock: its client, its worker
  job,         \* what the holder is doing
  req,         \* vm_request_state of the VM's CRTC (crtc->state)
  client,      \* where the client is
  asked,       \* vm_request_state of the state the client checks
  worker,      \* where the worker is
  work,        \* vm_request_state of the commit the worker completes
  damaged      \* history: VMs of which a hand-over step has failed for good

hypervisor == <<mem, irq, parcel, notices>>
hyp_irq == <<mem, parcel, notices>>
vm == <<handle, n_irq_lent>>
commits == <<req, client, asked, worker, work>>
vars == <<hypervisor, vm, holder, job, commits, damaged>>

Jobs == {"none", "lend_mem", "notify", "lend_irq", "reclaim_mem",
         "reclaim_irq", "accept_mem", "accept_irq", "release_irq",
         "release_mem"}

Init ==
  /\ mem = "home"
  /\ irq = [i \in Irqs |-> "home"]
  /\ parcel = 0
  /\ notices = <<>>
  /\ handle = [v \in VMs |-> IF v = Primary THEN -1 ELSE 0]
  /\ n_irq_lent = [v \in VMs |-> 0]
  /\ holder = [v \in VMs |-> "none"]
  /\ job = [v \in VMs |-> "none"]
  /\ req = [v \in VMs |-> IF v = Primary THEN "NONE" ELSE "RELEASE"]
  /\ client = [v \in VMs |-> "idle"]
  /\ asked = [v \in VMs |-> "NONE"]
  /\ worker = [v \in VMs |-> "idle"]
  /\ work = [v \in VMs |-> "NONE"]
  /\ damaged = {}

-----------------------------------------------------------------------------
(* vm_owns_hw: what the VM makes of its own bookkeeping.                   *)
Owns(v) ==
  IF v = Primary THEN n_irq_lent[v] = 0 /\ handle[v] < 0
                 ELSE n_irq_lent[v] = NumIrqs /\ handle[v] >= 0

(* Mutant of RequestValid: the trusted VM is not exempted.                 *)
RequestValidNoExemption(v, old, new) ==
  IF new = "ACQUIRE" THEN old = "RELEASE" /\ ~Owns(v)
                     ELSE old # "RELEASE" /\ Owns(v)

(* sde_vm_request_valid.  The trusted VM may ask for what it has: its check*)
(* takes the hardware even when the commit is then only tested or fails.   *)
RequestValid(v, old, new) ==
  IF new = "ACQUIRE" THEN old = "RELEASE" /\ (~Owns(v) \/ v = Trusted)
                     ELSE old # "RELEASE" /\ Owns(v)

Begin(v, who, what) ==
  /\ holder[v] = "none"
  /\ holder' = [holder EXCEPT ![v] = who]
  /\ job' = [job EXCEPT ![v] = what]
Goto(v, what) == job' = [job EXCEPT ![v] = what] /\ UNCHANGED <<holder, commits>>

(* The job ends and vm_res_lock is dropped.                                *)
Done(v, ok) ==
  /\ holder' = [holder EXCEPT ![v] = "none"]
  /\ job' = [job EXCEPT ![v] = "none"]
  /\ IF holder[v] = "client"
       THEN /\ client' = [client EXCEPT ![v] = IF ok THEN "checked" ELSE "idle"]
            /\ UNCHANGED worker
       ELSE /\ worker' = [worker EXCEPT ![v] = "idle"]
            /\ UNCHANGED client
  /\ UNCHANGED <<req, asked, work>>
Handle(v, h) == handle' = [handle EXCEPT ![v] = h]
Count(v, n) == n_irq_lent' = [n_irq_lent EXCEPT ![v] = n]
Line(i, place) == irq' = [irq EXCEPT ![i] = place]
Damage(v) == damaged' = damaged \union {v}

-----------------------------------------------------------------------------
(* The primary VM lends.  _sde_vm_lend_mem: a failure is followed by a     *)
(* reclaim of what has been lent so far.                                   *)
LendMem(v) ==
  /\ job[v] = "lend_mem"
  /\ \/ /\ mem = "home" /\ parcel < MaxParcels
        /\ mem' = "lent"
        /\ parcel' = parcel + 1
        /\ Handle(v, parcel + 1)
        /\ Goto(v, "notify")
        /\ UNCHANGED damaged
     \/ Goto(v, "reclaim_mem") /\ Damage(v) /\ UNCHANGED <<mem, parcel, handle>>
  /\ UNCHANGED <<irq, notices, n_irq_lent>>

(* gh_rm_mem_notify: the trusted VM will hear of the parcel.               *)
NotifyMem(v) ==
  /\ job[v] = "notify"
  /\ \/ notices' = Append(notices, handle[v]) /\ Goto(v, "lend_irq")
        /\ UNCHANGED damaged
     \/ Goto(v, "reclaim_mem") /\ Damage(v) /\ UNCHANGED notices
  /\ UNCHANGED <<mem, irq, parcel, vm>>

(* One turn of the loop of _sde_vm_lend_irq.  A line that was lent but not *)
(* notified is counted, so that the reclaim takes it back.                 *)
LendIrq(v) ==
  /\ job[v] = "lend_irq"
  /\ \/ n_irq_lent[v] = NumIrqs /\ Done(v, TRUE)
        /\ UNCHANGED <<irq, n_irq_lent, damaged>>
     \/ /\ n_irq_lent[v] < NumIrqs
        /\ irq[n_irq_lent[v] + 1] = "home"
        /\ Line(n_irq_lent[v] + 1, "lent")
        /\ Count(v, n_irq_lent[v] + 1)
        /\ \/ UNCHANGED <<holder, job, commits, damaged>>
           \/ Goto(v, "reclaim_mem") /\ Damage(v)
     \/ n_irq_lent[v] < NumIrqs /\ Goto(v, "reclaim_mem") /\ Damage(v)
        /\ UNCHANGED <<irq, n_irq_lent>>
  /\ UNCHANGED <<hyp_irq, handle>>

-----------------------------------------------------------------------------
(* The primary VM reclaims, in its check (_sde_vm_reclaim as vm_acquire) or*)
(* to undo a lend.                                                         *)
ReclaimMem(v) ==
  /\ job[v] = "reclaim_mem"
  /\ \/ handle[v] < 0 /\ Goto(v, "reclaim_irq") /\ UNCHANGED <<mem, handle>>
     \/ /\ handle[v] = parcel /\ mem \in {"lent", "released"}
        /\ mem' = "home" /\ Handle(v, -1) /\ Goto(v, "reclaim_irq")
     \/ handle[v] >= 0 /\ Done(v, FALSE) /\ UNCHANGED <<mem, handle>>
  /\ UNCHANGED <<irq, parcel, notices, n_irq_lent, damaged>>

(* Mutant of ReclaimIrq: the count is reset without asking the hypervisor. *)
ReclaimIrqForgets(v) ==
  /\ job[v] = "reclaim_irq"
  /\ Count(v, 0) /\ Done(v, TRUE)
  /\ UNCHANGED <<hypervisor, handle, damaged>>

(* One turn of the loop of _sde_vm_reclaim_irq; its failure path forgets   *)
(* the lines that are still lent.                                          *)
ReclaimIrq(v) ==
  /\ job[v] = "reclaim_irq"
  /\ \/ n_irq_lent[v] = 0 /\ Done(v, TRUE) /\ UNCHANGED <<irq, n_irq_lent, damaged>>
     \/ /\ n_irq_lent[v] > 0
        /\ irq[n_irq_lent[v]] \in {"lent", "released"}
        /\ Line(n_irq_lent[v], "home")
        /\ Count(v, n_irq_lent[v] - 1)
        /\ UNCHANGED <<holder, job, commits, damaged>>
     \/ /\ n_irq_lent[v] > 0
        /\ Count(v, 0) /\ Done(v, FALSE) /\ Damage(v)
        /\ UNCHANGED irq
  /\ UNCHANGED <<hyp_irq, handle>>

-----------------------------------------------------------------------------
(* Mutant of AcceptMem: the error is stored as the handle.                 *)
AcceptMemStoresError(v) ==
  /\ job[v] = "accept_mem"
  /\ \/ /\ mem = "lent" /\ handle[v] = parcel
        /\ mem' = "accepted"
        /\ Goto(v, "accept_irq")
        /\ UNCHANGED handle
     \/ Handle(v, -22) /\ Goto(v, "release_irq") /\ UNCHANGED mem
  /\ UNCHANGED <<irq, parcel, notices, n_irq_lent, damaged>>

(* The trusted VM accepts.  A parcel that was not accepted is forgotten,   *)
(* one with the wrong content (or no memory for its description) is not.   *)
AcceptMem(v) ==
  /\ job[v] = "accept_mem"
  /\ \/ /\ mem = "lent" /\ handle[v] = parcel
        /\ mem' = "accepted"
        /\ (Goto(v, "accept_irq") \/ Goto(v, "release_irq"))
        /\ UNCHANGED handle
     \/ Handle(v, -1) /\ Goto(v, "release_irq") /\ UNCHANGED mem
     \/ Goto(v, "release_irq") /\ UNCHANGED <<mem, handle>>
  /\ UNCHANGED <<irq, parcel, notices, n_irq_lent, damaged>>

(* One turn of the loop of _sde_vm_accept_irq, then vm_resource_init, the  *)
(* failure of which leaves the hardware with the VM.  The loop counts from *)
(* the first line, which is the next one: nothing is accepted when it      *)
(* starts.  The trusted VM sorts its lines by label to know them; here     *)
(* they are known by their numbers.                                        *)
AcceptIrq(v) ==
  /\ job[v] = "accept_irq"
  /\ \/ n_irq_lent[v] = NumIrqs /\ (\E ok \in BOOLEAN : Done(v, ok))
        /\ UNCHANGED <<irq, n_irq_lent>>
     \/ /\ n_irq_lent[v] < NumIrqs
        /\ irq[n_irq_lent[v] + 1] = "lent"
        /\ Line(n_irq_lent[v] + 1, "accepted")
        /\ Count(v, n_irq_lent[v] + 1)
        /\ \/ UNCHANGED <<holder, job, commits>>
           \/ Goto(v, "release_irq")
     \/ n_irq_lent[v] < NumIrqs /\ Goto(v, "release_irq")
        /\ UNCHANGED <<irq, n_irq_lent>>
  /\ UNCHANGED <<hyp_irq, handle, damaged>>

-----------------------------------------------------------------------------
(* The trusted VM gives back: after its last commit, when a check that has *)
(* acquired fails later on, or to undo an accept.                          *)
ReleaseIrq(v) ==
  /\ job[v] = "release_irq"
  /\ \/ n_irq_lent[v] = 0 /\ Goto(v, "release_mem") /\ UNCHANGED <<irq, n_irq_lent>>
        /\ UNCHANGED damaged
     \/ /\ n_irq_lent[v] > 0
        /\ irq[n_irq_lent[v]] = "accepted"
        /\ Line(n_irq_lent[v], "released")
        /\ Count(v, n_irq_lent[v] - 1)
        /\ \/ UNCHANGED <<holder, job, commits, damaged>>
           \/ Goto(v, "release_mem") /\ Damage(v)
     \/ n_irq_lent[v] > 0 /\ Goto(v, "release_mem") /\ Damage(v)
        /\ UNCHANGED <<irq, n_irq_lent>>
  /\ UNCHANGED <<hyp_irq, handle>>

(* _sde_vm_release_mem: when the notification of the release fails the     *)
(* handle is kept.  (Once a line could not be given back it fails only with*)
(* TwoFailures: nothing else damages the trusted VM.)                      *)
ReleaseMem(v) ==
  /\ job[v] = "release_mem"
  /\ Done(v, FALSE)
  /\ \/ /\ mem = "accepted" /\ handle[v] = parcel
        /\ mem' = "released"
        /\ \/ Handle(v, -1)
           \/ (v \notin damaged \/ TwoFailures) /\ UNCHANGED handle
     \/ UNCHANGED <<mem, handle>>
  /\ UNCHANGED <<irq, parcel, notices, n_irq_lent, damaged>>

(* sde_vm_mem_lend_notification_handler.                                   *)
MemLent ==
  /\ notices # <<>>
  /\ holder[Trusted] = "none"
  /\ Handle(Trusted, Head(notices))
  /\ notices' = Tail(notices)
  /\ UNCHANGED <<mem, irq, parcel, n_irq_lent, holder, job, commits, damaged>>

-----------------------------------------------------------------------------
(* sde_kms_check_vm_request: without a request now or before there is      *)
(* nothing to validate; an ACQUIRE takes the hardware in the check.        *)
Check(v, r) ==
  /\ client[v] = "idle"
  /\ asked' = [asked EXCEPT ![v] = r]
  /\ \/ /\ r = "NONE" /\ req[v] = "NONE"
        /\ client' = [client EXCEPT ![v] = "checked"]
        /\ UNCHANGED <<holder, job>>
     \/ /\ r # "NONE" \/ req[v] # "NONE"
        /\ holder[v] = "none"
        /\ RequestValid(v, req[v], r)
        /\ v = Trusted /\ r = "ACQUIRE" /\ ~Eager => worker[v] = "idle"
        /\ IF r = "ACQUIRE" /\ ~Owns(v)
             THEN /\ Begin(v, "client", IF v = Primary THEN "reclaim_mem"
                                                       ELSE "accept_mem")
                  /\ client' = [client EXCEPT ![v] = "acquiring"]
             ELSE /\ client' = [client EXCEPT ![v] = "checked"]
                  /\ UNCHANGED <<holder, job>>
  /\ UNCHANGED <<hypervisor, vm, req, worker, work, damaged>>

(* Mutant of CheckFails: whatever was asked for, the hardware is released. *)
CheckFailsReleases(v) ==
  /\ client[v] = "checked"
  /\ IF v = Trusted
       THEN /\ Begin(v, "client", "release_irq")
            /\ client' = [client EXCEPT ![v] = "acquiring"]
       ELSE client' = [client EXCEPT ![v] = "idle"] /\ UNCHANGED <<holder, job>>
  /\ UNCHANGED <<hypervisor, vm, req, asked, worker, work, damaged>>

(* The rest of the check fails: sde_kms_vm_res_release, where the primary  *)
(* VM has no vm_acquire_fail_handler.                                      *)
CheckFails(v) ==
  /\ client[v] = "checked"
  /\ IF asked[v] = "ACQUIRE" /\ v = Trusted
       THEN /\ Begin(v, "client", "release_irq")
            /\ client' = [client EXCEPT ![v] = "acquiring"]
       ELSE client' = [client EXCEPT ![v] = "idle"] /\ UNCHANGED <<holder, job>>
  /\ damaged' = IF asked[v] = "ACQUIRE" THEN damaged \union ({v} \ {Trusted})
                                        ELSE damaged
  /\ UNCHANGED <<hypervisor, vm, req, asked, worker, work>>

(* The check passes, but it was a test only, or the commit fails before the*)
(* state is swapped: nothing is undone.                                    *)
NotCommitted(v) ==
  /\ client[v] = "checked"
  /\ client' = [client EXCEPT ![v] = "idle"]
  /\ damaged' = IF asked[v] = "ACQUIRE" THEN damaged \union ({v} \ {Trusted})
                                        ELSE damaged
  /\ UNCHANGED <<hypervisor, vm, holder, job, req, asked, worker, work>>

(* msm_atomic_commit, once the CRTC's last commit is complete.             *)
Swap(v) ==
  /\ client[v] = "checked"
  /\ worker[v] = "idle"
  /\ req' = [req EXCEPT ![v] = asked[v]]
  /\ work' = [work EXCEPT ![v] = asked[v]]
  /\ worker' = [worker EXCEPT ![v] = "prepare"]
  /\ client' = [client EXCEPT ![v] = "idle"]
  /\ UNCHANGED <<hypervisor, vm, holder, job, asked, damaged>>

-----------------------------------------------------------------------------
(* The worker.  vm_prepare_commit and the frame are at the hardware; the   *)
(* error of vm_client_post_acquire is not looked at.                       *)
Frame(v) ==
  /\ worker[v] = "prepare"
  /\ worker' = [worker EXCEPT ![v] = "frame"]
  /\ UNCHANGED <<hypervisor, vm, holder, job, req, client, asked, work, damaged>>

(* vm_post_commit has work only for a RELEASE: sde_kms_vm_pre_release waits*)
(* for the frame and stops what may still come to the hardware.            *)
PostCommit(v) ==
  /\ worker[v] = "frame"
  /\ worker' = [worker EXCEPT
                  ![v] = IF work[v] = "RELEASE" THEN "pre_release" ELSE "idle"]
  /\ UNCHANGED <<hypervisor, vm, holder, job, req, client, asked, work, damaged>>
PreRelease(v) ==
  /\ worker[v] = "pre_release"
  /\ worker' = [worker EXCEPT ![v] = "release"]
  /\ UNCHANGED <<hypervisor, vm, holder, job, req, client, asked, work, damaged>>

(* vm_release, under vm_res_lock.                                          *)
Release(v) ==
  /\ worker[v] = "release"
  /\ Begin(v, "worker", IF v = Primary THEN "lend_mem" ELSE "release_irq")
  /\ worker' = [worker EXCEPT ![v] = "releasing"]
  /\ UNCHANGED <<hypervisor, vm, req, client, asked, work, damaged>>
(* vm_client_pre_release fails: the hardware is not lent.                  *)
ClientsStay(v) ==
  /\ v = Primary
  /\ worker[v] = "release"
  /\ holder[v] = "none"
  /\ worker' = [worker EXCEPT ![v] = "idle"]
  /\ Damage(v)
  /\ UNCHANGED <<hypervisor, vm, holder, job, req, client, asked, work>>

(* Mutant of Visit: the ownership is not asked for.                        *)
VisitAnyway(v) ==
  /\ holder[v] = "none"
  /\ holder' = [holder EXCEPT ![v] = "visitor"]
  /\ UNCHANGED <<hypervisor, vm, job, commits, damaged>>

(* What comes to the hardware beside the commits, under vm_res_lock and    *)
(* only while the VM owns it: backlight, early wakeup, events, debugfs.    *)
Visit(v) ==
  /\ holder[v] = "none"
  /\ Owns(v)
  /\ holder' = [holder EXCEPT ![v] = "visitor"]
  /\ UNCHANGED <<hypervisor, vm, job, commits, damaged>>
Leave(v) ==
  /\ holder[v] = "visitor"
  /\ holder' = [holder EXCEPT ![v] = "none"]
  /\ UNCHANGED <<hypervisor, vm, job, commits, damaged>>

-----------------------------------------------------------------------------
Job(v) ==
  \/ LendMem(v) \/ NotifyMem(v) \/ LendIrq(v) \/ ReclaimMem(v) \/ ReclaimIrq(v)
  \/ AcceptMem(v) \/ AcceptIrq(v) \/ ReleaseIrq(v) \/ ReleaseMem(v)
Client(v) ==
  (\E r \in Requests : Check(v, r)) \/ CheckFails(v) \/ NotCommitted(v) \/ Swap(v)
Worker(v) ==
  Frame(v) \/ PostCommit(v) \/ PreRelease(v) \/ Release(v) \/ ClientsStay(v)

Next ==
  \/ MemLent
  \/ \E v \in VMs : Job(v) \/ Client(v) \/ Worker(v) \/ Visit(v) \/ Leave(v)

Spec == Init /\ [][Next]_vars

-----------------------------------------------------------------------------
TypeOK ==
  /\ mem \in Places
  /\ irq \in [Irqs -> Places]
  /\ parcel \in 0 .. MaxParcels
  /\ notices \in Seq(1 .. MaxParcels)
  /\ handle \in [VMs -> -1 .. MaxParcels]
  /\ n_irq_lent \in [VMs -> 0 .. NumIrqs]
  /\ holder \in [VMs -> {"none", "client", "worker", "visitor"}]
  /\ job \in [VMs -> Jobs]
  /\ req \in [VMs -> Requests]
  /\ client \in [VMs -> {"idle", "acquiring", "checked"}]
  /\ asked \in [VMs -> Requests]
  /\ worker \in [VMs -> {"idle", "prepare", "frame", "pre_release", "release",
                         "releasing"}]
  /\ work \in [VMs -> Requests]
  /\ damaged \subseteq VMs

Place(v) == IF v = Primary THEN "home" ELSE "accepted"
Owners == {v \in VMs : mem = Place(v)}
Users == {v \in VMs : \/ worker[v] \in {"prepare", "frame", "pre_release"}
                      \/ holder[v] = "visitor"}
(* The hypervisor has given v the memory and, unless a hand-over of v has  *)
(* failed before, every interrupt line.                                    *)
Granted(v) ==
  /\ v \in Owners
  /\ v \in damaged \/ \A i \in Irqs : irq[i] = Place(v)

(* vm_owns_hw (the handle and the count of lines) never claims what the    *)
(* hypervisor has given to the other VM, not even in the middle of a lend, *)
(* an accept or their undoing: the backlight and the commits rely on it.   *)
BelievesWhatItHolds == \A v \in VMs : Owns(v) => Granted(v)

(* Whatever is at the hardware for a VM, a commit on its way through the   *)
(* display thread or a visitor, the VM has the hardware at that time: the  *)
(* check looked at the ownership long before.                              *)
HwOnlyWhileGranted == \A v \in Users : Granted(v)

(* A VM at rest can always commit something again, a request or none,      *)
(* unless a step of a hand-over of it has failed: the states the check and *)
(* the commits can leave behind are never ones that every check refuses.   *)
AlwaysAWay ==
  \A v \in VMs : client[v] = "idle" /\ worker[v] = "idle" /\ holder[v] = "none"
    => v \in damaged \/ \E r \in Requests : RequestValid(v, req[v], r)

Ownership == INSTANCE HwOwnership WITH First <- Primary, owners <- Owners,
                                       users <- Users
(* The two VMs together hand the register memory over as HwOwnership says: *)
(* it never has two owners, and nobody gives it away with a commit or a    *)
(* visitor of its own still at the hardware.                               *)
ImplementsOwnership == Ownership!Spec
=============================================================================
