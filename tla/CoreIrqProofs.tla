---------------------------- MODULE CoreIrqProofs ---------------------------
(***************************************************************************)
(* Proofs about the core interrupts (CoreIrq.tla).                         *)
(*                                                                         *)
(* The argument: at most one thread at a time is inside                    *)
(* sde_cp_hist_interrupt for the event (Locks: spin_lock guards a listed   *)
(* event, and an event held by the ioctl is in nobody's list), so the      *)
(* count, the state of the event and the mask can be read off the label of *)
(* that one thread or of the worker (States, Counts, Masks).  The worker's *)
(* write without irq_lock can only meet the peer's: that is what Masks     *)
(* excepts (collided).                                                     *)
(***************************************************************************)
EXTENDS CoreIrq, TLAPS

Actors == Masters \union {"isr"}
(* Inside sde_cp_hist_interrupt, and where it is changing the interrupt.   *)
Sections == {"register", "enable", "mask on", "write on", "disarm",
             "mask off", "write off", "unregister", "done", "failed"}
Changing == {"mask on", "write on", "mask off", "write off"}

(* Who holds which lock, and whose the event is.                           *)
Locks ==
  /\ \A a \in {"commit", "pm"} : pc[a] \in Sections => spin_lock = a
  /\ At("worker", "write") => spin_lock = "worker"
  /\ spin_lock # "free" => node = "listed"
  /\ ~At("ioctl", "idle") => node = "held"
  /\ \A a \in Threads : pc[a] \in {"write on", "write off"} => irq_lock = a
  /\ At("peer", "write") => irq_lock = "peer"
  /\ ~At("worker", "idle") => busy > 0
  /\ node # "none" => orphans < MaxOrphans

(* An event that is not there, or not armed yet, is in its first state;    *)
(* crtc_lock tells a registration from a deregistration.                   *)
Fresh ==
  /\ node = "none" => state = "NOINIT"
  /\ pc["ioctl"] \in {"en get", "en add", "register"} => state = "NOINIT"
  /\ pc["ioctl"] = "failed" /\ crtc_lock = "ioctl" => state = "NOINIT"
  /\ pc["ioctl"] \in {"idle", "en get", "en add", "de check", "de get",
                      "disarm"} => crtc_lock # "ioctl"

(* The event owns one count: it is armed, or on its way from or to it.     *)
Owned ==
  \/ state = "ENABLED" /\ ~At("worker", "write")
  \/ \E a \in Threads : pc[a] \in {"mask on", "write on", "mask off"}

(* What the label of a thread says of the state of the event.              *)
States ==
  /\ \A a \in Threads :
       /\ pc[a] = "enable" => callback
       /\ pc[a] \in {"mask on", "write on"} =>
            callback /\ state \in {"NOINIT", "DISABLED"}
       /\ pc[a] \in {"mask off", "write off"} => state = "DISABLING"
       /\ pc[a] = "unregister" => state = "NOINIT"
  /\ At("worker", "write") => state = "ENABLED"
  /\ state # "NOINIT" => callback
  /\ state = "DISABLING" =>
       \E a \in Threads : pc[a] \in {"mask off", "write off"}

(* The count covers its owner, and has no other unless callbacks leaked.   *)
Counts ==
  /\ Owned => count >= 1
  /\ orphans = 0 => count = IF Owned THEN 1 ELSE 0

(* The mask follows the count, up to the step of the one who changes it;   *)
(* what the peer has read still agrees with the mask on this interrupt.    *)
MaskPhases ==
  /\ \A a \in Threads :
       /\ pc[a] \in {"mask on", "write on"} => count = 1 /\ "hist" \notin mask
       /\ pc[a] = "write off" => count = 0 /\ "hist" \in mask
  /\ At("worker", "write") => count = 0 /\ "hist" \in mask
  /\ ~InFlight => ("hist" \in mask <=> count > 0)
PeerAgrees ==
  At("peer", "write") =>
    /\ ~At("worker", "write")
    /\ "hist" \in seen["peer"] <=> "hist" \in mask
Masks == ~collided => MaskPhases /\ PeerAgrees

IInv == TypeOK /\ Locks /\ Fresh /\ States /\ Counts /\ Masks

-----------------------------------------------------------------------------
(* The type invariant in parts, so that a step need look at few.           *)
CrtcType ==
  /\ enabled \in BOOLEAN /\ lit \in BOOLEAN /\ mixers \in BOOLEAN
  /\ power_event \in BOOLEAN
EventType ==
  /\ node \in {"none", "listed", "held"}
  /\ state \in {"NOINIT", "ENABLED", "DISABLING", "DISABLED"}
  /\ callback \in BOOLEAN /\ orphans \in 0 .. MaxOrphans
IrqType ==
  /\ count \in Nat /\ mask \subseteq Bits /\ pending \in BOOLEAN
  /\ seen \in [Masters -> SUBSET Bits]
LockType ==
  /\ irq_lock \in Threads \union {"isr", "peer", "free"}
  /\ crtc_lock \in Threads \union {"free"}
  /\ spin_lock \in {"commit", "pm", "worker", "free"}
PcType == pc \in [Actors -> Labels]
RestType ==
  /\ busy \in 0 .. PoolSize
  /\ refs \subseteq {"display", "commit", "ioctl", "worker"}
  /\ power \in {"on", "suspending", "off", "resuming"}
  /\ torn \in BOOLEAN /\ collided \in BOOLEAN

LEMMA Types ==
  TypeOK <=> /\ CrtcType /\ EventType /\ IrqType
             /\ LockType /\ PcType /\ RestType
BY DEF TypeOK, CrtcType, EventType, IrqType, LockType, PcType, RestType, Actors

LEMMA TypesNext ==
  TypeOK' <=> /\ CrtcType' /\ EventType' /\ IrqType'
              /\ LockType' /\ PcType' /\ RestType'
BY DEF TypeOK, CrtcType, EventType, IrqType, LockType, PcType, RestType, Actors

LEMMA TypesKept ==
  /\ CrtcType /\ UNCHANGED <<enabled, lit, mixers, power_event>> => CrtcType'
  /\ EventType /\ UNCHANGED <<node, state, callback, orphans>> => EventType'
  /\ IrqType /\ UNCHANGED <<count, mask, pending, seen>> => IrqType'
  /\ LockType /\ UNCHANGED <<irq_lock, crtc_lock, spin_lock>> => LockType'
  /\ RestType /\ UNCHANGED <<busy, refs, power, torn, collided>> => RestType'
BY DEF CrtcType, EventType, IrqType, LockType, RestType

-----------------------------------------------------------------------------
(* Helpers: a step moves one actor, and who is alone where.                *)
LEMMA GotoPc ==
  ASSUME TypeOK, NEW a \in Actors, NEW l \in Labels, Goto(a, l)
  PROVE  /\ pc' \in [Actors -> Labels]
         /\ pc'[a] = l
         /\ \A b \in Actors \ {a} : pc'[b] = pc[b]
BY DEF TypeOK, Goto, Actors

LEMMA LabelsListed ==
  /\ "idle" \in Labels /\ "register" \in Labels /\ "enable" \in Labels
  /\ "mask on" \in Labels /\ "write on" \in Labels /\ "disarm" \in Labels
  /\ "mask off" \in Labels /\ "write off" \in Labels
  /\ "unregister" \in Labels /\ "done" \in Labels /\ "failed" \in Labels
  /\ "deliver" \in Labels /\ "write" \in Labels /\ "read" \in Labels
  /\ "get" \in Labels /\ "en get" \in Labels /\ "en add" \in Labels
  /\ "de check" \in Labels /\ "de get" \in Labels /\ "lock" \in Labels
  /\ "walk" \in Labels /\ "end" \in Labels /\ "apply" \in Labels
  /\ "walk off" \in Labels /\ "walk on" \in Labels /\ "reset" \in Labels
  /\ "modeset" \in Labels /\ "mixers" \in Labels
  /\ "enable crtc" \in Labels /\ "power event" \in Labels
BY DEF Labels

LEMMA ActorsListed ==
  /\ Threads = {"ioctl", "commit", "pm"}
  /\ Actors = {"ioctl", "commit", "pm", "worker", "peer", "isr"}
BY DEF Threads, Actors, Masters

LEMMA Alone ==
  ASSUME Locks, NEW a \in Threads, pc[a] \in Sections
  PROVE  /\ \A b \in Threads \ {a} : pc[b] \notin Sections
         /\ pc["worker"] # "write"
BY DEF Locks, Sections, Threads, At

LEMMA SpinFree ==
  ASSUME Locks, spin_lock = "free"
  PROVE  /\ \A b \in Threads \ {"ioctl"} : pc[b] \notin Sections
         /\ pc["worker"] # "write"
BY DEF Locks, Sections, Threads, At

-----------------------------------------------------------------------------
(* The invariants as seen from the only one at work, whose label is p.     *)
SoloOwned(p, st) ==
  (st = "ENABLED" /\ p # "write") \/ p \in {"mask on", "write on", "mask off"}
SoloStates(p, st, cb) ==
  /\ p = "enable" => cb
  /\ p \in {"mask on", "write on"} => cb /\ st \in {"NOINIT", "DISABLED"}
  /\ p \in {"mask off", "write off"} => st = "DISABLING"
  /\ p = "unregister" => st = "NOINIT"
  /\ p = "write" => st = "ENABLED"
  /\ st # "NOINIT" => cb
  /\ st = "DISABLING" => p \in {"mask off", "write off"}
SoloCounts(p, st, n, o) ==
  /\ SoloOwned(p, st) => n >= 1
  /\ o = 0 => n = IF SoloOwned(p, st) THEN 1 ELSE 0
SoloMasks(p, n, m) ==
  /\ p \in {"mask on", "write on"} => n = 1 /\ "hist" \notin m
  /\ p \in {"write off", "write"} => n = 0 /\ "hist" \in m
  /\ p \notin {"mask on", "write on", "write off", "write"} =>
       ("hist" \in m <=> n > 0)

LEMMA SoloThread ==
  ASSUME NEW a \in Threads, \A b \in Threads \ {a} : pc[b] \notin Sections,
         pc["worker"] # "write", pc[a] # "write"
  PROVE  /\ States <=> SoloStates(pc[a], state, callback)
         /\ Counts <=> SoloCounts(pc[a], state, count, orphans)
         /\ MaskPhases <=> SoloMasks(pc[a], count, mask)
<1>1. Owned <=> SoloOwned(pc[a], state)
  BY DEF Owned, SoloOwned, At, Sections
<1>2. InFlight <=> pc[a] \in {"mask on", "write on", "write off"}
  BY DEF InFlight, At, Sections
<1>3. States <=> SoloStates(pc[a], state, callback)
  BY DEF States, SoloStates, At, Sections
<1>4. Counts <=> SoloCounts(pc[a], state, count, orphans)
  BY <1>1 DEF Counts, SoloCounts
<1>5. MaskPhases <=> SoloMasks(pc[a], count, mask)
  BY <1>2 DEF MaskPhases, SoloMasks, At, Sections
<1> QED BY <1>3, <1>4, <1>5

LEMMA SoloThreadNext ==
  ASSUME NEW a \in Threads, \A b \in Threads \ {a} : pc'[b] \notin Sections,
         pc'["worker"] # "write", pc'[a] # "write"
  PROVE  /\ States' <=> SoloStates(pc'[a], state', callback')
         /\ Counts' <=> SoloCounts(pc'[a], state', count', orphans')
         /\ MaskPhases' <=> SoloMasks(pc'[a], count', mask')
<1>1. Owned' <=> SoloOwned(pc'[a], state')
  BY DEF Owned, SoloOwned, At, Sections
<1>2. InFlight' <=> pc'[a] \in {"mask on", "write on", "write off"}
  BY DEF InFlight, At, Sections
<1>3. States' <=> SoloStates(pc'[a], state', callback')
  BY DEF States, SoloStates, At, Sections
<1>4. Counts' <=> SoloCounts(pc'[a], state', count', orphans')
  BY <1>1 DEF Counts, SoloCounts
<1>5. MaskPhases' <=> SoloMasks(pc'[a], count', mask')
  BY <1>2 DEF MaskPhases, SoloMasks, At, Sections
<1> QED BY <1>3, <1>4, <1>5

LEMMA SoloWorker ==
  ASSUME \A b \in Threads : pc[b] \notin Sections,
         pc["worker"] \in {"idle", "write", "read"}
  PROVE  /\ States <=> SoloStates(pc["worker"], state, callback)
         /\ Counts <=> SoloCounts(pc["worker"], state, count, orphans)
         /\ MaskPhases <=> SoloMasks(pc["worker"], count, mask)
<1>1. Owned <=> SoloOwned(pc["worker"], state)
  BY DEF Owned, SoloOwned, At, Sections
<1>2. InFlight <=> pc["worker"] = "write"
  BY DEF InFlight, At, Sections
<1>3. States <=> SoloStates(pc["worker"], state, callback)
  BY DEF States, SoloStates, At, Sections
<1>4. Counts <=> SoloCounts(pc["worker"], state, count, orphans)
  BY <1>1 DEF Counts, SoloCounts
<1>5. MaskPhases <=> SoloMasks(pc["worker"], count, mask)
  BY <1>2 DEF MaskPhases, SoloMasks, At, Sections
<1> QED BY <1>3, <1>4, <1>5

LEMMA SoloWorkerNext ==
  ASSUME \A b \in Threads : pc'[b] \notin Sections,
         pc'["worker"] \in {"idle", "write", "read"}
  PROVE  /\ States' <=> SoloStates(pc'["worker"], state', callback')
         /\ Counts' <=> SoloCounts(pc'["worker"], state', count', orphans')
         /\ MaskPhases' <=> SoloMasks(pc'["worker"], count', mask')
<1>1. Owned' <=> SoloOwned(pc'["worker"], state')
  BY DEF Owned, SoloOwned, At, Sections
<1>2. InFlight' <=> pc'["worker"] = "write"
  BY DEF InFlight, At, Sections
<1>3. States' <=> SoloStates(pc'["worker"], state', callback')
  BY DEF States, SoloStates, At, Sections
<1>4. Counts' <=> SoloCounts(pc'["worker"], state', count', orphans')
  BY <1>1 DEF Counts, SoloCounts
<1>5. MaskPhases' <=> SoloMasks(pc'["worker"], count', mask')
  BY <1>2 DEF MaskPhases, SoloMasks, At, Sections
<1> QED BY <1>3, <1>4, <1>5

(* A step that leaves the event, the count and the mask's bit alone, and   *)
(* neither leaves nor reaches a label at which they are being changed.     *)
LEMMA Quiet ==
  ASSUME IInv, NEW a \in Actors, NEW l \in Labels, Goto(a, l),
         pc[a] \notin Changing,
         l \notin Changing \union {"enable", "unregister"},
         a = "worker" => pc[a] # "write" /\ l # "write",
         UNCHANGED <<state, callback, orphans, count>>,
         "hist" \in mask' <=> "hist" \in mask
  PROVE  States' /\ Counts' /\ (MaskPhases => MaskPhases')
<1>1. /\ pc'[a] = l
      /\ \A b \in Actors \ {a} : pc'[b] = pc[b]
  BY GotoPc DEF IInv
<1>2. /\ \A b \in Threads, m \in Changing : pc'[b] = m <=> pc[b] = m
      /\ \A b \in Threads, m \in {"enable", "unregister"} :
           pc'[b] = m => pc[b] = m
      /\ pc'["worker"] = "write" <=> pc["worker"] = "write"
  BY <1>1 DEF Changing, Actors, Masters
<1>3. Owned' <=> Owned
  BY <1>2 DEF Owned, At, Changing
<1>4. InFlight' <=> InFlight
  BY <1>2 DEF InFlight, At, Changing
<1>5. States'
  BY <1>2 DEF IInv, States, At, Changing
<1>6. Counts'
  BY <1>3 DEF IInv, Counts
<1>7. MaskPhases => MaskPhases'
  BY <1>2, <1>4 DEF MaskPhases, At, Changing
<1> QED BY <1>5, <1>6, <1>7

(* The same for a step that leaves the masks and what was read of them.    *)
LEMMA QuietMasks ==
  ASSUME IInv, NEW a \in Actors \ {"peer"}, NEW l \in Labels, Goto(a, l),
         pc[a] \notin Changing,
         l \notin Changing \union {"enable", "unregister"},
         a = "worker" => pc[a] # "write" /\ l # "write",
         UNCHANGED <<state, callback, orphans, count, mask, seen, collided>>
  PROVE  States' /\ Counts' /\ Masks'
<1>1. States' /\ Counts' /\ (MaskPhases => MaskPhases')
  BY Quiet
<1>2. /\ pc'["peer"] = pc["peer"]
      /\ pc'["worker"] = "write" => pc["worker"] = "write"
  BY GotoPc DEF IInv, Actors, Masters
<1>3. PeerAgrees => PeerAgrees'
  BY <1>2 DEF PeerAgrees, At
<1> QED BY <1>1, <1>3 DEF IInv, Masks

-----------------------------------------------------------------------------
(* The steps of sde_cp_hist_interrupt, by any of its threads.              *)
LEMMA RegisterInv ==
  ASSUME NEW a \in Threads, IInv, Register(a)
  PROVE  IInv'
<1>1. pc[a] = "register"
  BY DEF Register, At
<1>2. /\ \A b \in Threads \ {a} : pc[b] \notin Sections
      /\ pc["worker"] # "write"
  BY <1>1, Alone DEF IInv, Sections
<1>3. SoloStates("register", state, callback)
  BY <1>1, <1>2, SoloThread DEF IInv
<1>4. SoloCounts("register", state, count, orphans)
  BY <1>1, <1>2, SoloThread DEF IInv
<1>5. ~collided => SoloMasks("register", count, mask)
  BY <1>1, <1>2, SoloThread DEF IInv, Masks
<1>6. count \in Nat
  BY DEF IInv, TypeOK
<1>7. CASE mixers
  <2>1. /\ callback' = TRUE
        /\ UNCHANGED <<enabled, lit, mixers, power_event, node, state,
            orphans, count, mask, pending, seen, irq_lock, refs, power, torn,
            collided, crtc_lock, spin_lock, busy>>
    BY <1>1, <1>7 DEF Register, At, crtc, irq, supply, history
  <2>2. Goto(a, "enable")
    BY <1>1, <1>7 DEF Register, At
  <2>3. /\ pc' \in [Actors -> Labels] /\ pc'[a] = "enable"
        /\ \A b \in Actors \ {a} : pc'[b] = pc[b]
    BY <2>2, GotoPc, LabelsListed, ActorsListed DEF IInv
  <2>4. /\ \A b \in Threads \ {a} : pc'[b] \notin Sections
        /\ pc'["worker"] # "write" /\ pc'["peer"] = pc["peer"]
    BY <1>2, <2>3, ActorsListed
  <2>5. SoloStates("enable", state', callback')
    BY <1>1, <1>3, <1>7, <2>1 DEF SoloStates
  <2>6. SoloCounts("enable", state', count', orphans')
    BY <1>1, <1>3, <1>4, <1>6, <1>7, <2>1 DEF SoloCounts, SoloOwned,
        SoloStates
  <2>7. ~collided' => SoloMasks("enable", count', mask')
    BY <1>1, <1>3, <1>4, <1>5, <1>6, <1>7, <2>1 DEF SoloMasks, SoloCounts,
        SoloOwned, SoloStates
  <2>8. ~collided' => PeerAgrees'
    BY <1>7, <2>1, <2>4 DEF IInv, Masks, PeerAgrees, At
  <2>9. States' /\ Counts' /\ Masks'
    BY <2>3, <2>4, <2>5, <2>6, <2>7, <2>8, SoloThreadNext DEF Masks
  <2>10. EventType'
    BY <2>1, Types DEF IInv, EventType
  <2>11. TypeOK'
    BY <2>1, <2>3, <2>10, Types, TypesKept, TypesNext DEF IInv, PcType
  <2>12. Locks'
    BY <1>1, <1>2, <1>7, <2>1, <2>3, ActorsListed DEF IInv, Locks, Sections,
        At
  <2>13. Fresh'
    BY <1>1, <1>7, <2>1, <2>3, ActorsListed DEF IInv, Fresh, Locks, Sections,
        At
  <2> QED BY <2>11, <2>12, <2>13, <2>9 DEF IInv
<1>8. CASE ~mixers
  <2>1. /\ callback' = (callback \/ mixers)
        /\ UNCHANGED <<enabled, lit, mixers, power_event, node, state,
            orphans, count, mask, pending, seen, irq_lock, refs, power, torn,
            collided, crtc_lock, spin_lock, busy>>
    BY <1>1, <1>8 DEF Register, At, crtc, irq, supply, history
  <2>2. Goto(a, "failed")
    BY <1>1, <1>8 DEF Register, At
  <2>3. /\ pc' \in [Actors -> Labels] /\ pc'[a] = "failed"
        /\ \A b \in Actors \ {a} : pc'[b] = pc[b]
    BY <2>2, GotoPc, LabelsListed, ActorsListed DEF IInv
  <2>4. /\ \A b \in Threads \ {a} : pc'[b] \notin Sections
        /\ pc'["worker"] # "write" /\ pc'["peer"] = pc["peer"]
    BY <1>2, <2>3, ActorsListed
  <2>5. SoloStates("failed", state', callback')
    BY <1>1, <1>3, <1>8, <2>1 DEF SoloStates
  <2>6. SoloCounts("failed", state', count', orphans')
    BY <1>1, <1>3, <1>4, <1>6, <1>8, <2>1 DEF SoloCounts, SoloOwned,
        SoloStates
  <2>7. ~collided' => SoloMasks("failed", count', mask')
    BY <1>1, <1>3, <1>4, <1>5, <1>6, <1>8, <2>1 DEF SoloMasks, SoloCounts,
        SoloOwned, SoloStates
  <2>8. ~collided' => PeerAgrees'
    BY <1>8, <2>1, <2>4 DEF IInv, Masks, PeerAgrees, At
  <2>9. States' /\ Counts' /\ Masks'
    BY <2>3, <2>4, <2>5, <2>6, <2>7, <2>8, SoloThreadNext DEF Masks
  <2>10. EventType'
    BY <2>1, Types DEF IInv, EventType
  <2>11. TypeOK'
    BY <2>1, <2>3, <2>10, Types, TypesKept, TypesNext DEF IInv, PcType
  <2>12. Locks'
    BY <1>1, <1>2, <1>8, <2>1, <2>3, ActorsListed DEF IInv, Locks, Sections,
        At
  <2>13. Fresh'
    BY <1>1, <1>8, <2>1, <2>3, ActorsListed DEF IInv, Fresh, Locks, Sections,
        At
  <2> QED BY <2>11, <2>12, <2>13, <2>9 DEF IInv
<1> QED BY <1>7, <1>8

LEMMA EnableInv ==
  ASSUME NEW a \in Threads, IInv, Enable(a)
  PROVE  IInv'
<1>1. pc[a] = "enable"
  BY DEF Enable, At
<1>2. /\ \A b \in Threads \ {a} : pc[b] \notin Sections
      /\ pc["worker"] # "write"
  BY <1>1, Alone DEF IInv, Sections
<1>3. SoloStates("enable", state, callback)
  BY <1>1, <1>2, SoloThread DEF IInv
<1>4. SoloCounts("enable", state, count, orphans)
  BY <1>1, <1>2, SoloThread DEF IInv
<1>5. ~collided => SoloMasks("enable", count, mask)
  BY <1>1, <1>2, SoloThread DEF IInv, Masks
<1>6. count \in Nat
  BY DEF IInv, TypeOK
<1>7. CASE state \in {"NOINIT", "DISABLED"} /\ count = 0
  <2>1. /\ count' = count + 1
        /\ UNCHANGED <<enabled, lit, mixers, power_event, node, state,
            callback, orphans, mask, pending, seen, irq_lock, refs, power,
            torn, collided, crtc_lock, spin_lock, busy>>
    BY <1>1, <1>7 DEF Enable, At, crtc, supply, history
  <2>2. Goto(a, "mask on")
    BY <1>1, <1>7 DEF Enable, At
  <2>3. /\ pc' \in [Actors -> Labels] /\ pc'[a] = "mask on"
        /\ \A b \in Actors \ {a} : pc'[b] = pc[b]
    BY <2>2, GotoPc, LabelsListed, ActorsListed DEF IInv
  <2>4. /\ \A b \in Threads \ {a} : pc'[b] \notin Sections
        /\ pc'["worker"] # "write" /\ pc'["peer"] = pc["peer"]
    BY <1>2, <2>3, ActorsListed
  <2>5. SoloStates("mask on", state', callback')
    BY <1>1, <1>3, <1>7, <2>1 DEF SoloStates
  <2>6. SoloCounts("mask on", state', count', orphans')
    BY <1>1, <1>3, <1>4, <1>6, <1>7, <2>1 DEF SoloCounts, SoloOwned,
        SoloStates
  <2>7. ~collided' => SoloMasks("mask on", count', mask')
    BY <1>1, <1>3, <1>4, <1>5, <1>6, <1>7, <2>1 DEF SoloMasks, SoloCounts,
        SoloOwned, SoloStates
  <2>8. ~collided' => PeerAgrees'
    BY <1>7, <2>1, <2>4 DEF IInv, Masks, PeerAgrees, At
  <2>9. States' /\ Counts' /\ Masks'
    BY <2>3, <2>4, <2>5, <2>6, <2>7, <2>8, SoloThreadNext DEF Masks
  <2>10. count' \in Nat
    BY <1>6, <2>1, <1>7
  <2>11. IrqType'
    BY <2>1, <2>10, Types DEF IInv, IrqType
  <2>12. TypeOK'
    BY <2>1, <2>3, <2>11, Types, TypesKept, TypesNext DEF IInv, PcType
  <2>13. Locks'
    BY <1>1, <1>2, <1>7, <2>1, <2>3, ActorsListed DEF IInv, Locks, Sections,
        At
  <2>14. Fresh'
    BY <1>1, <1>7, <2>1, <2>3, ActorsListed DEF IInv, Fresh, Locks, Sections,
        At
  <2> QED BY <2>12, <2>13, <2>14, <2>9 DEF IInv
<1>8. CASE state \in {"NOINIT", "DISABLED"} /\ count # 0
  <2>1. /\ count' = count + 1
        /\ state' = "ENABLED"
        /\ UNCHANGED <<enabled, lit, mixers, power_event, node, callback,
            orphans, mask, pending, seen, irq_lock, refs, power, torn,
            collided, crtc_lock, spin_lock, busy>>
    BY <1>1, <1>8 DEF Enable, At, crtc, supply, history
  <2>2. Goto(a, "done")
    BY <1>1, <1>8 DEF Enable, At
  <2>3. /\ pc' \in [Actors -> Labels] /\ pc'[a] = "done"
        /\ \A b \in Actors \ {a} : pc'[b] = pc[b]
    BY <2>2, GotoPc, LabelsListed, ActorsListed DEF IInv
  <2>4. /\ \A b \in Threads \ {a} : pc'[b] \notin Sections
        /\ pc'["worker"] # "write" /\ pc'["peer"] = pc["peer"]
    BY <1>2, <2>3, ActorsListed
  <2>5. SoloStates("done", state', callback')
    BY <1>1, <1>3, <1>8, <2>1 DEF SoloStates
  <2>6. SoloCounts("done", state', count', orphans')
    BY <1>1, <1>3, <1>4, <1>6, <1>8, <2>1 DEF SoloCounts, SoloOwned,
        SoloStates
  <2>7. ~collided' => SoloMasks("done", count', mask')
    BY <1>1, <1>3, <1>4, <1>5, <1>6, <1>8, <2>1 DEF SoloMasks, SoloCounts,
        SoloOwned, SoloStates
  <2>8. ~collided' => PeerAgrees'
    BY <1>8, <2>1, <2>4 DEF IInv, Masks, PeerAgrees, At
  <2>9. States' /\ Counts' /\ Masks'
    BY <2>3, <2>4, <2>5, <2>6, <2>7, <2>8, SoloThreadNext DEF Masks
  <2>10. count' \in Nat
    BY <1>6, <2>1, <1>8
  <2>11. EventType'
    BY <2>1, Types DEF IInv, EventType
  <2>12. IrqType'
    BY <2>1, <2>10, Types DEF IInv, IrqType
  <2>13. TypeOK'
    BY <2>1, <2>3, <2>11, <2>12, Types, TypesKept, TypesNext
      DEF IInv, PcType
  <2>14. Locks'
    BY <1>1, <1>2, <1>8, <2>1, <2>3, ActorsListed DEF IInv, Locks, Sections,
        At
  <2>15. Fresh'
    BY <1>1, <1>8, <2>1, <2>3, ActorsListed DEF IInv, Fresh, Locks, Sections,
        At
  <2> QED BY <2>13, <2>14, <2>15, <2>9 DEF IInv
<1>9. CASE state \notin {"NOINIT", "DISABLED"}
  <2>1. /\ UNCHANGED <<enabled, lit, mixers, power_event, node, state,
            callback, orphans, count, mask, pending, seen, irq_lock, refs,
            power, torn, collided, crtc_lock, spin_lock, busy>>
    BY <1>1, <1>9 DEF Enable, At, crtc, supply, history
  <2>2. Goto(a, "done")
    BY <1>1, <1>9 DEF Enable, At
  <2>3. /\ pc' \in [Actors -> Labels] /\ pc'[a] = "done"
        /\ \A b \in Actors \ {a} : pc'[b] = pc[b]
    BY <2>2, GotoPc, LabelsListed, ActorsListed DEF IInv
  <2>4. /\ \A b \in Threads \ {a} : pc'[b] \notin Sections
        /\ pc'["worker"] # "write" /\ pc'["peer"] = pc["peer"]
    BY <1>2, <2>3, ActorsListed
  <2>5. SoloStates("done", state', callback')
    BY <1>1, <1>3, <1>9, <2>1 DEF SoloStates
  <2>6. SoloCounts("done", state', count', orphans')
    BY <1>1, <1>3, <1>4, <1>6, <1>9, <2>1 DEF SoloCounts, SoloOwned,
        SoloStates
  <2>7. ~collided' => SoloMasks("done", count', mask')
    BY <1>1, <1>3, <1>4, <1>5, <1>6, <1>9, <2>1 DEF SoloMasks, SoloCounts,
        SoloOwned, SoloStates
  <2>8. ~collided' => PeerAgrees'
    BY <1>9, <2>1, <2>4 DEF IInv, Masks, PeerAgrees, At
  <2>9. States' /\ Counts' /\ Masks'
    BY <2>3, <2>4, <2>5, <2>6, <2>7, <2>8, SoloThreadNext DEF Masks
  <2>10. TypeOK'
    BY <2>1, <2>3, Types, TypesKept, TypesNext DEF IInv, PcType
  <2>11. Locks'
    BY <1>1, <1>2, <1>9, <2>1, <2>3, ActorsListed DEF IInv, Locks, Sections,
        At
  <2>12. Fresh'
    BY <1>1, <1>9, <2>1, <2>3, ActorsListed DEF IInv, Fresh, Locks, Sections,
        At
  <2> QED BY <2>10, <2>11, <2>12, <2>9 DEF IInv
<1> QED BY <1>7, <1>8, <1>9

LEMMA MaskOnInv ==
  ASSUME NEW a \in Threads, IInv, MaskOn(a)
  PROVE  IInv'
<1>1. pc[a] = "mask on" /\ irq_lock = "free"
  BY DEF MaskOn, ReadMask, At
<1>2. /\ \A b \in Threads \ {a} : pc[b] \notin Sections
      /\ pc["worker"] # "write"
  BY <1>1, Alone DEF IInv, Sections
<1>3. SoloStates("mask on", state, callback)
  BY <1>1, <1>2, SoloThread DEF IInv
<1>4. SoloCounts("mask on", state, count, orphans)
  BY <1>1, <1>2, SoloThread DEF IInv
<1>5. ~collided => SoloMasks("mask on", count, mask)
  BY <1>1, <1>2, SoloThread DEF IInv, Masks
<1>6. count \in Nat
  BY DEF IInv, TypeOK
<1>7. CASE "hist" \in mask
  <2>1. /\ state' = "ENABLED"
        /\ UNCHANGED <<enabled, lit, mixers, power_event, node, callback,
            orphans, count, mask, pending, seen, irq_lock, refs, power, torn,
            collided, crtc_lock, spin_lock, busy>>
    BY <1>1, <1>7 DEF MaskOn, ReadMask, At, crtc, supply, history
  <2>2. Goto(a, "done")
    BY <1>1, <1>7 DEF MaskOn, ReadMask, At
  <2>3. /\ pc' \in [Actors -> Labels] /\ pc'[a] = "done"
        /\ \A b \in Actors \ {a} : pc'[b] = pc[b]
    BY <2>2, GotoPc, LabelsListed, ActorsListed DEF IInv
  <2>4. /\ \A b \in Threads \ {a} : pc'[b] \notin Sections
        /\ pc'["worker"] # "write" /\ pc'["peer"] = pc["peer"]
    BY <1>2, <2>3, ActorsListed
  <2>5. SoloStates("done", state', callback')
    BY <1>1, <1>3, <1>7, <2>1 DEF SoloStates
  <2>6. SoloCounts("done", state', count', orphans')
    BY <1>1, <1>3, <1>4, <1>6, <1>7, <2>1 DEF SoloCounts, SoloOwned,
        SoloStates
  <2>7. ~collided' => SoloMasks("done", count', mask')
    BY <1>1, <1>3, <1>4, <1>5, <1>6, <1>7, <2>1 DEF SoloMasks, SoloCounts,
        SoloOwned, SoloStates
  <2>8. ~collided' => PeerAgrees'
    BY <1>7, <2>1, <2>4 DEF IInv, Masks, PeerAgrees, At
  <2>9. States' /\ Counts' /\ Masks'
    BY <2>3, <2>4, <2>5, <2>6, <2>7, <2>8, SoloThreadNext DEF Masks
  <2>10. EventType'
    BY <2>1, Types DEF IInv, EventType
  <2>11. TypeOK'
    BY <2>1, <2>3, <2>10, Types, TypesKept, TypesNext DEF IInv, PcType
  <2>12. Locks'
    BY <1>1, <1>2, <1>7, <2>1, <2>3, ActorsListed DEF IInv, Locks, Sections,
        At
  <2>13. Fresh'
    BY <1>1, <1>7, <2>1, <2>3, ActorsListed DEF IInv, Fresh, Locks, Sections,
        At
  <2> QED BY <2>11, <2>12, <2>13, <2>9 DEF IInv
<1>8. CASE "hist" \notin mask
  <2>1. /\ irq_lock' = a
        /\ seen' = [seen EXCEPT ![a] = mask]
        /\ UNCHANGED <<enabled, lit, mixers, power_event, node, state,
            callback, orphans, count, mask, pending, refs, power, torn,
            collided, crtc_lock, spin_lock, busy>>
    BY <1>1, <1>8 DEF MaskOn, ReadMask, At, crtc, supply, history
  <2>2. Goto(a, "write on")
    BY <1>1, <1>8 DEF MaskOn, ReadMask, At
  <2>3. /\ pc' \in [Actors -> Labels] /\ pc'[a] = "write on"
        /\ \A b \in Actors \ {a} : pc'[b] = pc[b]
    BY <2>2, GotoPc, LabelsListed, ActorsListed DEF IInv
  <2>4. /\ \A b \in Threads \ {a} : pc'[b] \notin Sections
        /\ pc'["worker"] # "write" /\ pc'["peer"] = pc["peer"]
    BY <1>2, <2>3, ActorsListed
  <2>5. SoloStates("write on", state', callback')
    BY <1>1, <1>3, <1>8, <2>1 DEF SoloStates
  <2>6. SoloCounts("write on", state', count', orphans')
    BY <1>1, <1>3, <1>4, <1>6, <1>8, <2>1 DEF SoloCounts, SoloOwned,
        SoloStates
  <2>7. ~collided' => SoloMasks("write on", count', mask')
    BY <1>1, <1>3, <1>4, <1>5, <1>6, <1>8, <2>1 DEF SoloMasks, SoloCounts,
        SoloOwned, SoloStates
  <2>8. ~collided' => PeerAgrees'
    BY <1>8, <2>1, <2>4 DEF IInv, Masks, PeerAgrees, At, TypeOK, Threads,
        Masters
  <2>9. States' /\ Counts' /\ Masks'
    BY <2>3, <2>4, <2>5, <2>6, <2>7, <2>8, SoloThreadNext DEF Masks
  <2>10. seen' \in [Masters -> SUBSET Bits]
    BY <2>1 DEF IInv, TypeOK, Bits, Threads, Masters
  <2>11. irq_lock' \in Threads \union {"isr", "peer", "free"}
    BY <2>1 DEF IInv, TypeOK, Threads
  <2>12. IrqType'
    BY <2>1, <2>10, Types DEF IInv, IrqType
  <2>13. LockType'
    BY <2>1, <2>11, Types DEF IInv, LockType, Threads
  <2>14. TypeOK'
    BY <2>1, <2>3, <2>12, <2>13, Types, TypesKept, TypesNext
      DEF IInv, PcType
  <2>15. Locks'
    BY <1>1, <1>2, <1>8, <2>1, <2>3, ActorsListed DEF IInv, Locks, Sections,
        At
  <2>16. Fresh'
    BY <1>1, <1>8, <2>1, <2>3, ActorsListed DEF IInv, Fresh, Locks, Sections,
        At
  <2> QED BY <2>14, <2>15, <2>16, <2>9 DEF IInv
<1> QED BY <1>7, <1>8

LEMMA WriteOnInv ==
  ASSUME NEW a \in Threads, IInv, WriteOn(a)
  PROVE  IInv'
<1>1. pc[a] = "write on"
  BY DEF WriteOn, WriteMask, Unlocked, At
<1>2. /\ \A b \in Threads \ {a} : pc[b] \notin Sections
      /\ pc["worker"] # "write"
  BY <1>1, Alone DEF IInv, Sections
<1>3. SoloStates("write on", state, callback)
  BY <1>1, <1>2, SoloThread DEF IInv
<1>4. SoloCounts("write on", state, count, orphans)
  BY <1>1, <1>2, SoloThread DEF IInv
<1>5. ~collided => SoloMasks("write on", count, mask)
  BY <1>1, <1>2, SoloThread DEF IInv, Masks
<1>6. count \in Nat
  BY DEF IInv, TypeOK
<1>7. irq_lock = a /\ pc["peer"] # "write"
  BY <1>1 DEF IInv, TypeOK, Locks, Threads, At
<1>8. /\ mask' = seen[a] \union {"hist"}
      /\ seen' = [seen EXCEPT ![a] = {}]
      /\ pending' = FALSE
      /\ irq_lock' = IF irq_lock = a THEN "free" ELSE irq_lock
      /\ state' = "ENABLED"
      /\ UNCHANGED <<enabled, lit, mixers, power_event, node, callback,
          orphans, count, refs, power, torn, collided, crtc_lock, spin_lock,
          busy>>
  BY <1>1 DEF WriteOn, WriteMask, Unlocked, At, crtc, supply, history
<1>9. Goto(a, "done")
  BY <1>1 DEF WriteOn, WriteMask, Unlocked, At
<1>10. /\ pc' \in [Actors -> Labels] /\ pc'[a] = "done"
       /\ \A b \in Actors \ {a} : pc'[b] = pc[b]
  BY <1>9, GotoPc, LabelsListed, ActorsListed DEF IInv
<1>11. /\ \A b \in Threads \ {a} : pc'[b] \notin Sections
       /\ pc'["worker"] # "write" /\ pc'["peer"] = pc["peer"]
  BY <1>2, <1>10, ActorsListed
<1>12. SoloStates("done", state', callback')
  BY <1>1, <1>3, <1>8 DEF SoloStates
<1>13. ~collided => count = 1
  BY <1>1, <1>5 DEF SoloMasks
<1>14. SoloCounts("done", state', count', orphans')
  BY <1>1, <1>3, <1>4, <1>6, <1>8 DEF SoloCounts, SoloOwned, SoloStates
<1>15. "hist" \in mask' /\ count' = count /\ (collided' <=> collided)
  BY <1>8
<1>16. ~collided' => SoloMasks("done", count', mask')
  BY <1>13, <1>15 DEF SoloMasks
<1>17. ~collided' => PeerAgrees'
  BY <1>7, <1>8, <1>11 DEF IInv, Masks, PeerAgrees, At, TypeOK, Threads,
      Masters
<1>18. States' /\ Counts' /\ Masks'
  BY <1>10, <1>11, <1>12, <1>14, <1>16, <1>17, SoloThreadNext
    DEF Masks
<1>19. mask' \in SUBSET Bits
  BY <1>8 DEF IInv, TypeOK, Bits, Threads, Masters
<1>20. seen' \in [Masters -> SUBSET Bits]
  BY <1>8 DEF IInv, TypeOK, Bits, Threads, Masters
<1>21. irq_lock' \in Threads \union {"isr", "peer", "free"}
  BY <1>8 DEF IInv, TypeOK, Threads
<1>22. EventType'
  BY <1>8, Types DEF IInv, EventType
<1>23. IrqType'
  BY <1>8, <1>19, <1>20, Types DEF IInv, IrqType
<1>24. LockType'
  BY <1>8, <1>21, Types DEF IInv, LockType, Threads
<1>25. TypeOK'
  BY <1>8, <1>10, <1>22, <1>23, <1>24, Types, TypesKept, TypesNext
    DEF IInv, PcType
<1>26. Locks'
  BY <1>1, <1>2, <1>7, <1>8, <1>10, ActorsListed DEF IInv, Locks, Sections,
      At
<1>27. Fresh'
  BY <1>1, <1>8, <1>10, ActorsListed DEF IInv, Fresh, Locks, Sections, At
<1> QED BY <1>25, <1>26, <1>27, <1>18 DEF IInv

LEMMA DisarmInv ==
  ASSUME NEW a \in Threads, IInv, Disarm(a)
  PROVE  IInv'
<1>1. pc[a] = "disarm"
  BY DEF Disarm, At
<1>2. /\ \A b \in Threads \ {a} : pc[b] \notin Sections
      /\ pc["worker"] # "write"
  BY <1>1, Alone DEF IInv, Sections
<1>3. SoloStates("disarm", state, callback)
  BY <1>1, <1>2, SoloThread DEF IInv
<1>4. SoloCounts("disarm", state, count, orphans)
  BY <1>1, <1>2, SoloThread DEF IInv
<1>5. ~collided => SoloMasks("disarm", count, mask)
  BY <1>1, <1>2, SoloThread DEF IInv, Masks
<1>6. count \in Nat
  BY DEF IInv, TypeOK
<1>7. state \in {"NOINIT", "ENABLED", "DISABLING", "DISABLED"}
  BY <1>1 DEF IInv, TypeOK, Locks, Threads, At
<1>8. CASE ~mixers
  <2>1. /\ UNCHANGED <<enabled, lit, mixers, power_event, node, state,
            callback, orphans, count, mask, pending, seen, irq_lock, refs,
            power, torn, collided, crtc_lock, spin_lock, busy>>
    BY <1>1, <1>8 DEF Disarm, At, crtc, irq, supply, history
  <2>2. Goto(a, "failed")
    BY <1>1, <1>8 DEF Disarm, At
  <2>3. /\ pc' \in [Actors -> Labels] /\ pc'[a] = "failed"
        /\ \A b \in Actors \ {a} : pc'[b] = pc[b]
    BY <2>2, GotoPc, LabelsListed, ActorsListed DEF IInv
  <2>4. /\ \A b \in Threads \ {a} : pc'[b] \notin Sections
        /\ pc'["worker"] # "write" /\ pc'["peer"] = pc["peer"]
    BY <1>2, <2>3, ActorsListed
  <2>5. SoloStates("failed", state', callback')
    BY <1>1, <1>3, <1>7, <1>8, <2>1 DEF SoloStates
  <2>6. SoloCounts("failed", state', count', orphans')
    BY <1>1, <1>3, <1>4, <1>6, <1>8, <2>1 DEF SoloCounts, SoloOwned,
        SoloStates
  <2>7. ~collided' => SoloMasks("failed", count', mask')
    BY <1>1, <1>3, <1>4, <1>5, <1>6, <1>8, <2>1 DEF SoloMasks, SoloCounts,
        SoloOwned, SoloStates
  <2>8. ~collided' => PeerAgrees'
    BY <1>7, <1>8, <2>1, <2>4 DEF IInv, Masks, PeerAgrees, At
  <2>9. States' /\ Counts' /\ Masks'
    BY <2>3, <2>4, <2>5, <2>6, <2>7, <2>8, SoloThreadNext DEF Masks
  <2>10. TypeOK'
    BY <2>1, <2>3, Types, TypesKept, TypesNext DEF IInv, PcType
  <2>11. Locks'
    BY <1>1, <1>2, <1>7, <1>8, <2>1, <2>3, ActorsListed DEF IInv, Locks,
        Sections, At
  <2>12. Fresh'
    BY <1>1, <1>8, <2>1, <2>3, ActorsListed DEF IInv, Fresh, Locks, Sections,
        At
  <2> QED BY <2>10, <2>11, <2>12, <2>9 DEF IInv
<1>9. CASE mixers /\ state = "ENABLED"
  <2>1. /\ state' = "DISABLING"
        /\ UNCHANGED <<enabled, lit, mixers, power_event, node, callback,
            orphans, count, mask, pending, seen, irq_lock, refs, power, torn,
            collided, crtc_lock, spin_lock, busy>>
    BY <1>1, <1>9 DEF Disarm, At, crtc, irq, supply, history
  <2>2. Goto(a, "mask off")
    BY <1>1, <1>9 DEF Disarm, At
  <2>3. /\ pc' \in [Actors -> Labels] /\ pc'[a] = "mask off"
        /\ \A b \in Actors \ {a} : pc'[b] = pc[b]
    BY <2>2, GotoPc, LabelsListed, ActorsListed DEF IInv
  <2>4. /\ \A b \in Threads \ {a} : pc'[b] \notin Sections
        /\ pc'["worker"] # "write" /\ pc'["peer"] = pc["peer"]
    BY <1>2, <2>3, ActorsListed
  <2>5. SoloStates("mask off", state', callback')
    BY <1>1, <1>3, <1>7, <1>9, <2>1 DEF SoloStates
  <2>6. SoloCounts("mask off", state', count', orphans')
    BY <1>1, <1>3, <1>4, <1>6, <1>9, <2>1 DEF SoloCounts, SoloOwned,
        SoloStates
  <2>7. ~collided' => SoloMasks("mask off", count', mask')
    BY <1>1, <1>3, <1>4, <1>5, <1>6, <1>9, <2>1 DEF SoloMasks, SoloCounts,
        SoloOwned, SoloStates
  <2>8. ~collided' => PeerAgrees'
    BY <1>7, <1>9, <2>1, <2>4 DEF IInv, Masks, PeerAgrees, At
  <2>9. States' /\ Counts' /\ Masks'
    BY <2>3, <2>4, <2>5, <2>6, <2>7, <2>8, SoloThreadNext DEF Masks
  <2>10. EventType'
    BY <2>1, Types DEF IInv, EventType
  <2>11. TypeOK'
    BY <2>1, <2>3, <2>10, Types, TypesKept, TypesNext DEF IInv, PcType
  <2>12. Locks'
    BY <1>1, <1>2, <1>7, <1>9, <2>1, <2>3, ActorsListed DEF IInv, Locks,
        Sections, At
  <2>13. Fresh'
    BY <1>1, <1>9, <2>1, <2>3, ActorsListed DEF IInv, Fresh, Locks, Sections,
        At
  <2> QED BY <2>11, <2>12, <2>13, <2>9 DEF IInv
<1>10. CASE mixers /\ state = "DISABLED"
  <2>1. /\ state' = "NOINIT"
        /\ UNCHANGED <<enabled, lit, mixers, power_event, node, callback,
            orphans, count, mask, pending, seen, irq_lock, refs, power, torn,
            collided, crtc_lock, spin_lock, busy>>
    BY <1>1, <1>10 DEF Disarm, At, crtc, irq, supply, history
  <2>2. Goto(a, "unregister")
    BY <1>1, <1>10 DEF Disarm, At
  <2>3. /\ pc' \in [Actors -> Labels] /\ pc'[a] = "unregister"
        /\ \A b \in Actors \ {a} : pc'[b] = pc[b]
    BY <2>2, GotoPc, LabelsListed, ActorsListed DEF IInv
  <2>4. /\ \A b \in Threads \ {a} : pc'[b] \notin Sections
        /\ pc'["worker"] # "write" /\ pc'["peer"] = pc["peer"]
    BY <1>2, <2>3, ActorsListed
  <2>5. SoloStates("unregister", state', callback')
    BY <1>1, <1>3, <1>7, <1>10, <2>1 DEF SoloStates
  <2>6. SoloCounts("unregister", state', count', orphans')
    BY <1>1, <1>3, <1>4, <1>6, <1>10, <2>1 DEF SoloCounts, SoloOwned,
        SoloStates
  <2>7. ~collided' => SoloMasks("unregister", count', mask')
    BY <1>1, <1>3, <1>4, <1>5, <1>6, <1>10, <2>1 DEF SoloMasks, SoloCounts,
        SoloOwned, SoloStates
  <2>8. ~collided' => PeerAgrees'
    BY <1>7, <1>10, <2>1, <2>4 DEF IInv, Masks, PeerAgrees, At
  <2>9. States' /\ Counts' /\ Masks'
    BY <2>3, <2>4, <2>5, <2>6, <2>7, <2>8, SoloThreadNext DEF Masks
  <2>10. EventType'
    BY <2>1, Types DEF IInv, EventType
  <2>11. TypeOK'
    BY <2>1, <2>3, <2>10, Types, TypesKept, TypesNext DEF IInv, PcType
  <2>12. Locks'
    BY <1>1, <1>2, <1>7, <1>10, <2>1, <2>3, ActorsListed DEF IInv, Locks,
        Sections, At
  <2>13. Fresh'
    BY <1>1, <1>10, <2>1, <2>3, ActorsListed DEF IInv, Fresh, Locks,
        Sections, At
  <2> QED BY <2>11, <2>12, <2>13, <2>9 DEF IInv
<1>11. CASE mixers /\ state \notin {"ENABLED", "DISABLED"}
  <2>1. /\ UNCHANGED <<enabled, lit, mixers, power_event, node, state,
            callback, orphans, count, mask, pending, seen, irq_lock, refs,
            power, torn, collided, crtc_lock, spin_lock, busy>>
    BY <1>1, <1>11 DEF Disarm, At, crtc, irq, supply, history
  <2>2. Goto(a, "unregister")
    BY <1>1, <1>11 DEF Disarm, At
  <2>3. /\ pc' \in [Actors -> Labels] /\ pc'[a] = "unregister"
        /\ \A b \in Actors \ {a} : pc'[b] = pc[b]
    BY <2>2, GotoPc, LabelsListed, ActorsListed DEF IInv
  <2>4. /\ \A b \in Threads \ {a} : pc'[b] \notin Sections
        /\ pc'["worker"] # "write" /\ pc'["peer"] = pc["peer"]
    BY <1>2, <2>3, ActorsListed
  <2>5. SoloStates("unregister", state', callback')
    BY <1>1, <1>3, <1>7, <1>11, <2>1 DEF SoloStates
  <2>6. SoloCounts("unregister", state', count', orphans')
    BY <1>1, <1>3, <1>4, <1>6, <1>11, <2>1 DEF SoloCounts, SoloOwned,
        SoloStates
  <2>7. ~collided' => SoloMasks("unregister", count', mask')
    BY <1>1, <1>3, <1>4, <1>5, <1>6, <1>11, <2>1 DEF SoloMasks, SoloCounts,
        SoloOwned, SoloStates
  <2>8. ~collided' => PeerAgrees'
    BY <1>7, <1>11, <2>1, <2>4 DEF IInv, Masks, PeerAgrees, At
  <2>9. States' /\ Counts' /\ Masks'
    BY <2>3, <2>4, <2>5, <2>6, <2>7, <2>8, SoloThreadNext DEF Masks
  <2>10. TypeOK'
    BY <2>1, <2>3, Types, TypesKept, TypesNext DEF IInv, PcType
  <2>11. Locks'
    BY <1>1, <1>2, <1>7, <1>11, <2>1, <2>3, ActorsListed DEF IInv, Locks,
        Sections, At
  <2>12. Fresh'
    BY <1>1, <1>11, <2>1, <2>3, ActorsListed DEF IInv, Fresh, Locks,
        Sections, At
  <2> QED BY <2>10, <2>11, <2>12, <2>9 DEF IInv
<1> QED BY <1>8, <1>9, <1>10, <1>11

LEMMA MaskOffInv ==
  ASSUME NEW a \in Threads, IInv, MaskOff(a)
  PROVE  IInv'
<1>1. pc[a] = "mask off" /\ irq_lock = "free"
  BY DEF MaskOff, ReadMask, At
<1>2. /\ \A b \in Threads \ {a} : pc[b] \notin Sections
      /\ pc["worker"] # "write"
  BY <1>1, Alone DEF IInv, Sections
<1>3. SoloStates("mask off", state, callback)
  BY <1>1, <1>2, SoloThread DEF IInv
<1>4. SoloCounts("mask off", state, count, orphans)
  BY <1>1, <1>2, SoloThread DEF IInv
<1>5. ~collided => SoloMasks("mask off", count, mask)
  BY <1>1, <1>2, SoloThread DEF IInv, Masks
<1>6. count \in Nat
  BY DEF IInv, TypeOK
<1>7. count # 0 /\ count >= 1
  BY <1>4, <1>6 DEF SoloCounts, SoloOwned
<1>8. CASE count = 1 /\ "hist" \in mask
  <2>1. /\ count' = count - 1
        /\ irq_lock' = a
        /\ seen' = [seen EXCEPT ![a] = mask]
        /\ UNCHANGED <<enabled, lit, mixers, power_event, node, state,
            callback, orphans, mask, pending, refs, power, torn, collided,
            crtc_lock, spin_lock, busy>>
    BY <1>1, <1>7, <1>8 DEF MaskOff, ReadMask, At, crtc, supply, history
  <2>2. Goto(a, "write off")
    BY <1>1, <1>8 DEF MaskOff, ReadMask, At
  <2>3. /\ pc' \in [Actors -> Labels] /\ pc'[a] = "write off"
        /\ \A b \in Actors \ {a} : pc'[b] = pc[b]
    BY <2>2, GotoPc, LabelsListed, ActorsListed DEF IInv
  <2>4. /\ \A b \in Threads \ {a} : pc'[b] \notin Sections
        /\ pc'["worker"] # "write" /\ pc'["peer"] = pc["peer"]
    BY <1>2, <2>3, ActorsListed
  <2>5. SoloStates("write off", state', callback')
    BY <1>1, <1>3, <1>8, <2>1 DEF SoloStates
  <2>6. count' = 0 /\ orphans' = orphans /\ state' = "DISABLING"
    BY <1>3, <1>8, <2>1 DEF SoloStates
  <2>7. mask' = mask /\ "hist" \in mask
    BY <1>8, <2>1
  <2>8. SoloCounts("write off", state', count', orphans')
    BY <2>6 DEF SoloCounts, SoloOwned
  <2>9. ~collided' => SoloMasks("write off", count', mask')
    BY <2>6, <2>7 DEF SoloMasks
  <2>10. ~collided' => PeerAgrees'
    BY <1>7, <1>8, <2>1, <2>4 DEF IInv, Masks, PeerAgrees, At, TypeOK,
        Threads, Masters
  <2>11. States' /\ Counts' /\ Masks'
    BY <2>3, <2>4, <2>5, <2>8, <2>9, <2>10, SoloThreadNext DEF Masks
  <2>12. count' \in Nat
    BY <1>6, <2>1, <1>8, <1>7
  <2>13. seen' \in [Masters -> SUBSET Bits]
    BY <2>1 DEF IInv, TypeOK, Bits, Threads, Masters
  <2>14. irq_lock' \in Threads \union {"isr", "peer", "free"}
    BY <2>1 DEF IInv, TypeOK, Threads
  <2>15. IrqType'
    BY <2>1, <2>12, <2>13, Types DEF IInv, IrqType
  <2>16. LockType'
    BY <2>1, <2>14, Types DEF IInv, LockType, Threads
  <2>17. TypeOK'
    BY <2>1, <2>3, <2>15, <2>16, Types, TypesKept, TypesNext
      DEF IInv, PcType
  <2>18. Locks'
    BY <1>1, <1>2, <1>7, <1>8, <2>1, <2>3, ActorsListed DEF IInv, Locks,
        Sections, At
  <2>19. Fresh'
    BY <1>1, <1>8, <2>1, <2>3, ActorsListed DEF IInv, Fresh, Locks, Sections,
        At
  <2> QED BY <2>17, <2>18, <2>19, <2>11 DEF IInv
<1>9. CASE ~(count = 1 /\ "hist" \in mask)
  <2>1. /\ count' = count - 1
        /\ state' = "NOINIT"
        /\ UNCHANGED <<enabled, lit, mixers, power_event, node, callback,
            orphans, mask, pending, seen, irq_lock, refs, power, torn,
            collided, crtc_lock, spin_lock, busy>>
    BY <1>1, <1>7, <1>9 DEF MaskOff, ReadMask, At, crtc, supply, history
  <2>2. Goto(a, "unregister")
    BY <1>1, <1>9 DEF MaskOff, ReadMask, At
  <2>3. /\ pc' \in [Actors -> Labels] /\ pc'[a] = "unregister"
        /\ \A b \in Actors \ {a} : pc'[b] = pc[b]
    BY <2>2, GotoPc, LabelsListed, ActorsListed DEF IInv
  <2>4. /\ \A b \in Threads \ {a} : pc'[b] \notin Sections
        /\ pc'["worker"] # "write" /\ pc'["peer"] = pc["peer"]
    BY <1>2, <2>3, ActorsListed
  <2>5. SoloStates("unregister", state', callback')
    BY <1>1, <1>3, <1>9, <2>1 DEF SoloStates
  <2>6. orphans = 0 => count' = 0
    BY <1>4, <1>6, <1>7, <2>1 DEF SoloCounts, SoloOwned
  <2>7. orphans' = orphans /\ state' = "NOINIT" /\ mask' = mask /\ collided' = collided
    BY <2>1
  <2>8. ~collided => "hist" \in mask /\ count' >= 1
    BY <1>5, <1>6, <1>7, <1>9, <2>1 DEF SoloMasks
  <2>9. count' \in Nat
    BY <1>6, <1>7, <2>1
  <2>10. SoloCounts("unregister", state', count', orphans')
    BY <2>6, <2>7 DEF SoloCounts, SoloOwned
  <2>11. ~collided' => SoloMasks("unregister", count', mask')
    BY <2>7, <2>8, <2>9 DEF SoloMasks
  <2>12. ~collided' => PeerAgrees'
    BY <1>7, <1>9, <2>1, <2>4 DEF IInv, Masks, PeerAgrees, At
  <2>13. States' /\ Counts' /\ Masks'
    BY <2>3, <2>4, <2>5, <2>10, <2>11, <2>12, SoloThreadNext
      DEF Masks
  <2>14. count' \in Nat
    BY <1>6, <2>1, <1>9, <1>7
  <2>15. EventType'
    BY <2>1, Types DEF IInv, EventType
  <2>16. IrqType'
    BY <2>1, <2>14, Types DEF IInv, IrqType
  <2>17. TypeOK'
    BY <2>1, <2>3, <2>15, <2>16, Types, TypesKept, TypesNext
      DEF IInv, PcType
  <2>18. Locks'
    BY <1>1, <1>2, <1>7, <1>9, <2>1, <2>3, ActorsListed DEF IInv, Locks,
        Sections, At
  <2>19. Fresh'
    BY <1>1, <1>9, <2>1, <2>3, ActorsListed DEF IInv, Fresh, Locks, Sections,
        At
  <2> QED BY <2>17, <2>18, <2>19, <2>13 DEF IInv
<1> QED BY <1>8, <1>9

LEMMA WriteOffInv ==
  ASSUME NEW a \in Threads, IInv, WriteOff(a)
  PROVE  IInv'
<1>1. pc[a] = "write off"
  BY DEF WriteOff, WriteMask, Unlocked, At
<1>2. /\ \A b \in Threads \ {a} : pc[b] \notin Sections
      /\ pc["worker"] # "write"
  BY <1>1, Alone DEF IInv, Sections
<1>3. SoloStates("write off", state, callback)
  BY <1>1, <1>2, SoloThread DEF IInv
<1>4. SoloCounts("write off", state, count, orphans)
  BY <1>1, <1>2, SoloThread DEF IInv
<1>5. ~collided => SoloMasks("write off", count, mask)
  BY <1>1, <1>2, SoloThread DEF IInv, Masks
<1>6. count \in Nat
  BY DEF IInv, TypeOK
<1>7. irq_lock = a /\ pc["peer"] # "write"
  BY <1>1 DEF IInv, TypeOK, Locks, Threads, At
<1>8. /\ mask' = seen[a] \ {"hist"}
      /\ seen' = [seen EXCEPT ![a] = {}]
      /\ pending' = FALSE
      /\ irq_lock' = IF irq_lock = a THEN "free" ELSE irq_lock
      /\ state' = "NOINIT"
      /\ UNCHANGED <<enabled, lit, mixers, power_event, node, callback,
          orphans, count, refs, power, torn, collided, crtc_lock, spin_lock,
          busy>>
  BY <1>1 DEF WriteOff, WriteMask, Unlocked, At, crtc, supply, history
<1>9. Goto(a, "unregister")
  BY <1>1 DEF WriteOff, WriteMask, Unlocked, At
<1>10. /\ pc' \in [Actors -> Labels] /\ pc'[a] = "unregister"
       /\ \A b \in Actors \ {a} : pc'[b] = pc[b]
  BY <1>9, GotoPc, LabelsListed, ActorsListed DEF IInv
<1>11. /\ \A b \in Threads \ {a} : pc'[b] \notin Sections
       /\ pc'["worker"] # "write" /\ pc'["peer"] = pc["peer"]
  BY <1>2, <1>10, ActorsListed
<1>12. SoloStates("unregister", state', callback')
  BY <1>1, <1>3, <1>8 DEF SoloStates
<1>13. ~collided => count = 0
  BY <1>1, <1>5 DEF SoloMasks
<1>14. SoloCounts("unregister", state', count', orphans')
  BY <1>1, <1>3, <1>4, <1>6, <1>8 DEF SoloCounts, SoloOwned, SoloStates
<1>15. "hist" \notin mask' /\ count' = count /\ (collided' <=> collided)
  BY <1>8
<1>16. ~collided' => SoloMasks("unregister", count', mask')
  BY <1>13, <1>15 DEF SoloMasks
<1>17. ~collided' => PeerAgrees'
  BY <1>7, <1>8, <1>11 DEF IInv, Masks, PeerAgrees, At, TypeOK, Threads,
      Masters
<1>18. States' /\ Counts' /\ Masks'
  BY <1>10, <1>11, <1>12, <1>14, <1>16, <1>17, SoloThreadNext
    DEF Masks
<1>19. mask' \in SUBSET Bits
  BY <1>8 DEF IInv, TypeOK, Bits, Threads, Masters
<1>20. seen' \in [Masters -> SUBSET Bits]
  BY <1>8 DEF IInv, TypeOK, Bits, Threads, Masters
<1>21. irq_lock' \in Threads \union {"isr", "peer", "free"}
  BY <1>8 DEF IInv, TypeOK, Threads
<1>22. EventType'
  BY <1>8, Types DEF IInv, EventType
<1>23. IrqType'
  BY <1>8, <1>19, <1>20, Types DEF IInv, IrqType
<1>24. LockType'
  BY <1>8, <1>21, Types DEF IInv, LockType, Threads
<1>25. TypeOK'
  BY <1>8, <1>10, <1>22, <1>23, <1>24, Types, TypesKept, TypesNext
    DEF IInv, PcType
<1>26. Locks'
  BY <1>1, <1>2, <1>7, <1>8, <1>10, ActorsListed DEF IInv, Locks, Sections,
      At
<1>27. Fresh'
  BY <1>1, <1>8, <1>10, ActorsListed DEF IInv, Fresh, Locks, Sections, At
<1> QED BY <1>25, <1>26, <1>27, <1>18 DEF IInv

LEMMA UnregisterInv ==
  ASSUME NEW a \in Threads, IInv, Unregister(a)
  PROVE  IInv'
<1>1. pc[a] = "unregister"
  BY DEF Unregister, At
<1>2. /\ \A b \in Threads \ {a} : pc[b] \notin Sections
      /\ pc["worker"] # "write"
  BY <1>1, Alone DEF IInv, Sections
<1>3. SoloStates("unregister", state, callback)
  BY <1>1, <1>2, SoloThread DEF IInv
<1>4. SoloCounts("unregister", state, count, orphans)
  BY <1>1, <1>2, SoloThread DEF IInv
<1>5. ~collided => SoloMasks("unregister", count, mask)
  BY <1>1, <1>2, SoloThread DEF IInv, Masks
<1>6. count \in Nat
  BY DEF IInv, TypeOK
<1>7. /\ callback' = FALSE
      /\ UNCHANGED <<enabled, lit, mixers, power_event, node, state, orphans,
          count, mask, pending, seen, irq_lock, refs, power, torn, collided,
          crtc_lock, spin_lock, busy>>
  BY <1>1 DEF Unregister, At, crtc, irq, supply, history
<1>8. Goto(a, "done")
  BY <1>1 DEF Unregister, At
<1>9. /\ pc' \in [Actors -> Labels] /\ pc'[a] = "done"
      /\ \A b \in Actors \ {a} : pc'[b] = pc[b]
  BY <1>8, GotoPc, LabelsListed, ActorsListed DEF IInv
<1>10. /\ \A b \in Threads \ {a} : pc'[b] \notin Sections
       /\ pc'["worker"] # "write" /\ pc'["peer"] = pc["peer"]
  BY <1>2, <1>9, ActorsListed
<1>11. SoloStates("done", state', callback')
  BY <1>1, <1>3, <1>7 DEF SoloStates
<1>12. SoloCounts("done", state', count', orphans')
  BY <1>1, <1>3, <1>4, <1>6, <1>7 DEF SoloCounts, SoloOwned, SoloStates
<1>13. ~collided' => SoloMasks("done", count', mask')
  BY <1>1, <1>3, <1>4, <1>5, <1>6, <1>7 DEF SoloMasks, SoloCounts, SoloOwned,
      SoloStates
<1>14. ~collided' => PeerAgrees'
  BY <1>7, <1>10 DEF IInv, Masks, PeerAgrees, At
<1>15. States' /\ Counts' /\ Masks'
  BY <1>9, <1>10, <1>11, <1>12, <1>13, <1>14, SoloThreadNext
    DEF Masks
<1>16. EventType'
  BY <1>7, Types DEF IInv, EventType
<1>17. TypeOK'
  BY <1>7, <1>9, <1>16, Types, TypesKept, TypesNext DEF IInv, PcType
<1>18. Locks'
  BY <1>1, <1>2, <1>7, <1>9, ActorsListed DEF IInv, Locks, Sections, At
<1>19. Fresh'
  BY <1>1, <1>7, <1>9, ActorsListed DEF IInv, Fresh, Locks, Sections, At
<1> QED BY <1>17, <1>18, <1>19, <1>15 DEF IInv

-----------------------------------------------------------------------------
(* The interrupt, the frame and the peer.                                  *)
LEMMA FireInv ==
  ASSUME IInv, Fire
  PROVE  IInv'
<1>1. pc["isr"] = "idle" /\ irq_lock = "free"
  BY DEF Fire, At
<1>2. /\ pending' = FALSE
      /\ irq_lock' = "isr"
      /\ UNCHANGED <<enabled, lit, mixers, power_event, node, state,
          callback, orphans, count, mask, seen, refs, power, torn, collided,
          crtc_lock, spin_lock, busy>>
  BY <1>1 DEF Fire, At, crtc, event, supply, history
<1>3. Goto("isr", "deliver")
  BY <1>1 DEF Fire, At
<1>4. /\ pc' \in [Actors -> Labels] /\ pc'["isr"] = "deliver"
      /\ \A b \in Actors \ {"isr"} : pc'[b] = pc[b]
  BY <1>3, GotoPc, LabelsListed, ActorsListed DEF IInv
<1>5. States' /\ Counts' /\ Masks'
  BY <1>1, <1>2, <1>3, QuietMasks, LabelsListed, ActorsListed
    DEF Changing
<1>6. IrqType'
  BY <1>2, Types DEF IInv, IrqType
<1>7. LockType'
  BY <1>2, Types DEF IInv, LockType, Threads
<1>8. TypeOK'
  BY <1>2, <1>4, <1>6, <1>7, Types, TypesKept, TypesNext DEF IInv, PcType
<1>9. Locks'
  BY <1>1, <1>2, <1>4, ActorsListed DEF IInv, Locks, Sections, At
<1>10. Fresh'
  BY <1>1, <1>2, <1>4, ActorsListed DEF IInv, Fresh, Locks, Sections, At
<1> QED BY <1>8, <1>9, <1>10, <1>5 DEF IInv

LEMMA DeliverInv ==
  ASSUME IInv, Deliver
  PROVE  IInv'
<1>1. /\ Goto("isr", "idle") /\ pc["isr"] = "deliver"
      /\ irq_lock' = IF irq_lock = "isr" THEN "free" ELSE irq_lock
      /\ UNCHANGED <<enabled, lit, mixers, power_event, node, state, callback,
                     orphans, count, mask, pending, seen, refs, power, torn,
                     collided, crtc_lock, spin_lock>>
  BY DEF Deliver, At, Unlocked, crtc, event, supply, history
<1>2. busy' \in 0 .. PoolSize /\ (busy > 0 => busy' > 0)
  <2>1. PICK n \in 0 .. orphans : busy' = Queued(n + IF callback THEN 1 ELSE 0)
    BY DEF Deliver
  <2>2. n + (IF callback THEN 1 ELSE 0) \in Nat /\ busy \in Nat /\ PoolSize >= 1
    BY <2>1, OrphansAssumption, PoolAssumption DEF IInv, TypeOK
  <2> QED BY <2>1, <2>2, PoolAssumption DEF Queued
<1>3. /\ pc' \in [Actors -> Labels] /\ pc'["isr"] = "idle"
      /\ \A b \in Actors \ {"isr"} : pc'[b] = pc[b]
  BY <1>1, GotoPc, LabelsListed, ActorsListed DEF IInv
<1>4. States' /\ Counts' /\ Masks'
  BY <1>1, QuietMasks, LabelsListed, ActorsListed DEF Changing
<1>5. irq_lock' \in Threads \union {"isr", "peer", "free"}
  BY <1>1 DEF IInv, TypeOK
<1>6. TypeOK'
  BY <1>1, <1>2, <1>3, <1>5 DEF IInv, TypeOK, Actors
<1>7. Locks'
  BY <1>1, <1>2, <1>3, ActorsListed DEF IInv, Locks, Sections, At
<1>8. Fresh'
  BY <1>1, <1>3, ActorsListed DEF IInv, Fresh
<1> QED BY <1>4, <1>6, <1>7, <1>8 DEF IInv

LEMMA FrameDoneInv ==
  ASSUME IInv, FrameDone
  PROVE  IInv'
<1>1. /\ pending' = TRUE
      /\ UNCHANGED <<enabled, lit, mixers, power_event, node, state, callback,
                     orphans, count, mask, seen, irq_lock, refs, power, torn,
                     collided, crtc_lock, spin_lock, busy, pc>>
  BY DEF FrameDone, crtc, event, supply, history
<1>2. TypeOK'
  BY <1>1 DEF IInv, TypeOK
<1>3. Locks' /\ Fresh'
  BY <1>1 DEF IInv, Locks, Fresh, At
<1>4. States'
  BY <1>1 DEF IInv, States, At
<1>5. Counts'
  BY <1>1 DEF IInv, Counts, Owned, At
<1>6. Masks'
  BY <1>1 DEF IInv, Masks, MaskPhases, PeerAgrees, InFlight, At
<1> QED BY <1>2, <1>3, <1>4, <1>5, <1>6 DEF IInv

LEMMA PeerReadInv ==
  ASSUME IInv, PeerRead
  PROVE  IInv'
<1>1. /\ pc["peer"] = "idle" /\ irq_lock = "free" /\ irq_lock' = "peer"
      /\ seen' = [seen EXCEPT !["peer"] = mask]
      /\ collided' = (collided \/ At("worker", "write"))
      /\ Goto("peer", "write")
      /\ UNCHANGED <<enabled, lit, mixers, power_event, node, state, callback,
                     orphans, count, mask, pending, refs, power, torn,
                     crtc_lock, spin_lock, busy>>
  BY DEF PeerRead, ReadMask, At, crtc, event, supply
<1>2. /\ pc' \in [Actors -> Labels] /\ pc'["peer"] = "write"
      /\ \A b \in Actors \ {"peer"} : pc'[b] = pc[b]
  BY <1>1, GotoPc, LabelsListed, ActorsListed DEF IInv
<1>3. seen' \in [Masters -> SUBSET Bits] /\ seen'["peer"] = mask
  BY <1>1 DEF IInv, TypeOK, Masters
<1>4. TypeOK'
  <2>1. collided' \in BOOLEAN
    BY <1>1 DEF IInv, TypeOK
  <2> QED BY <1>1, <1>2, <1>3, <2>1 DEF IInv, TypeOK, Actors
<1>5. Locks'
  BY <1>1, <1>2, ActorsListed DEF IInv, Locks, Sections, At
<1>6. States' /\ Counts' /\ (MaskPhases => MaskPhases')
  BY <1>1, Quiet, LabelsListed, ActorsListed DEF Changing
<1>7. ~collided' => PeerAgrees'
  BY <1>1, <1>2, <1>3, ActorsListed DEF PeerAgrees, At
<1>8. Masks'
  BY <1>1, <1>6, <1>7 DEF IInv, Masks
<1>9. Fresh'
  BY <1>1, <1>2, ActorsListed DEF IInv, Fresh
<1> QED BY <1>4, <1>5, <1>6, <1>8, <1>9 DEF IInv

LEMMA PeerWriteInv ==
  ASSUME IInv, PeerWrite
  PROVE  IInv'
<1>1. /\ pc["peer"] = "write"
      /\ mask' = IF "peer" \in seen["peer"] THEN seen["peer"] \ {"peer"}
                 ELSE seen["peer"] \union {"peer"}
      /\ seen' = [seen EXCEPT !["peer"] = {}]
      /\ irq_lock' = IF irq_lock = "peer" THEN "free" ELSE irq_lock
      /\ Goto("peer", "idle")
      /\ UNCHANGED <<enabled, lit, mixers, power_event, node, state, callback,
                     orphans, count, pending, refs, power, torn, collided,
                     crtc_lock, spin_lock, busy>>
  BY DEF PeerWrite, WriteMask, Unlocked, At, crtc, event, supply, history
<1>2. /\ pc' \in [Actors -> Labels] /\ pc'["peer"] = "idle"
      /\ \A b \in Actors \ {"peer"} : pc'[b] = pc[b]
  BY <1>1, GotoPc, LabelsListed, ActorsListed DEF IInv
<1>3. seen' \in [Masters -> SUBSET Bits] /\ mask' \subseteq Bits
  BY <1>1 DEF IInv, TypeOK, Masters, Bits
<1>4. irq_lock' \in Threads \union {"isr", "peer", "free"}
  BY <1>1 DEF IInv, TypeOK
<1>5. TypeOK'
  BY <1>1, <1>2, <1>3, <1>4 DEF IInv, TypeOK, Actors
<1>6. irq_lock = "peer"
  BY <1>1 DEF IInv, Locks, At
<1>7. Locks'
  BY <1>1, <1>2, <1>6, ActorsListed DEF IInv, Locks, Sections, At
<1>8. "hist" \in mask' <=> "hist" \in seen["peer"]
  BY <1>1
<1>9. ASSUME ~collided
      PROVE  States' /\ Counts' /\ Masks'
  <2>1. "hist" \in mask' <=> "hist" \in mask
    BY <1>1, <1>8, <1>9 DEF IInv, Masks, PeerAgrees, At
  <2>2. States' /\ Counts' /\ (MaskPhases => MaskPhases')
    BY <1>1, <2>1, Quiet, LabelsListed, ActorsListed DEF Changing
  <2>3. PeerAgrees'
    BY <1>2 DEF PeerAgrees, At
  <2> QED BY <1>9, <2>2, <2>3 DEF IInv, Masks
<1>10. ASSUME collided
       PROVE  States' /\ Counts' /\ Masks'
  <2>1. \A b \in Threads \union {"worker"} : pc'[b] = pc[b]
    BY <1>2, ActorsListed
  <2>2. Owned' <=> Owned
    BY <1>1, <2>1 DEF Owned, At
  <2>3. States'
    BY <1>1, <2>1 DEF IInv, States, At
  <2> QED BY <1>1, <1>10, <2>2, <2>3 DEF IInv, Counts, Masks
<1>11. Fresh'
  BY <1>1, <1>2, ActorsListed DEF IInv, Fresh
<1> QED BY <1>5, <1>7, <1>9, <1>10, <1>11 DEF IInv

-----------------------------------------------------------------------------
(* The worker.                                                             *)
LEMMA NotifyInv ==
  ASSUME IInv, Notify
  PROVE  IInv'
<1>1. pc["worker"] = "idle" /\ spin_lock = "free" /\ busy > 0
  BY DEF Notify, ReadMask, At
<1>2. count \in Nat
  BY DEF IInv, TypeOK
<1>3. CASE node = "listed" /\ state = "ENABLED" /\ count = 1 /\ "hist" \in mask
  <2>1. /\ count' = count - 1
        /\ seen' = [seen EXCEPT !["worker"] = mask]
        /\ spin_lock' = "worker"
        /\ collided' = (collided \/ At("peer", "write"))
        /\ UNCHANGED <<enabled, lit, mixers, power_event, node, state,
            callback, orphans, mask, pending, irq_lock, refs, power, torn,
            crtc_lock, busy>>
    BY <1>1, <1>3 DEF Notify, ReadMask, At, crtc, supply
  <2>2. Goto("worker", "write")
    BY <1>1, <1>3 DEF Notify, ReadMask, At
  <2>3. /\ pc' \in [Actors -> Labels] /\ pc'["worker"] = "write"
        /\ \A b \in Actors \ {"worker"} : pc'[b] = pc[b]
    BY <2>2, GotoPc, LabelsListed, ActorsListed DEF IInv
  <2>4. \A b \in Threads : pc[b] \notin Sections
    BY <1>1, <1>3 DEF IInv, Locks, Sections, Threads, At
  <2>5. /\ \A b \in Threads : pc'[b] \notin Sections
        /\ pc'["peer"] = pc["peer"]
    BY <2>4, <2>3, ActorsListed
  <2>6. SoloStates("idle", state, callback)
    BY <1>1, <2>4, SoloWorker DEF IInv
  <2>7. SoloCounts("idle", state, count, orphans)
    BY <1>1, <2>4, SoloWorker DEF IInv
  <2>8. ~collided => SoloMasks("idle", count, mask)
    BY <1>1, <2>4, SoloWorker DEF IInv, Masks
  <2>9. SoloStates("write", state', callback')
    BY <1>1, <2>6, <1>3, <2>1 DEF SoloStates
  <2>10. SoloCounts("write", state', count', orphans')
    BY <1>1, <2>6, <2>7, <1>2, <1>3, <2>1 DEF SoloCounts, SoloOwned,
        SoloStates
  <2>11. ~collided' => SoloMasks("write", count', mask')
    BY <1>1, <2>6, <2>7, <2>8, <1>2, <1>3, <2>1 DEF SoloMasks, SoloCounts,
        SoloOwned, SoloStates
  <2>12. ~collided' => PeerAgrees'
    BY <1>1, <1>3, <2>1, <2>3, <2>5 DEF IInv, Masks, PeerAgrees, At, TypeOK,
        Masters
  <2>13. States' /\ Counts' /\ Masks'
    BY <2>3, <2>5, <2>9, <2>10, <2>11, <2>12, SoloWorkerNext
      DEF Masks
  <2>14. count' \in Nat
    BY <1>2, <2>7, <1>3, <2>1 DEF SoloCounts, SoloOwned
  <2>15. seen' \in [Masters -> SUBSET Bits]
    BY <2>1 DEF IInv, TypeOK, Bits, Masters
  <2>16. IrqType'
    BY <2>1, <2>14, <2>15, Types DEF IInv, IrqType
  <2>17. LockType'
    BY <2>1, Types DEF IInv, LockType
  <2>18. RestType'
    BY <2>1, Types DEF IInv, RestType
  <2>19. TypeOK'
    BY <2>1, <2>3, <2>16, <2>17, <2>18, Types, TypesKept, TypesNext
      DEF IInv, PcType
  <2>20. Locks'
    BY <1>1, <2>4, <1>3, <2>1, <2>3, ActorsListed DEF IInv, Locks, Sections,
        At
  <2>21. Fresh'
    BY <1>1, <1>3, <2>1, <2>3, ActorsListed DEF IInv, Fresh, Locks, Sections,
        At
  <2> QED BY <2>19, <2>20, <2>21, <2>13 DEF IInv
<1>4. CASE node = "listed" /\ state = "ENABLED" /\ ~(count = 1 /\ "hist" \in mask)
  <2>1. /\ count' = count - 1
        /\ state' = "DISABLED"
        /\ UNCHANGED <<enabled, lit, mixers, power_event, node, callback,
            orphans, mask, pending, seen, irq_lock, refs, power, torn,
            collided, crtc_lock, spin_lock, busy>>
    BY <1>1, <1>4 DEF Notify, ReadMask, At, crtc, supply
  <2>2. Goto("worker", "read")
    BY <1>1, <1>4 DEF Notify, ReadMask, At
  <2>3. /\ pc' \in [Actors -> Labels] /\ pc'["worker"] = "read"
        /\ \A b \in Actors \ {"worker"} : pc'[b] = pc[b]
    BY <2>2, GotoPc, LabelsListed, ActorsListed DEF IInv
  <2>4. \A b \in Threads : pc[b] \notin Sections
    BY <1>1, <1>4 DEF IInv, Locks, Sections, Threads, At
  <2>5. /\ \A b \in Threads : pc'[b] \notin Sections
        /\ pc'["peer"] = pc["peer"]
    BY <2>4, <2>3, ActorsListed
  <2>6. SoloStates("idle", state, callback)
    BY <1>1, <2>4, SoloWorker DEF IInv
  <2>7. SoloCounts("idle", state, count, orphans)
    BY <1>1, <2>4, SoloWorker DEF IInv
  <2>8. ~collided => SoloMasks("idle", count, mask)
    BY <1>1, <2>4, SoloWorker DEF IInv, Masks
  <2>9. SoloStates("read", state', callback')
    BY <1>1, <2>6, <1>4, <2>1 DEF SoloStates
  <2>10. SoloCounts("read", state', count', orphans')
    BY <1>1, <2>6, <2>7, <1>2, <1>4, <2>1 DEF SoloCounts, SoloOwned,
        SoloStates
  <2>11. ~collided' => SoloMasks("read", count', mask')
    BY <1>1, <2>6, <2>7, <2>8, <1>2, <1>4, <2>1 DEF SoloMasks, SoloCounts,
        SoloOwned, SoloStates
  <2>12. ~collided' => PeerAgrees'
    BY <1>1, <1>4, <2>1, <2>3, <2>5 DEF IInv, Masks, PeerAgrees, At
  <2>13. States' /\ Counts' /\ Masks'
    BY <2>3, <2>5, <2>9, <2>10, <2>11, <2>12, SoloWorkerNext
      DEF Masks
  <2>14. count' \in Nat
    BY <1>2, <2>7, <1>4, <2>1 DEF SoloCounts, SoloOwned
  <2>15. EventType'
    BY <2>1, Types DEF IInv, EventType
  <2>16. IrqType'
    BY <2>1, <2>14, Types DEF IInv, IrqType
  <2>17. TypeOK'
    BY <2>1, <2>3, <2>15, <2>16, Types, TypesKept, TypesNext
      DEF IInv, PcType
  <2>18. Locks'
    BY <1>1, <2>4, <1>4, <2>1, <2>3, ActorsListed DEF IInv, Locks, Sections,
        At
  <2>19. Fresh'
    BY <1>1, <1>4, <2>1, <2>3, ActorsListed DEF IInv, Fresh, Locks, Sections,
        At
  <2> QED BY <2>17, <2>18, <2>19, <2>13 DEF IInv
<1>5. CASE ~(node = "listed" /\ state = "ENABLED")
  <2>1. /\ UNCHANGED <<enabled, lit, mixers, power_event, node, state,
            callback, orphans, count, mask, pending, seen, irq_lock, refs,
            power, torn, collided, crtc_lock, spin_lock, busy>>
    BY <1>1, <1>5 DEF Notify, ReadMask, At, crtc, supply
  <2>2. Goto("worker", "read")
    BY <1>1, <1>5 DEF Notify, ReadMask, At
  <2>3. /\ pc' \in [Actors -> Labels] /\ pc'["worker"] = "read"
        /\ \A b \in Actors \ {"worker"} : pc'[b] = pc[b]
    BY <2>2, GotoPc, LabelsListed, ActorsListed DEF IInv
  <2>4. States' /\ Counts' /\ Masks'
    BY <1>1, <2>1, <2>2, QuietMasks, LabelsListed, ActorsListed
      DEF Changing
  <2>5. TypeOK'
    BY <2>1, <2>3, Types, TypesKept, TypesNext DEF IInv, PcType
  <2>6. Locks'
    BY <1>1, <1>5, <2>1, <2>3, ActorsListed DEF IInv, Locks, Sections, At
  <2>7. Fresh'
    BY <1>1, <1>5, <2>1, <2>3, ActorsListed DEF IInv, Fresh, Locks, Sections,
        At
  <2> QED BY <2>5, <2>6, <2>7, <2>4 DEF IInv
<1> QED BY <1>3, <1>4, <1>5

LEMMA NotifyWriteInv ==
  ASSUME IInv, NotifyWrite
  PROVE  IInv'
<1>1. pc["worker"] = "write"
  BY DEF NotifyWrite, WriteMask, At
<1>2. count \in Nat
  BY DEF IInv, TypeOK
<1>3. /\ mask' = seen["worker"] \ {"hist"}
      /\ seen' = [seen EXCEPT !["worker"] = {}]
      /\ pending' = FALSE
      /\ state' = "DISABLED"
      /\ spin_lock' = "free"
      /\ UNCHANGED <<enabled, lit, mixers, power_event, node, callback,
          orphans, count, irq_lock, refs, power, torn, collided, crtc_lock,
          busy>>
  BY <1>1 DEF NotifyWrite, WriteMask, At, crtc, supply, history
<1>4. Goto("worker", "read")
  BY <1>1 DEF NotifyWrite, WriteMask, At
<1>5. /\ pc' \in [Actors -> Labels] /\ pc'["worker"] = "read"
      /\ \A b \in Actors \ {"worker"} : pc'[b] = pc[b]
  BY <1>4, GotoPc, LabelsListed, ActorsListed DEF IInv
<1>6. \A b \in Threads : pc[b] \notin Sections
  BY <1>1 DEF IInv, Locks, Sections, Threads, At
<1>7. /\ \A b \in Threads : pc'[b] \notin Sections
      /\ pc'["peer"] = pc["peer"]
  BY <1>6, <1>5, ActorsListed
<1>8. SoloStates("write", state, callback)
  BY <1>1, <1>6, SoloWorker DEF IInv
<1>9. SoloCounts("write", state, count, orphans)
  BY <1>1, <1>6, SoloWorker DEF IInv
<1>10. ~collided => SoloMasks("write", count, mask)
  BY <1>1, <1>6, SoloWorker DEF IInv, Masks
<1>11. SoloStates("read", state', callback')
  BY <1>1, <1>8, <1>3 DEF SoloStates
<1>12. SoloCounts("read", state', count', orphans')
  BY <1>1, <1>8, <1>9, <1>2, <1>3 DEF SoloCounts, SoloOwned, SoloStates
<1>13. ~collided' => SoloMasks("read", count', mask')
  BY <1>1, <1>8, <1>9, <1>10, <1>2, <1>3 DEF SoloMasks, SoloCounts,
      SoloOwned, SoloStates
<1>14. ~collided' => PeerAgrees'
  BY <1>1, <1>3, <1>5, <1>7 DEF IInv, Masks, PeerAgrees, At, TypeOK, Masters
<1>15. States' /\ Counts' /\ Masks'
  BY <1>5, <1>7, <1>11, <1>12, <1>13, <1>14, SoloWorkerNext DEF Masks
<1>16. mask' \in SUBSET Bits
  BY <1>3 DEF IInv, TypeOK, Bits, Masters
<1>17. seen' \in [Masters -> SUBSET Bits]
  BY <1>3 DEF IInv, TypeOK, Bits, Masters
<1>18. EventType'
  BY <1>3, Types DEF IInv, EventType
<1>19. IrqType'
  BY <1>3, <1>16, <1>17, Types DEF IInv, IrqType
<1>20. LockType'
  BY <1>3, Types DEF IInv, LockType
<1>21. TypeOK'
  BY <1>3, <1>5, <1>18, <1>19, <1>20, Types, TypesKept, TypesNext
    DEF IInv, PcType
<1>22. Locks'
  BY <1>1, <1>6, <1>3, <1>5, ActorsListed DEF IInv, Locks, Sections, At
<1>23. Fresh'
  BY <1>1, <1>3, <1>5, ActorsListed DEF IInv, Fresh, Locks, Sections, At
<1> QED BY <1>21, <1>22, <1>23, <1>15 DEF IInv

LEMMA ReadGetInv ==
  ASSUME IInv, ReadGet
  PROVE  IInv'
<1>1. pc["worker"] = "read"
  BY DEF ReadGet, At
<1>2. /\ refs' = refs \union {"worker"}
      /\ UNCHANGED <<enabled, lit, mixers, power_event, node, state,
          callback, orphans, count, mask, pending, seen, irq_lock, power,
          torn, collided, crtc_lock, spin_lock, busy>>
  BY <1>1 DEF ReadGet, At, crtc, event, irq, history
<1>3. Goto("worker", "get")
  BY <1>1 DEF ReadGet, At
<1>4. /\ pc' \in [Actors -> Labels] /\ pc'["worker"] = "get"
      /\ \A b \in Actors \ {"worker"} : pc'[b] = pc[b]
  BY <1>3, GotoPc, LabelsListed, ActorsListed DEF IInv
<1>5. States' /\ Counts' /\ Masks'
  BY <1>1, <1>2, <1>3, QuietMasks, LabelsListed, ActorsListed
    DEF Changing
<1>6. RestType'
  BY <1>2, Types DEF IInv, RestType
<1>7. TypeOK'
  BY <1>2, <1>4, <1>6, Types, TypesKept, TypesNext DEF IInv, PcType
<1>8. Locks'
  BY <1>1, <1>2, <1>4, ActorsListed DEF IInv, Locks, Sections, At
<1>9. Fresh'
  BY <1>1, <1>2, <1>4, ActorsListed DEF IInv, Fresh, Locks, Sections, At
<1> QED BY <1>7, <1>8, <1>9, <1>5 DEF IInv

LEMMA ReadInv ==
  ASSUME IInv, Read
  PROVE  IInv'
<1>1. pc["worker"] = "get"
  BY DEF Read, At
<1>2. busy \in 0 .. PoolSize /\ busy > 0
  BY <1>1 DEF IInv, TypeOK, Locks, Threads, At
<1>3. /\ refs' = refs \ {"worker"}
      /\ busy' = busy - 1
      /\ UNCHANGED <<enabled, lit, mixers, power_event, node, state,
          callback, orphans, count, mask, pending, seen, irq_lock, power,
          torn, collided, crtc_lock, spin_lock>>
  BY <1>1 DEF Read, At, crtc, event, irq, history
<1>4. Goto("worker", "idle")
  BY <1>1 DEF Read, At
<1>5. /\ pc' \in [Actors -> Labels] /\ pc'["worker"] = "idle"
      /\ \A b \in Actors \ {"worker"} : pc'[b] = pc[b]
  BY <1>4, GotoPc, LabelsListed, ActorsListed DEF IInv
<1>6. States' /\ Counts' /\ Masks'
  BY <1>1, <1>3, <1>4, QuietMasks, LabelsListed, ActorsListed
    DEF Changing
<1>7. busy' \in 0 .. PoolSize
  BY <1>2, <1>3, PoolAssumption
<1>8. RestType'
  BY <1>3, <1>7, Types DEF IInv, RestType
<1>9. TypeOK'
  BY <1>3, <1>5, <1>8, Types, TypesKept, TypesNext DEF IInv, PcType
<1>10. Locks'
  BY <1>1, <1>2, <1>3, <1>5, ActorsListed DEF IInv, Locks, Sections, At
<1>11. Fresh'
  BY <1>1, <1>3, <1>5, ActorsListed DEF IInv, Fresh, Locks, Sections, At
<1> QED BY <1>9, <1>10, <1>11, <1>6 DEF IInv

-----------------------------------------------------------------------------
(* Registering and deregistering the event.                                *)
LEMMA EventEnableInv ==
  ASSUME IInv, EventEnable
  PROVE  IInv'
<1>1. pc["ioctl"] = "idle" /\ spin_lock = "free" /\ node = "none" /\ orphans < MaxOrphans
  BY DEF EventEnable, At
<1>2. /\ \A b \in Threads \ {"ioctl"} : pc[b] \notin Sections
      /\ pc["worker"] # "write"
  BY <1>1, SpinFree DEF IInv, Locks, At
<1>3. SoloStates("idle", state, callback)
  BY <1>1, <1>2, SoloThread DEF IInv, Threads
<1>4. SoloCounts("idle", state, count, orphans)
  BY <1>1, <1>2, SoloThread DEF IInv, Threads
<1>5. ~collided => SoloMasks("idle", count, mask)
  BY <1>1, <1>2, SoloThread DEF IInv, Masks, Threads
<1>6. count \in Nat
  BY DEF IInv, TypeOK
<1>7. state = "NOINIT"
  BY <1>1 DEF IInv, Fresh
<1>8. CASE enabled
  <2>1. /\ node' = "held"
        /\ state' = "NOINIT"
        /\ refs' = refs \union {"ioctl"}
        /\ UNCHANGED <<enabled, lit, mixers, power_event, callback, orphans,
            count, mask, pending, seen, irq_lock, power, torn, collided,
            crtc_lock, spin_lock, busy>>
    BY <1>1, <1>8 DEF EventEnable, At, crtc, irq, history
  <2>2. Goto("ioctl", "en get")
    BY <1>1, <1>8 DEF EventEnable, At
  <2>3. /\ pc' \in [Actors -> Labels] /\ pc'["ioctl"] = "en get"
        /\ \A b \in Actors \ {"ioctl"} : pc'[b] = pc[b]
    BY <2>2, GotoPc, LabelsListed, ActorsListed DEF IInv
  <2>4. /\ \A b \in Threads \ {"ioctl"} : pc'[b] \notin Sections
        /\ pc'["worker"] # "write" /\ pc'["peer"] = pc["peer"]
    BY <1>2, <2>3, ActorsListed
  <2>5. SoloStates("en get", state', callback')
    BY <1>1, <1>3, <1>8, <2>1 DEF SoloStates
  <2>6. SoloCounts("en get", state', count', orphans')
    BY <1>1, <1>3, <1>4, <1>6, <1>7, <1>8, <2>1 DEF SoloCounts, SoloOwned,
        SoloStates
  <2>7. ~collided' => SoloMasks("en get", count', mask')
    BY <1>1, <1>3, <1>4, <1>5, <1>6, <1>8, <2>1 DEF SoloMasks, SoloCounts,
        SoloOwned, SoloStates
  <2>8. ~collided' => PeerAgrees'
    BY <1>8, <2>1, <2>4 DEF IInv, Masks, PeerAgrees, At
  <2>9. States' /\ Counts' /\ Masks'
    BY <2>3, <2>4, <2>5, <2>6, <2>7, <2>8, SoloThreadNext DEF Masks, Threads
  <2>10. EventType'
    BY <2>1, Types DEF IInv, EventType
  <2>11. RestType'
    BY <2>1, Types DEF IInv, RestType
  <2>12. TypeOK'
    BY <2>1, <2>3, <2>10, <2>11, Types, TypesKept, TypesNext
      DEF IInv, PcType
  <2>13. Locks'
    BY <1>1, <1>2, <1>8, <2>1, <2>3, ActorsListed DEF IInv, Locks, Sections,
        At
  <2>14. Fresh'
    BY <1>1, <1>8, <2>1, <2>3, ActorsListed DEF IInv, Fresh, Locks, Sections,
        At
  <2> QED BY <2>12, <2>13, <2>14, <2>9 DEF IInv
<1>9. CASE ~enabled
  <2>1. /\ node' = "held"
        /\ state' = "NOINIT"
        /\ UNCHANGED <<enabled, lit, mixers, power_event, callback, orphans,
            count, mask, pending, seen, irq_lock, refs, power, torn,
            collided, crtc_lock, spin_lock, busy>>
    BY <1>1, <1>9 DEF EventEnable, At, crtc, irq, history
  <2>2. Goto("ioctl", "en add")
    BY <1>1, <1>9 DEF EventEnable, At
  <2>3. /\ pc' \in [Actors -> Labels] /\ pc'["ioctl"] = "en add"
        /\ \A b \in Actors \ {"ioctl"} : pc'[b] = pc[b]
    BY <2>2, GotoPc, LabelsListed, ActorsListed DEF IInv
  <2>4. /\ \A b \in Threads \ {"ioctl"} : pc'[b] \notin Sections
        /\ pc'["worker"] # "write" /\ pc'["peer"] = pc["peer"]
    BY <1>2, <2>3, ActorsListed
  <2>5. SoloStates("en add", state', callback')
    BY <1>1, <1>3, <1>9, <2>1 DEF SoloStates
  <2>6. SoloCounts("en add", state', count', orphans')
    BY <1>1, <1>3, <1>4, <1>6, <1>7, <1>9, <2>1 DEF SoloCounts, SoloOwned,
        SoloStates
  <2>7. ~collided' => SoloMasks("en add", count', mask')
    BY <1>1, <1>3, <1>4, <1>5, <1>6, <1>9, <2>1 DEF SoloMasks, SoloCounts,
        SoloOwned, SoloStates
  <2>8. ~collided' => PeerAgrees'
    BY <1>9, <2>1, <2>4 DEF IInv, Masks, PeerAgrees, At
  <2>9. States' /\ Counts' /\ Masks'
    BY <2>3, <2>4, <2>5, <2>6, <2>7, <2>8, SoloThreadNext DEF Masks, Threads
  <2>10. EventType'
    BY <2>1, Types DEF IInv, EventType
  <2>11. TypeOK'
    BY <2>1, <2>3, <2>10, Types, TypesKept, TypesNext DEF IInv, PcType
  <2>12. Locks'
    BY <1>1, <1>2, <1>9, <2>1, <2>3, ActorsListed DEF IInv, Locks, Sections,
        At
  <2>13. Fresh'
    BY <1>1, <1>9, <2>1, <2>3, ActorsListed DEF IInv, Fresh, Locks, Sections,
        At
  <2> QED BY <2>11, <2>12, <2>13, <2>9 DEF IInv
<1> QED BY <1>8, <1>9

LEMMA EnableGrantedInv ==
  ASSUME IInv, EnableGranted
  PROVE  IInv'
<1>1. pc["ioctl"] = "en get"
  BY DEF EnableGranted, At
<1>2. /\ crtc_lock' = "ioctl"
      /\ UNCHANGED <<enabled, lit, mixers, power_event, node, state,
          callback, orphans, count, mask, pending, seen, irq_lock, refs,
          power, torn, collided, spin_lock, busy>>
  BY <1>1 DEF EnableGranted, At, crtc, event, irq, supply, history
<1>3. Goto("ioctl", "register")
  BY <1>1 DEF EnableGranted, At
<1>4. /\ pc' \in [Actors -> Labels] /\ pc'["ioctl"] = "register"
      /\ \A b \in Actors \ {"ioctl"} : pc'[b] = pc[b]
  BY <1>3, GotoPc, LabelsListed, ActorsListed DEF IInv
<1>5. States' /\ Counts' /\ Masks'
  BY <1>1, <1>2, <1>3, QuietMasks, LabelsListed, ActorsListed
    DEF Changing
<1>6. LockType'
  BY <1>2, Types DEF IInv, LockType, Threads
<1>7. TypeOK'
  BY <1>2, <1>4, <1>6, Types, TypesKept, TypesNext DEF IInv, PcType
<1>8. Locks'
  BY <1>1, <1>2, <1>4, ActorsListed DEF IInv, Locks, Sections, At
<1>9. Fresh'
  BY <1>1, <1>2, <1>4, ActorsListed DEF IInv, Fresh, Locks, Sections, At
<1> QED BY <1>7, <1>8, <1>9, <1>5 DEF IInv

LEMMA EnableDoneInv ==
  ASSUME IInv, EnableDone
  PROVE  IInv'
<1>1. pc["ioctl"] \in {"done", "failed"} /\ spin_lock = "free" /\ crtc_lock = "ioctl"
  BY DEF EnableDone, Returned, At
<1>2. /\ node' = IF At("ioctl", "done") THEN "listed" ELSE "none"
      /\ crtc_lock' = "free"
      /\ refs' = refs \ {"ioctl"}
      /\ UNCHANGED <<enabled, lit, mixers, power_event, state, callback,
          orphans, count, mask, pending, seen, irq_lock, power, torn,
          collided, spin_lock, busy>>
  BY <1>1 DEF EnableDone, Returned, At, crtc, irq, history
<1>3. Goto("ioctl", "idle")
  BY <1>1 DEF EnableDone, Returned, At
<1>4. /\ pc' \in [Actors -> Labels] /\ pc'["ioctl"] = "idle"
      /\ \A b \in Actors \ {"ioctl"} : pc'[b] = pc[b]
  BY <1>3, GotoPc, LabelsListed, ActorsListed DEF IInv
<1>5. States' /\ Counts' /\ Masks'
  BY <1>1, <1>2, <1>3, QuietMasks, LabelsListed, ActorsListed
    DEF Changing
<1>6. EventType'
  BY <1>2, Types DEF IInv, EventType
<1>7. LockType'
  BY <1>2, Types DEF IInv, LockType, Threads
<1>8. RestType'
  BY <1>2, Types DEF IInv, RestType
<1>9. TypeOK'
  BY <1>2, <1>4, <1>6, <1>7, <1>8, Types, TypesKept, TypesNext
    DEF IInv, PcType
<1>10. Locks'
  BY <1>1, <1>2, <1>4, ActorsListed DEF IInv, Locks, Sections, At
<1>11. Fresh'
  BY <1>1, <1>2, <1>4, ActorsListed DEF IInv, Fresh, Locks, Sections, At
<1> QED BY <1>9, <1>10, <1>11, <1>5 DEF IInv

LEMMA EnableAddInv ==
  ASSUME IInv, EnableAdd
  PROVE  IInv'
<1>1. pc["ioctl"] = "en add" /\ spin_lock = "free"
  BY DEF EnableAdd, At
<1>2. /\ node' = "listed"
      /\ UNCHANGED <<enabled, lit, mixers, power_event, state, callback,
          orphans, count, mask, pending, seen, irq_lock, refs, power, torn,
          collided, crtc_lock, spin_lock, busy>>
  BY <1>1 DEF EnableAdd, At, crtc, irq, supply, history
<1>3. Goto("ioctl", "idle")
  BY <1>1 DEF EnableAdd, At
<1>4. /\ pc' \in [Actors -> Labels] /\ pc'["ioctl"] = "idle"
      /\ \A b \in Actors \ {"ioctl"} : pc'[b] = pc[b]
  BY <1>3, GotoPc, LabelsListed, ActorsListed DEF IInv
<1>5. States' /\ Counts' /\ Masks'
  BY <1>1, <1>2, <1>3, QuietMasks, LabelsListed, ActorsListed
    DEF Changing
<1>6. EventType'
  BY <1>2, Types DEF IInv, EventType
<1>7. TypeOK'
  BY <1>2, <1>4, <1>6, Types, TypesKept, TypesNext DEF IInv, PcType
<1>8. Locks'
  BY <1>1, <1>2, <1>4, ActorsListed DEF IInv, Locks, Sections, At
<1>9. Fresh'
  BY <1>1, <1>2, <1>4, ActorsListed DEF IInv, Fresh, Locks, Sections, At
<1> QED BY <1>7, <1>8, <1>9, <1>5 DEF IInv

LEMMA EventDisableInv ==
  ASSUME IInv, EventDisable
  PROVE  IInv'
<1>1. pc["ioctl"] = "idle" /\ spin_lock = "free" /\ node = "listed"
  BY DEF EventDisable, At
<1>2. /\ node' = "held"
      /\ UNCHANGED <<enabled, lit, mixers, power_event, state, callback,
          orphans, count, mask, pending, seen, irq_lock, refs, power, torn,
          collided, crtc_lock, spin_lock, busy>>
  BY <1>1 DEF EventDisable, At, crtc, irq, supply, history
<1>3. Goto("ioctl", "de check")
  BY <1>1 DEF EventDisable, At
<1>4. /\ pc' \in [Actors -> Labels] /\ pc'["ioctl"] = "de check"
      /\ \A b \in Actors \ {"ioctl"} : pc'[b] = pc[b]
  BY <1>3, GotoPc, LabelsListed, ActorsListed DEF IInv
<1>5. States' /\ Counts' /\ Masks'
  BY <1>1, <1>2, <1>3, QuietMasks, LabelsListed, ActorsListed
    DEF Changing
<1>6. EventType'
  BY <1>2, Types DEF IInv, EventType
<1>7. TypeOK'
  BY <1>2, <1>4, <1>6, Types, TypesKept, TypesNext DEF IInv, PcType
<1>8. Locks'
  BY <1>1, <1>2, <1>4, ActorsListed DEF IInv, Locks, Sections, At
<1>9. Fresh'
  BY <1>1, <1>2, <1>4, ActorsListed DEF IInv, Fresh, Locks, Sections, At
<1> QED BY <1>7, <1>8, <1>9, <1>5 DEF IInv

LEMMA DisableCheckInv ==
  ASSUME IInv, DisableCheck
  PROVE  IInv'
<1>1. pc["ioctl"] = "de check"
  BY DEF DisableCheck, Free, At
<1>2. /\ \A b \in Threads \ {"ioctl"} : pc[b] \notin Sections
      /\ pc["worker"] # "write"
  BY <1>1, SpinFree DEF IInv, Locks, At
<1>3. SoloStates("de check", state, callback)
  BY <1>1, <1>2, SoloThread DEF IInv, Threads
<1>4. SoloCounts("de check", state, count, orphans)
  BY <1>1, <1>2, SoloThread DEF IInv, Threads
<1>5. ~collided => SoloMasks("de check", count, mask)
  BY <1>1, <1>2, SoloThread DEF IInv, Masks, Threads
<1>6. count \in Nat
  BY DEF IInv, TypeOK
<1>7. orphans \in 0 .. MaxOrphans
  BY Types DEF IInv, EventType
<1>8. node = "held" /\ orphans < MaxOrphans
  BY <1>1 DEF IInv, Locks, At
<1>9. orphans \in Nat /\ MaxOrphans \in Nat /\ orphans < MaxOrphans
  BY <1>7, <1>8, OrphansAssumption
<1>10. CASE enabled
  <2>1. /\ refs' = refs \union {"ioctl"}
        /\ UNCHANGED <<enabled, lit, mixers, power_event, node, state,
            callback, orphans, count, mask, pending, seen, irq_lock, power,
            torn, collided, crtc_lock, spin_lock, busy>>
    BY <1>1, <1>10 DEF DisableCheck, Free, At, crtc, event, irq, history
  <2>2. Goto("ioctl", "de get")
    BY <1>1, <1>10 DEF DisableCheck, Free, At
  <2>3. /\ pc' \in [Actors -> Labels] /\ pc'["ioctl"] = "de get"
        /\ \A b \in Actors \ {"ioctl"} : pc'[b] = pc[b]
    BY <2>2, GotoPc, LabelsListed, ActorsListed DEF IInv
  <2>4. /\ \A b \in Threads \ {"ioctl"} : pc'[b] \notin Sections
        /\ pc'["worker"] # "write" /\ pc'["peer"] = pc["peer"]
    BY <1>2, <2>3, ActorsListed
  <2>5. SoloStates("de get", state', callback')
    BY <1>1, <1>3, <1>10, <2>1 DEF SoloStates
  <2>6. SoloCounts("de get", state', count', orphans')
    BY <1>1, <1>3, <1>4, <1>6, <1>10, <2>1 DEF SoloCounts, SoloOwned,
        SoloStates
  <2>7. ~collided' => SoloMasks("de get", count', mask')
    BY <1>1, <1>3, <1>4, <1>5, <1>6, <1>10, <2>1 DEF SoloMasks, SoloCounts,
        SoloOwned, SoloStates
  <2>8. ~collided' => PeerAgrees'
    BY <1>9, <1>10, <2>1, <2>4 DEF IInv, Masks, PeerAgrees, At
  <2>9. States' /\ Counts' /\ Masks'
    BY <2>3, <2>4, <2>5, <2>6, <2>7, <2>8, SoloThreadNext DEF Masks, Threads
  <2>10. RestType'
    BY <2>1, Types DEF IInv, RestType
  <2>11. TypeOK'
    BY <2>1, <2>3, <2>10, Types, TypesKept, TypesNext DEF IInv, PcType
  <2>12. Locks'
    BY <1>1, <1>2, <1>9, <1>10, <2>1, <2>3, ActorsListed DEF IInv, Locks,
        Sections, At
  <2>13. Fresh'
    BY <1>1, <1>10, <2>1, <2>3, ActorsListed DEF IInv, Fresh, Locks,
        Sections, At
  <2> QED BY <2>11, <2>12, <2>13, <2>9 DEF IInv
<1>11. CASE ~enabled
  <2>1. /\ node' = "none"
        /\ state' = "NOINIT"
        /\ callback' = FALSE
        /\ orphans' = orphans + IF callback THEN 1 ELSE 0
        /\ UNCHANGED <<enabled, lit, mixers, power_event, count, mask,
            pending, seen, irq_lock, refs, power, torn, collided, crtc_lock,
            spin_lock, busy>>
    BY <1>1, <1>11 DEF DisableCheck, Free, At, crtc, event, irq, history
  <2>2. Goto("ioctl", "idle")
    BY <1>1, <1>11 DEF DisableCheck, Free, At
  <2>3. /\ pc' \in [Actors -> Labels] /\ pc'["ioctl"] = "idle"
        /\ \A b \in Actors \ {"ioctl"} : pc'[b] = pc[b]
    BY <2>2, GotoPc, LabelsListed, ActorsListed DEF IInv
  <2>4. /\ \A b \in Threads \ {"ioctl"} : pc'[b] \notin Sections
        /\ pc'["worker"] # "write" /\ pc'["peer"] = pc["peer"]
    BY <1>2, <2>3, ActorsListed
  <2>5. SoloStates("idle", state', callback')
    BY <1>1, <1>3, <1>11, <2>1 DEF SoloStates
  <2>6. SoloOwned("de check", state) => callback
    BY <1>1, <1>3 DEF SoloOwned, SoloStates
  <2>7. orphans' = 0 => ~callback /\ orphans = 0
    BY <1>9, <2>1
  <2>8. count' = count /\ state' = "NOINIT"
    BY <2>1
  <2>9. orphans' = 0 => count = 0
    BY <1>4, <2>6, <2>7 DEF SoloCounts
  <2>10. SoloCounts("idle", state', count', orphans')
    BY <2>8, <2>9 DEF SoloCounts, SoloOwned
  <2>11. ~collided' => SoloMasks("idle", count', mask')
    BY <1>1, <1>3, <1>4, <1>5, <1>6, <1>11, <2>1 DEF SoloMasks, SoloCounts,
        SoloOwned, SoloStates
  <2>12. ~collided' => PeerAgrees'
    BY <1>9, <1>11, <2>1, <2>4 DEF IInv, Masks, PeerAgrees, At
  <2>13. States' /\ Counts' /\ Masks'
    BY <2>3, <2>4, <2>5, <2>10, <2>11, <2>12, SoloThreadNext
      DEF Masks, Threads
  <2>14. orphans' \in 0 .. MaxOrphans
    BY <1>9, <2>1
  <2>15. EventType'
    BY <2>1, <2>14, Types DEF IInv, EventType
  <2>16. TypeOK'
    BY <2>1, <2>3, <2>15, Types, TypesKept, TypesNext DEF IInv, PcType
  <2>17. Locks'
    BY <1>1, <1>2, <1>9, <1>11, <2>1, <2>3, ActorsListed DEF IInv, Locks,
        Sections, At
  <2>18. Fresh'
    BY <1>1, <1>11, <2>1, <2>3, ActorsListed DEF IInv, Fresh, Locks,
        Sections, At
  <2> QED BY <2>16, <2>17, <2>18, <2>13 DEF IInv
<1> QED BY <1>10, <1>11

LEMMA DisableGrantedInv ==
  ASSUME IInv, DisableGranted
  PROVE  IInv'
<1>1. pc["ioctl"] = "de get"
  BY DEF DisableGranted, At
<1>2. /\ UNCHANGED <<enabled, lit, mixers, power_event, node, state,
          callback, orphans, count, mask, pending, seen, irq_lock, refs,
          power, torn, collided, crtc_lock, spin_lock, busy>>
  BY <1>1 DEF DisableGranted, At, crtc, event, irq, supply, history
<1>3. Goto("ioctl", "disarm")
  BY <1>1 DEF DisableGranted, At
<1>4. /\ pc' \in [Actors -> Labels] /\ pc'["ioctl"] = "disarm"
      /\ \A b \in Actors \ {"ioctl"} : pc'[b] = pc[b]
  BY <1>3, GotoPc, LabelsListed, ActorsListed DEF IInv
<1>5. States' /\ Counts' /\ Masks'
  BY <1>1, <1>2, <1>3, QuietMasks, LabelsListed, ActorsListed
    DEF Changing
<1>6. TypeOK'
  BY <1>2, <1>4, Types, TypesKept, TypesNext DEF IInv, PcType
<1>7. Locks'
  BY <1>1, <1>2, <1>4, ActorsListed DEF IInv, Locks, Sections, At
<1>8. Fresh'
  BY <1>1, <1>2, <1>4, ActorsListed DEF IInv, Fresh, Locks, Sections, At
<1> QED BY <1>6, <1>7, <1>8, <1>5 DEF IInv

LEMMA DisableDoneInv ==
  ASSUME IInv, DisableDone
  PROVE  IInv'
<1>1. pc["ioctl"] = "done" /\ crtc_lock # "ioctl"
  BY DEF DisableDone, Free, At
<1>2. /\ \A b \in Threads \ {"ioctl"} : pc[b] \notin Sections
      /\ pc["worker"] # "write"
  BY <1>1, SpinFree DEF IInv, Locks, At
<1>3. SoloStates("done", state, callback)
  BY <1>1, <1>2, SoloThread DEF IInv, Threads
<1>4. SoloCounts("done", state, count, orphans)
  BY <1>1, <1>2, SoloThread DEF IInv, Threads
<1>5. ~collided => SoloMasks("done", count, mask)
  BY <1>1, <1>2, SoloThread DEF IInv, Masks, Threads
<1>6. count \in Nat
  BY DEF IInv, TypeOK
<1>7. orphans \in 0 .. MaxOrphans
  BY Types DEF IInv, EventType
<1>8. node = "held" /\ orphans < MaxOrphans
  BY <1>1 DEF IInv, Locks, At
<1>9. orphans \in Nat /\ MaxOrphans \in Nat /\ orphans < MaxOrphans
  BY <1>7, <1>8, OrphansAssumption
<1>10. /\ node' = "none"
       /\ state' = "NOINIT"
       /\ callback' = FALSE
       /\ orphans' = orphans + IF callback THEN 1 ELSE 0
       /\ refs' = refs \ {"ioctl"}
       /\ UNCHANGED <<enabled, lit, mixers, power_event, count, mask,
           pending, seen, irq_lock, power, torn, collided, crtc_lock,
           spin_lock, busy>>
  BY <1>1 DEF DisableDone, Free, At, crtc, irq, history
<1>11. Goto("ioctl", "idle")
  BY <1>1 DEF DisableDone, Free, At
<1>12. /\ pc' \in [Actors -> Labels] /\ pc'["ioctl"] = "idle"
       /\ \A b \in Actors \ {"ioctl"} : pc'[b] = pc[b]
  BY <1>11, GotoPc, LabelsListed, ActorsListed DEF IInv
<1>13. /\ \A b \in Threads \ {"ioctl"} : pc'[b] \notin Sections
       /\ pc'["worker"] # "write" /\ pc'["peer"] = pc["peer"]
  BY <1>2, <1>12, ActorsListed
<1>14. SoloStates("idle", state', callback')
  BY <1>1, <1>3, <1>10 DEF SoloStates
<1>15. SoloOwned("done", state) => callback
  BY <1>1, <1>3 DEF SoloOwned, SoloStates
<1>16. orphans' = 0 => ~callback /\ orphans = 0
  BY <1>9, <1>10
<1>17. count' = count /\ state' = "NOINIT"
  BY <1>10
<1>18. orphans' = 0 => count = 0
  BY <1>4, <1>15, <1>16 DEF SoloCounts
<1>19. SoloCounts("idle", state', count', orphans')
  BY <1>17, <1>18 DEF SoloCounts, SoloOwned
<1>20. ~collided' => SoloMasks("idle", count', mask')
  BY <1>1, <1>3, <1>4, <1>5, <1>6, <1>10 DEF SoloMasks, SoloCounts,
      SoloOwned, SoloStates
<1>21. ~collided' => PeerAgrees'
  BY <1>9, <1>10, <1>13 DEF IInv, Masks, PeerAgrees, At
<1>22. States' /\ Counts' /\ Masks'
  BY <1>12, <1>13, <1>14, <1>19, <1>20, <1>21, SoloThreadNext
    DEF Masks, Threads
<1>23. orphans' \in 0 .. MaxOrphans
  BY <1>9, <1>10
<1>24. EventType'
  BY <1>10, <1>23, Types DEF IInv, EventType
<1>25. RestType'
  BY <1>10, Types DEF IInv, RestType
<1>26. TypeOK'
  BY <1>10, <1>12, <1>24, <1>25, Types, TypesKept, TypesNext
    DEF IInv, PcType
<1>27. Locks'
  BY <1>1, <1>2, <1>9, <1>10, <1>12, ActorsListed DEF IInv, Locks, Sections,
      At
<1>28. Fresh'
  BY <1>1, <1>10, <1>12, ActorsListed DEF IInv, Fresh, Locks, Sections, At
<1> QED BY <1>26, <1>27, <1>28, <1>22 DEF IInv

LEMMA DisableFailedInv ==
  ASSUME IInv, DisableFailed
  PROVE  IInv'
<1>1. pc["ioctl"] = "failed" /\ spin_lock = "free" /\ crtc_lock # "ioctl"
  BY DEF DisableFailed, At
<1>2. /\ node' = "listed"
      /\ refs' = refs \ {"ioctl"}
      /\ UNCHANGED <<enabled, lit, mixers, power_event, state, callback,
          orphans, count, mask, pending, seen, irq_lock, power, torn,
          collided, crtc_lock, spin_lock, busy>>
  BY <1>1 DEF DisableFailed, At, crtc, irq, history
<1>3. Goto("ioctl", "idle")
  BY <1>1 DEF DisableFailed, At
<1>4. /\ pc' \in [Actors -> Labels] /\ pc'["ioctl"] = "idle"
      /\ \A b \in Actors \ {"ioctl"} : pc'[b] = pc[b]
  BY <1>3, GotoPc, LabelsListed, ActorsListed DEF IInv
<1>5. States' /\ Counts' /\ Masks'
  BY <1>1, <1>2, <1>3, QuietMasks, LabelsListed, ActorsListed
    DEF Changing
<1>6. EventType'
  BY <1>2, Types DEF IInv, EventType
<1>7. RestType'
  BY <1>2, Types DEF IInv, RestType
<1>8. TypeOK'
  BY <1>2, <1>4, <1>6, <1>7, Types, TypesKept, TypesNext DEF IInv, PcType
<1>9. Locks'
  BY <1>1, <1>2, <1>4, ActorsListed DEF IInv, Locks, Sections, At
<1>10. Fresh'
  BY <1>1, <1>2, <1>4, ActorsListed DEF IInv, Fresh, Locks, Sections, At
<1> QED BY <1>8, <1>9, <1>10, <1>5 DEF IInv

LEMMA GetRefusedInv ==
  ASSUME IInv, GetRefused
  PROVE  IInv'
<1>1. pc["ioctl"] \in {"en get", "de get"}
  BY DEF GetRefused, Free, At
<1>2. /\ \A b \in Threads \ {"ioctl"} : pc[b] \notin Sections
      /\ pc["worker"] # "write"
  BY <1>1, SpinFree DEF IInv, Locks, At
<1>3. SoloStates(pc["ioctl"], state, callback)
  BY <1>1, <1>2, SoloThread DEF IInv, Threads
<1>4. SoloCounts(pc["ioctl"], state, count, orphans)
  BY <1>1, <1>2, SoloThread DEF IInv, Threads
<1>5. ~collided => SoloMasks(pc["ioctl"], count, mask)
  BY <1>1, <1>2, SoloThread DEF IInv, Masks, Threads
<1>6. count \in Nat
  BY DEF IInv, TypeOK
<1>7. orphans \in 0 .. MaxOrphans
  BY Types DEF IInv, EventType
<1>8. node = "held" /\ orphans < MaxOrphans
  BY <1>1 DEF IInv, Locks, At
<1>9. orphans \in Nat /\ MaxOrphans \in Nat /\ orphans < MaxOrphans
  BY <1>7, <1>8, OrphansAssumption
<1>10. /\ node' = "none"
       /\ state' = "NOINIT"
       /\ callback' = FALSE
       /\ orphans' = orphans + IF callback THEN 1 ELSE 0
       /\ refs' = refs \ {"ioctl"}
       /\ torn' = (torn \/ callback)
       /\ UNCHANGED <<enabled, lit, mixers, power_event, count, mask,
           pending, seen, irq_lock, power, collided, crtc_lock, spin_lock,
           busy>>
  BY <1>1 DEF GetRefused, Free, At, crtc, irq
<1>11. Goto("ioctl", "idle")
  BY <1>1 DEF GetRefused, Free, At
<1>12. /\ pc' \in [Actors -> Labels] /\ pc'["ioctl"] = "idle"
       /\ \A b \in Actors \ {"ioctl"} : pc'[b] = pc[b]
  BY <1>11, GotoPc, LabelsListed, ActorsListed DEF IInv
<1>13. /\ \A b \in Threads \ {"ioctl"} : pc'[b] \notin Sections
       /\ pc'["worker"] # "write" /\ pc'["peer"] = pc["peer"]
  BY <1>2, <1>12, ActorsListed
<1>14. SoloStates("idle", state', callback')
  BY <1>1, <1>3, <1>10 DEF SoloStates
<1>15. SoloOwned(pc["ioctl"], state) => callback
  BY <1>1, <1>3 DEF SoloOwned, SoloStates
<1>16. orphans' = 0 => ~callback /\ orphans = 0
  BY <1>9, <1>10
<1>17. count' = count /\ state' = "NOINIT"
  BY <1>10
<1>18. orphans' = 0 => count = 0
  BY <1>4, <1>15, <1>16 DEF SoloCounts
<1>19. SoloCounts("idle", state', count', orphans')
  BY <1>17, <1>18 DEF SoloCounts, SoloOwned
<1>20. ~collided' => SoloMasks("idle", count', mask')
  BY <1>1, <1>3, <1>4, <1>5, <1>6, <1>10 DEF SoloMasks, SoloCounts,
      SoloOwned, SoloStates
<1>21. ~collided' => PeerAgrees'
  BY <1>9, <1>10, <1>13 DEF IInv, Masks, PeerAgrees, At
<1>22. States' /\ Counts' /\ Masks'
  BY <1>12, <1>13, <1>14, <1>19, <1>20, <1>21, SoloThreadNext
    DEF Masks, Threads
<1>23. orphans' \in 0 .. MaxOrphans
  BY <1>9, <1>10
<1>24. EventType'
  BY <1>10, <1>23, Types DEF IInv, EventType
<1>25. RestType'
  BY <1>10, Types DEF IInv, RestType
<1>26. TypeOK'
  BY <1>10, <1>12, <1>24, <1>25, Types, TypesKept, TypesNext
    DEF IInv, PcType
<1>27. Locks'
  BY <1>1, <1>2, <1>9, <1>10, <1>12, ActorsListed DEF IInv, Locks, Sections,
      At
<1>28. Fresh'
  BY <1>1, <1>10, <1>12, ActorsListed DEF IInv, Fresh, Locks, Sections, At
<1> QED BY <1>26, <1>27, <1>28, <1>22 DEF IInv

-----------------------------------------------------------------------------
(* Runtime PM.                                                             *)
LEMMA SwitchInv ==
  ASSUME IInv, Switch
  PROVE  IInv'
<1>1. pc["pm"] = "idle"
  BY DEF Switch, At
<1>2. CASE power_event
  <2>1. /\ power' \in {"suspending", "resuming"}
        /\ UNCHANGED <<enabled, lit, mixers, power_event, node, state,
            callback, orphans, count, mask, pending, seen, irq_lock, refs,
            torn, collided, crtc_lock, spin_lock, busy>>
    BY <1>1, <1>2 DEF Switch, At, crtc, event, irq, history
  <2>2. Goto("pm", "lock")
    BY <1>1, <1>2 DEF Switch, At
  <2>3. /\ pc' \in [Actors -> Labels] /\ pc'["pm"] = "lock"
        /\ \A b \in Actors \ {"pm"} : pc'[b] = pc[b]
    BY <2>2, GotoPc, LabelsListed, ActorsListed DEF IInv
  <2>4. States' /\ Counts' /\ Masks'
    BY <1>1, <2>1, <2>2, QuietMasks, LabelsListed, ActorsListed
      DEF Changing
  <2>5. RestType'
    BY <2>1, Types DEF IInv, RestType
  <2>6. TypeOK'
    BY <2>1, <2>3, <2>5, Types, TypesKept, TypesNext DEF IInv, PcType
  <2>7. Locks'
    BY <1>1, <1>2, <2>1, <2>3, ActorsListed DEF IInv, Locks, Sections, At
  <2>8. Fresh'
    BY <1>1, <1>2, <2>1, <2>3, ActorsListed DEF IInv, Fresh, Locks, Sections,
        At
  <2> QED BY <2>6, <2>7, <2>8, <2>4 DEF IInv
<1>3. CASE ~power_event
  <2>1. /\ power' \in {"suspending", "resuming"}
        /\ UNCHANGED <<enabled, lit, mixers, power_event, node, state,
            callback, orphans, count, mask, pending, seen, irq_lock, refs,
            torn, collided, crtc_lock, spin_lock, busy>>
    BY <1>1, <1>3 DEF Switch, At, crtc, event, irq, history
  <2>2. Goto("pm", "end")
    BY <1>1, <1>3 DEF Switch, At
  <2>3. /\ pc' \in [Actors -> Labels] /\ pc'["pm"] = "end"
        /\ \A b \in Actors \ {"pm"} : pc'[b] = pc[b]
    BY <2>2, GotoPc, LabelsListed, ActorsListed DEF IInv
  <2>4. States' /\ Counts' /\ Masks'
    BY <1>1, <2>1, <2>2, QuietMasks, LabelsListed, ActorsListed
      DEF Changing
  <2>5. RestType'
    BY <2>1, Types DEF IInv, RestType
  <2>6. TypeOK'
    BY <2>1, <2>3, <2>5, Types, TypesKept, TypesNext DEF IInv, PcType
  <2>7. Locks'
    BY <1>1, <1>3, <2>1, <2>3, ActorsListed DEF IInv, Locks, Sections, At
  <2>8. Fresh'
    BY <1>1, <1>3, <2>1, <2>3, ActorsListed DEF IInv, Fresh, Locks, Sections,
        At
  <2> QED BY <2>6, <2>7, <2>8, <2>4 DEF IInv
<1> QED BY <1>2, <1>3

LEMMA PowerLockInv ==
  ASSUME IInv, PowerLock
  PROVE  IInv'
<1>1. pc["pm"] = "lock"
  BY DEF PowerLock, At
<1>2. /\ crtc_lock' = "pm"
      /\ UNCHANGED <<enabled, lit, mixers, power_event, node, state,
          callback, orphans, count, mask, pending, seen, irq_lock, refs,
          power, torn, collided, spin_lock, busy>>
  BY <1>1 DEF PowerLock, At, crtc, event, irq, supply, history
<1>3. Goto("pm", "walk")
  BY <1>1 DEF PowerLock, At
<1>4. /\ pc' \in [Actors -> Labels] /\ pc'["pm"] = "walk"
      /\ \A b \in Actors \ {"pm"} : pc'[b] = pc[b]
  BY <1>3, GotoPc, LabelsListed, ActorsListed DEF IInv
<1>5. States' /\ Counts' /\ Masks'
  BY <1>1, <1>2, <1>3, QuietMasks, LabelsListed, ActorsListed
    DEF Changing
<1>6. LockType'
  BY <1>2, Types DEF IInv, LockType, Threads
<1>7. TypeOK'
  BY <1>2, <1>4, <1>6, Types, TypesKept, TypesNext DEF IInv, PcType
<1>8. Locks'
  BY <1>1, <1>2, <1>4, ActorsListed DEF IInv, Locks, Sections, At
<1>9. Fresh'
  BY <1>1, <1>2, <1>4, ActorsListed DEF IInv, Fresh, Locks, Sections, At
<1> QED BY <1>7, <1>8, <1>9, <1>5 DEF IInv

LEMMA PowerWalkInv ==
  ASSUME IInv, PowerWalk
  PROVE  IInv'
<1>1. pc["pm"] = "walk" /\ spin_lock = "free"
  BY DEF PowerWalk, At
<1>2. CASE node = "listed" /\ power = "suspending"
  <2>1. /\ spin_lock' = "pm"
        /\ UNCHANGED <<enabled, lit, mixers, power_event, node, state,
            callback, orphans, count, mask, pending, seen, irq_lock, refs,
            power, torn, collided, crtc_lock, busy>>
    BY <1>1, <1>2 DEF PowerWalk, At, crtc, event, irq, supply, history
  <2>2. Goto("pm", "disarm")
    BY <1>1, <1>2 DEF PowerWalk, At
  <2>3. /\ pc' \in [Actors -> Labels] /\ pc'["pm"] = "disarm"
        /\ \A b \in Actors \ {"pm"} : pc'[b] = pc[b]
    BY <2>2, GotoPc, LabelsListed, ActorsListed DEF IInv
  <2>4. States' /\ Counts' /\ Masks'
    BY <1>1, <2>1, <2>2, QuietMasks, LabelsListed, ActorsListed
      DEF Changing
  <2>5. LockType'
    BY <2>1, Types DEF IInv, LockType, Threads
  <2>6. TypeOK'
    BY <2>1, <2>3, <2>5, Types, TypesKept, TypesNext DEF IInv, PcType
  <2>7. Locks'
    BY <1>1, <1>2, <2>1, <2>3, ActorsListed DEF IInv, Locks, Sections, At
  <2>8. Fresh'
    BY <1>1, <1>2, <2>1, <2>3, ActorsListed DEF IInv, Fresh, Locks, Sections,
        At
  <2> QED BY <2>6, <2>7, <2>8, <2>4 DEF IInv
<1>3. CASE node = "listed" /\ power # "suspending"
  <2>1. /\ spin_lock' = "pm"
        /\ UNCHANGED <<enabled, lit, mixers, power_event, node, state,
            callback, orphans, count, mask, pending, seen, irq_lock, refs,
            power, torn, collided, crtc_lock, busy>>
    BY <1>1, <1>3 DEF PowerWalk, At, crtc, event, irq, supply, history
  <2>2. Goto("pm", "register")
    BY <1>1, <1>3 DEF PowerWalk, At
  <2>3. /\ pc' \in [Actors -> Labels] /\ pc'["pm"] = "register"
        /\ \A b \in Actors \ {"pm"} : pc'[b] = pc[b]
    BY <2>2, GotoPc, LabelsListed, ActorsListed DEF IInv
  <2>4. States' /\ Counts' /\ Masks'
    BY <1>1, <2>1, <2>2, QuietMasks, LabelsListed, ActorsListed
      DEF Changing
  <2>5. LockType'
    BY <2>1, Types DEF IInv, LockType, Threads
  <2>6. TypeOK'
    BY <2>1, <2>3, <2>5, Types, TypesKept, TypesNext DEF IInv, PcType
  <2>7. Locks'
    BY <1>1, <1>3, <2>1, <2>3, ActorsListed DEF IInv, Locks, Sections, At
  <2>8. Fresh'
    BY <1>1, <1>3, <2>1, <2>3, ActorsListed DEF IInv, Fresh, Locks, Sections,
        At
  <2> QED BY <2>6, <2>7, <2>8, <2>4 DEF IInv
<1>4. CASE node # "listed"
  <2>1. /\ UNCHANGED <<enabled, lit, mixers, power_event, node, state,
            callback, orphans, count, mask, pending, seen, irq_lock, refs,
            power, torn, collided, crtc_lock, spin_lock, busy>>
    BY <1>1, <1>4 DEF PowerWalk, At, crtc, event, irq, supply, history
  <2>2. Goto("pm", "end")
    BY <1>1, <1>4 DEF PowerWalk, At
  <2>3. /\ pc' \in [Actors -> Labels] /\ pc'["pm"] = "end"
        /\ \A b \in Actors \ {"pm"} : pc'[b] = pc[b]
    BY <2>2, GotoPc, LabelsListed, ActorsListed DEF IInv
  <2>4. States' /\ Counts' /\ Masks'
    BY <1>1, <2>1, <2>2, QuietMasks, LabelsListed, ActorsListed
      DEF Changing
  <2>5. TypeOK'
    BY <2>1, <2>3, Types, TypesKept, TypesNext DEF IInv, PcType
  <2>6. Locks'
    BY <1>1, <1>4, <2>1, <2>3, ActorsListed DEF IInv, Locks, Sections, At
  <2>7. Fresh'
    BY <1>1, <1>4, <2>1, <2>3, ActorsListed DEF IInv, Fresh, Locks, Sections,
        At
  <2> QED BY <2>5, <2>6, <2>7, <2>4 DEF IInv
<1> QED BY <1>2, <1>3, <1>4

LEMMA PowerWalkedInv ==
  ASSUME IInv, PowerWalked
  PROVE  IInv'
<1>1. pc["pm"] \in {"done", "failed"}
  BY DEF PowerWalked, Returned, At
<1>2. /\ spin_lock' = "free"
      /\ UNCHANGED <<enabled, lit, mixers, power_event, node, state,
          callback, orphans, count, mask, pending, seen, irq_lock, refs,
          power, torn, collided, crtc_lock, busy>>
  BY <1>1 DEF PowerWalked, Returned, At, crtc, event, irq, supply, history
<1>3. Goto("pm", "end")
  BY <1>1 DEF PowerWalked, Returned, At
<1>4. /\ pc' \in [Actors -> Labels] /\ pc'["pm"] = "end"
      /\ \A b \in Actors \ {"pm"} : pc'[b] = pc[b]
  BY <1>3, GotoPc, LabelsListed, ActorsListed DEF IInv
<1>5. States' /\ Counts' /\ Masks'
  BY <1>1, <1>2, <1>3, QuietMasks, LabelsListed, ActorsListed
    DEF Changing
<1>6. LockType'
  BY <1>2, Types DEF IInv, LockType, Threads
<1>7. TypeOK'
  BY <1>2, <1>4, <1>6, Types, TypesKept, TypesNext DEF IInv, PcType
<1>8. Locks'
  BY <1>1, <1>2, <1>4, ActorsListed DEF IInv, Locks, Sections, At
<1>9. Fresh'
  BY <1>1, <1>2, <1>4, ActorsListed DEF IInv, Fresh, Locks, Sections, At
<1> QED BY <1>7, <1>8, <1>9, <1>5 DEF IInv

LEMMA SwitchedInv ==
  ASSUME IInv, Switched
  PROVE  IInv'
<1>1. pc["pm"] = "end"
  BY DEF Switched, At
<1>2. /\ power' = IF power = "suspending" THEN "off" ELSE "on"
      /\ pending' = (pending /\ power = "resuming")
      /\ crtc_lock' = IF crtc_lock = "pm" THEN "free" ELSE crtc_lock
      /\ UNCHANGED <<enabled, lit, mixers, power_event, node, state,
          callback, orphans, count, mask, seen, irq_lock, refs, torn,
          collided, spin_lock, busy>>
  BY <1>1 DEF Switched, At, crtc, event, history
<1>3. Goto("pm", "idle")
  BY <1>1 DEF Switched, At
<1>4. /\ pc' \in [Actors -> Labels] /\ pc'["pm"] = "idle"
      /\ \A b \in Actors \ {"pm"} : pc'[b] = pc[b]
  BY <1>3, GotoPc, LabelsListed, ActorsListed DEF IInv
<1>5. States' /\ Counts' /\ Masks'
  BY <1>1, <1>2, <1>3, QuietMasks, LabelsListed, ActorsListed
    DEF Changing
<1>6. IrqType'
  BY <1>2, Types DEF IInv, IrqType
<1>7. LockType'
  BY <1>2, Types DEF IInv, LockType, Threads
<1>8. RestType'
  BY <1>2, Types DEF IInv, RestType
<1>9. TypeOK'
  BY <1>2, <1>4, <1>6, <1>7, <1>8, Types, TypesKept, TypesNext
    DEF IInv, PcType
<1>10. Locks'
  BY <1>1, <1>2, <1>4, ActorsListed DEF IInv, Locks, Sections, At
<1>11. Fresh'
  BY <1>1, <1>2, <1>4, ActorsListed DEF IInv, Fresh, Locks, Sections, At
<1> QED BY <1>9, <1>10, <1>11, <1>5 DEF IInv

-----------------------------------------------------------------------------
(* The commit thread.                                                      *)
LEMMA DisplayIdleInv ==
  ASSUME IInv, DisplayIdle
  PROVE  IInv'
<1>1. /\ refs' = refs \ {"display"}
      /\ UNCHANGED <<enabled, lit, mixers, power_event, node, state, callback,
                     orphans, count, mask, pending, seen, irq_lock, power,
                     torn, collided, crtc_lock, spin_lock, busy, pc>>
  BY DEF DisplayIdle, crtc, event, irq, history
<1>2. TypeOK'
  BY <1>1 DEF IInv, TypeOK
<1>3. Locks' /\ Fresh'
  BY <1>1 DEF IInv, Locks, Fresh, At
<1>4. States'
  BY <1>1 DEF IInv, States, At
<1>5. Counts'
  BY <1>1 DEF IInv, Counts, Owned, At
<1>6. Masks'
  BY <1>1 DEF IInv, Masks, MaskPhases, PeerAgrees, InFlight, At
<1> QED BY <1>2, <1>3, <1>4, <1>5, <1>6 DEF IInv

LEMMA CommitStartInv ==
  ASSUME IInv, CommitStart
  PROVE  IInv'
<1>1. pc["commit"] = "idle"
  BY DEF CommitStart, At
<1>2. /\ refs' = refs \union {"commit"}
      /\ UNCHANGED <<enabled, lit, mixers, power_event, node, state,
          callback, orphans, count, mask, pending, seen, irq_lock, power,
          torn, collided, crtc_lock, spin_lock, busy>>
  BY <1>1 DEF CommitStart, At, crtc, event, irq, history
<1>3. Goto("commit", "get")
  BY <1>1 DEF CommitStart, At
<1>4. /\ pc' \in [Actors -> Labels] /\ pc'["commit"] = "get"
      /\ \A b \in Actors \ {"commit"} : pc'[b] = pc[b]
  BY <1>3, GotoPc, LabelsListed, ActorsListed DEF IInv
<1>5. States' /\ Counts' /\ Masks'
  BY <1>1, <1>2, <1>3, QuietMasks, LabelsListed, ActorsListed
    DEF Changing
<1>6. RestType'
  BY <1>2, Types DEF IInv, RestType
<1>7. TypeOK'
  BY <1>2, <1>4, <1>6, Types, TypesKept, TypesNext DEF IInv, PcType
<1>8. Locks'
  BY <1>1, <1>2, <1>4, ActorsListed DEF IInv, Locks, Sections, At
<1>9. Fresh'
  BY <1>1, <1>2, <1>4, ActorsListed DEF IInv, Fresh, Locks, Sections, At
<1> QED BY <1>7, <1>8, <1>9, <1>5 DEF IInv

LEMMA FlipInv ==
  ASSUME IInv, Flip
  PROVE  IInv'
<1>1. pc["commit"] = "get"
  BY DEF Flip, At
<1>2. /\ UNCHANGED <<enabled, lit, mixers, power_event, node, state,
          callback, orphans, count, mask, pending, seen, irq_lock, refs,
          power, torn, collided, crtc_lock, spin_lock, busy>>
  BY <1>1 DEF Flip, At, crtc, event, irq, supply, history
<1>3. Goto("commit", "apply")
  BY <1>1 DEF Flip, At
<1>4. /\ pc' \in [Actors -> Labels] /\ pc'["commit"] = "apply"
      /\ \A b \in Actors \ {"commit"} : pc'[b] = pc[b]
  BY <1>3, GotoPc, LabelsListed, ActorsListed DEF IInv
<1>5. States' /\ Counts' /\ Masks'
  BY <1>1, <1>2, <1>3, QuietMasks, LabelsListed, ActorsListed
    DEF Changing
<1>6. TypeOK'
  BY <1>2, <1>4, Types, TypesKept, TypesNext DEF IInv, PcType
<1>7. Locks'
  BY <1>1, <1>2, <1>4, ActorsListed DEF IInv, Locks, Sections, At
<1>8. Fresh'
  BY <1>1, <1>2, <1>4, ActorsListed DEF IInv, Fresh, Locks, Sections, At
<1> QED BY <1>6, <1>7, <1>8, <1>5 DEF IInv

LEMMA CrtcDisableInv ==
  ASSUME IInv, CrtcDisable
  PROVE  IInv'
<1>1. pc["commit"] = "get"
  BY DEF CrtcDisable, At
<1>2. /\ crtc_lock' = "commit"
      /\ lit' = FALSE
      /\ refs' = refs \ {"display"}
      /\ UNCHANGED <<enabled, mixers, power_event, node, state, callback,
          orphans, count, mask, pending, seen, irq_lock, power, torn,
          collided, spin_lock, busy>>
  BY <1>1 DEF CrtcDisable, At, event, irq, history
<1>3. Goto("commit", "walk off")
  BY <1>1 DEF CrtcDisable, At
<1>4. /\ pc' \in [Actors -> Labels] /\ pc'["commit"] = "walk off"
      /\ \A b \in Actors \ {"commit"} : pc'[b] = pc[b]
  BY <1>3, GotoPc, LabelsListed, ActorsListed DEF IInv
<1>5. States' /\ Counts' /\ Masks'
  BY <1>1, <1>2, <1>3, QuietMasks, LabelsListed, ActorsListed
    DEF Changing
<1>6. CrtcType'
  BY <1>2, Types DEF IInv, CrtcType
<1>7. LockType'
  BY <1>2, Types DEF IInv, LockType, Threads
<1>8. RestType'
  BY <1>2, Types DEF IInv, RestType
<1>9. TypeOK'
  BY <1>2, <1>4, <1>6, <1>7, <1>8, Types, TypesKept, TypesNext
    DEF IInv, PcType
<1>10. Locks'
  BY <1>1, <1>2, <1>4, ActorsListed DEF IInv, Locks, Sections, At
<1>11. Fresh'
  BY <1>1, <1>2, <1>4, ActorsListed DEF IInv, Fresh, Locks, Sections, At
<1> QED BY <1>9, <1>10, <1>11, <1>5 DEF IInv

LEMMA TurnOnInv ==
  ASSUME IInv, TurnOn
  PROVE  IInv'
<1>1. pc["commit"] = "get"
  BY DEF TurnOn, At
<1>2. /\ enabled' = TRUE
      /\ UNCHANGED <<lit, mixers, power_event, node, state, callback,
          orphans, count, mask, pending, seen, irq_lock, refs, power, torn,
          collided, crtc_lock, spin_lock, busy>>
  BY <1>1 DEF TurnOn, At, event, irq, supply, history
<1>3. Goto("commit", "mixers")
  BY <1>1 DEF TurnOn, At
<1>4. /\ pc' \in [Actors -> Labels] /\ pc'["commit"] = "mixers"
      /\ \A b \in Actors \ {"commit"} : pc'[b] = pc[b]
  BY <1>3, GotoPc, LabelsListed, ActorsListed DEF IInv
<1>5. States' /\ Counts' /\ Masks'
  BY <1>1, <1>2, <1>3, QuietMasks, LabelsListed, ActorsListed
    DEF Changing
<1>6. CrtcType'
  BY <1>2, Types DEF IInv, CrtcType
<1>7. TypeOK'
  BY <1>2, <1>4, <1>6, Types, TypesKept, TypesNext DEF IInv, PcType
<1>8. Locks'
  BY <1>1, <1>2, <1>4, ActorsListed DEF IInv, Locks, Sections, At
<1>9. Fresh'
  BY <1>1, <1>2, <1>4, ActorsListed DEF IInv, Fresh, Locks, Sections, At
<1> QED BY <1>7, <1>8, <1>9, <1>5 DEF IInv

LEMMA DisableWalkInv ==
  ASSUME IInv, DisableWalk
  PROVE  IInv'
<1>1. pc["commit"] = "walk off" /\ spin_lock = "free"
  BY DEF DisableWalk, At
<1>2. CASE node = "listed"
  <2>1. /\ torn' \in BOOLEAN
        /\ spin_lock' = "commit"
        /\ UNCHANGED <<enabled, lit, mixers, power_event, node, state,
            callback, orphans, count, mask, pending, seen, irq_lock, refs,
            power, collided, crtc_lock, busy>>
    BY <1>1, <1>2 DEF DisableWalk, At, crtc, event, irq, supply, IInv, TypeOK
  <2>2. Goto("commit", "disarm")
    BY <1>1, <1>2 DEF DisableWalk, At
  <2>3. /\ pc' \in [Actors -> Labels] /\ pc'["commit"] = "disarm"
        /\ \A b \in Actors \ {"commit"} : pc'[b] = pc[b]
    BY <2>2, GotoPc, LabelsListed, ActorsListed DEF IInv
  <2>4. States' /\ Counts' /\ Masks'
    BY <1>1, <2>1, <2>2, QuietMasks, LabelsListed, ActorsListed
      DEF Changing
  <2>5. LockType'
    BY <2>1, Types DEF IInv, LockType, Threads
  <2>6. RestType'
    BY <2>1, Types DEF IInv, RestType
  <2>7. TypeOK'
    BY <2>1, <2>3, <2>5, <2>6, Types, TypesKept, TypesNext DEF IInv, PcType
  <2>8. Locks'
    BY <1>1, <1>2, <2>1, <2>3, ActorsListed DEF IInv, Locks, Sections, At
  <2>9. Fresh'
    BY <1>1, <1>2, <2>1, <2>3, ActorsListed DEF IInv, Fresh, Locks, Sections,
        At
  <2> QED BY <2>7, <2>8, <2>9, <2>4 DEF IInv
<1>3. CASE node # "listed"
  <2>1. /\ torn' \in BOOLEAN
        /\ UNCHANGED <<enabled, lit, mixers, power_event, node, state,
            callback, orphans, count, mask, pending, seen, irq_lock, refs,
            power, collided, crtc_lock, spin_lock, busy>>
    BY <1>1, <1>3 DEF DisableWalk, At, crtc, event, irq, supply, IInv, TypeOK
  <2>2. Goto("commit", "reset")
    BY <1>1, <1>3 DEF DisableWalk, At
  <2>3. /\ pc' \in [Actors -> Labels] /\ pc'["commit"] = "reset"
        /\ \A b \in Actors \ {"commit"} : pc'[b] = pc[b]
    BY <2>2, GotoPc, LabelsListed, ActorsListed DEF IInv
  <2>4. States' /\ Counts' /\ Masks'
    BY <1>1, <2>1, <2>2, QuietMasks, LabelsListed, ActorsListed
      DEF Changing
  <2>5. RestType'
    BY <2>1, Types DEF IInv, RestType
  <2>6. TypeOK'
    BY <2>1, <2>3, <2>5, Types, TypesKept, TypesNext DEF IInv, PcType
  <2>7. Locks'
    BY <1>1, <1>3, <2>1, <2>3, ActorsListed DEF IInv, Locks, Sections, At
  <2>8. Fresh'
    BY <1>1, <1>3, <2>1, <2>3, ActorsListed DEF IInv, Fresh, Locks, Sections,
        At
  <2> QED BY <2>6, <2>7, <2>8, <2>4 DEF IInv
<1> QED BY <1>2, <1>3

LEMMA DisableWalkedInv ==
  ASSUME IInv, DisableWalked
  PROVE  IInv'
<1>1. pc["commit"] \in {"done", "failed"}
  BY DEF DisableWalked, Returned, At
<1>2. /\ spin_lock' = "free"
      /\ UNCHANGED <<enabled, lit, mixers, power_event, node, state,
          callback, orphans, count, mask, pending, seen, irq_lock, refs,
          power, torn, collided, crtc_lock, busy>>
  BY <1>1 DEF DisableWalked, Returned, At, crtc, event, irq, supply, history
<1>3. Goto("commit", "reset")
  BY <1>1 DEF DisableWalked, Returned, At
<1>4. /\ pc' \in [Actors -> Labels] /\ pc'["commit"] = "reset"
      /\ \A b \in Actors \ {"commit"} : pc'[b] = pc[b]
  BY <1>3, GotoPc, LabelsListed, ActorsListed DEF IInv
<1>5. States' /\ Counts' /\ Masks'
  BY <1>1, <1>2, <1>3, QuietMasks, LabelsListed, ActorsListed
    DEF Changing
<1>6. LockType'
  BY <1>2, Types DEF IInv, LockType, Threads
<1>7. TypeOK'
  BY <1>2, <1>4, <1>6, Types, TypesKept, TypesNext DEF IInv, PcType
<1>8. Locks'
  BY <1>1, <1>2, <1>4, ActorsListed DEF IInv, Locks, Sections, At
<1>9. Fresh'
  BY <1>1, <1>2, <1>4, ActorsListed DEF IInv, Fresh, Locks, Sections, At
<1> QED BY <1>7, <1>8, <1>9, <1>5 DEF IInv

LEMMA CrtcResetInv ==
  ASSUME IInv, CrtcReset
  PROVE  IInv'
<1>1. pc["commit"] = "reset"
  BY DEF CrtcReset, At
<1>2. /\ power_event' = FALSE
      /\ mixers' = FALSE
      /\ crtc_lock' = "free"
      /\ UNCHANGED <<enabled, lit, node, state, callback, orphans, count,
          mask, pending, seen, irq_lock, refs, power, torn, collided,
          spin_lock, busy>>
  BY <1>1 DEF CrtcReset, At, event, irq, supply, history
<1>3. Goto("commit", "modeset")
  BY <1>1 DEF CrtcReset, At
<1>4. /\ pc' \in [Actors -> Labels] /\ pc'["commit"] = "modeset"
      /\ \A b \in Actors \ {"commit"} : pc'[b] = pc[b]
  BY <1>3, GotoPc, LabelsListed, ActorsListed DEF IInv
<1>5. States' /\ Counts' /\ Masks'
  BY <1>1, <1>2, <1>3, QuietMasks, LabelsListed, ActorsListed
    DEF Changing
<1>6. CrtcType'
  BY <1>2, Types DEF IInv, CrtcType
<1>7. LockType'
  BY <1>2, Types DEF IInv, LockType, Threads
<1>8. TypeOK'
  BY <1>2, <1>4, <1>6, <1>7, Types, TypesKept, TypesNext DEF IInv, PcType
<1>9. Locks'
  BY <1>1, <1>2, <1>4, ActorsListed DEF IInv, Locks, Sections, At
<1>10. Fresh'
  BY <1>1, <1>2, <1>4, ActorsListed DEF IInv, Fresh, Locks, Sections, At
<1> QED BY <1>8, <1>9, <1>10, <1>5 DEF IInv

LEMMA ModesetInv ==
  ASSUME IInv, Modeset
  PROVE  IInv'
<1>1. pc["commit"] = "modeset"
  BY DEF Modeset, At
<1>2. CASE Goto("commit", "end")
  <2>1. /\ enabled' \in BOOLEAN
        /\ UNCHANGED <<lit, mixers, power_event, node, state, callback,
            orphans, count, mask, pending, seen, irq_lock, refs, power, torn,
            collided, crtc_lock, spin_lock, busy>>
    BY <1>1, <1>2 DEF Modeset, At, event, irq, supply, history, IInv, TypeOK
  <2>2. Goto("commit", "end")
    BY <1>1, <1>2 DEF Modeset, At
  <2>3. /\ pc' \in [Actors -> Labels] /\ pc'["commit"] = "end"
        /\ \A b \in Actors \ {"commit"} : pc'[b] = pc[b]
    BY <2>2, GotoPc, LabelsListed, ActorsListed DEF IInv
  <2>4. States' /\ Counts' /\ Masks'
    BY <1>1, <2>1, <2>2, QuietMasks, LabelsListed, ActorsListed
      DEF Changing
  <2>5. CrtcType'
    BY <2>1, Types DEF IInv, CrtcType
  <2>6. TypeOK'
    BY <2>1, <2>3, <2>5, Types, TypesKept, TypesNext DEF IInv, PcType
  <2>7. Locks'
    BY <1>1, <1>2, <2>1, <2>3, ActorsListed DEF IInv, Locks, Sections, At
  <2>8. Fresh'
    BY <1>1, <1>2, <2>1, <2>3, ActorsListed DEF IInv, Fresh, Locks, Sections,
        At
  <2> QED BY <2>6, <2>7, <2>8, <2>4 DEF IInv
<1>3. CASE Goto("commit", "mixers")
  <2>1. /\ enabled' \in BOOLEAN
        /\ UNCHANGED <<lit, mixers, power_event, node, state, callback,
            orphans, count, mask, pending, seen, irq_lock, refs, power, torn,
            collided, crtc_lock, spin_lock, busy>>
    BY <1>1, <1>3 DEF Modeset, At, event, irq, supply, history, IInv, TypeOK
  <2>2. Goto("commit", "mixers")
    BY <1>1, <1>3 DEF Modeset, At
  <2>3. /\ pc' \in [Actors -> Labels] /\ pc'["commit"] = "mixers"
        /\ \A b \in Actors \ {"commit"} : pc'[b] = pc[b]
    BY <2>2, GotoPc, LabelsListed, ActorsListed DEF IInv
  <2>4. States' /\ Counts' /\ Masks'
    BY <1>1, <2>1, <2>2, QuietMasks, LabelsListed, ActorsListed
      DEF Changing
  <2>5. CrtcType'
    BY <2>1, Types DEF IInv, CrtcType
  <2>6. TypeOK'
    BY <2>1, <2>3, <2>5, Types, TypesKept, TypesNext DEF IInv, PcType
  <2>7. Locks'
    BY <1>1, <1>3, <2>1, <2>3, ActorsListed DEF IInv, Locks, Sections, At
  <2>8. Fresh'
    BY <1>1, <1>3, <2>1, <2>3, ActorsListed DEF IInv, Fresh, Locks, Sections,
        At
  <2> QED BY <2>6, <2>7, <2>8, <2>4 DEF IInv
<1> QED BY <1>2, <1>3 DEF Modeset

LEMMA SetupMixersInv ==
  ASSUME IInv, SetupMixers
  PROVE  IInv'
<1>1. pc["commit"] = "mixers"
  BY DEF SetupMixers, At
<1>2. /\ mixers' = TRUE
      /\ UNCHANGED <<enabled, lit, power_event, node, state, callback,
          orphans, count, mask, pending, seen, irq_lock, refs, power, torn,
          collided, crtc_lock, spin_lock, busy>>
  BY <1>1 DEF SetupMixers, At, event, irq, supply, history
<1>3. Goto("commit", "apply")
  BY <1>1 DEF SetupMixers, At
<1>4. /\ pc' \in [Actors -> Labels] /\ pc'["commit"] = "apply"
      /\ \A b \in Actors \ {"commit"} : pc'[b] = pc[b]
  BY <1>3, GotoPc, LabelsListed, ActorsListed DEF IInv
<1>5. States' /\ Counts' /\ Masks'
  BY <1>1, <1>2, <1>3, QuietMasks, LabelsListed, ActorsListed
    DEF Changing
<1>6. CrtcType'
  BY <1>2, Types DEF IInv, CrtcType
<1>7. TypeOK'
  BY <1>2, <1>4, <1>6, Types, TypesKept, TypesNext DEF IInv, PcType
<1>8. Locks'
  BY <1>1, <1>2, <1>4, ActorsListed DEF IInv, Locks, Sections, At
<1>9. Fresh'
  BY <1>1, <1>2, <1>4, ActorsListed DEF IInv, Fresh, Locks, Sections, At
<1> QED BY <1>7, <1>8, <1>9, <1>5 DEF IInv

LEMMA ApplyNothingInv ==
  ASSUME IInv, ApplyNothing
  PROVE  IInv'
<1>1. pc["commit"] = "apply"
  BY DEF ApplyNothing, Applied, At
<1>2. CASE lit
  <2>1. /\ UNCHANGED <<enabled, lit, mixers, power_event, node, state,
            callback, orphans, count, mask, pending, seen, irq_lock, refs,
            power, torn, collided, crtc_lock, spin_lock, busy>>
    BY <1>1, <1>2 DEF ApplyNothing, Applied, At, crtc, event, irq, supply,
        history
  <2>2. Goto("commit", "end")
    BY <1>1, <1>2 DEF ApplyNothing, Applied, At
  <2>3. /\ pc' \in [Actors -> Labels] /\ pc'["commit"] = "end"
        /\ \A b \in Actors \ {"commit"} : pc'[b] = pc[b]
    BY <2>2, GotoPc, LabelsListed, ActorsListed DEF IInv
  <2>4. States' /\ Counts' /\ Masks'
    BY <1>1, <2>1, <2>2, QuietMasks, LabelsListed, ActorsListed
      DEF Changing
  <2>5. TypeOK'
    BY <2>1, <2>3, Types, TypesKept, TypesNext DEF IInv, PcType
  <2>6. Locks'
    BY <1>1, <1>2, <2>1, <2>3, ActorsListed DEF IInv, Locks, Sections, At
  <2>7. Fresh'
    BY <1>1, <1>2, <2>1, <2>3, ActorsListed DEF IInv, Fresh, Locks, Sections,
        At
  <2> QED BY <2>5, <2>6, <2>7, <2>4 DEF IInv
<1>3. CASE ~lit
  <2>1. /\ UNCHANGED <<enabled, lit, mixers, power_event, node, state,
            callback, orphans, count, mask, pending, seen, irq_lock, refs,
            power, torn, collided, crtc_lock, spin_lock, busy>>
    BY <1>1, <1>3 DEF ApplyNothing, Applied, At, crtc, event, irq, supply,
        history
  <2>2. Goto("commit", "enable crtc")
    BY <1>1, <1>3 DEF ApplyNothing, Applied, At
  <2>3. /\ pc' \in [Actors -> Labels] /\ pc'["commit"] = "enable crtc"
        /\ \A b \in Actors \ {"commit"} : pc'[b] = pc[b]
    BY <2>2, GotoPc, LabelsListed, ActorsListed DEF IInv
  <2>4. States' /\ Counts' /\ Masks'
    BY <1>1, <2>1, <2>2, QuietMasks, LabelsListed, ActorsListed
      DEF Changing
  <2>5. TypeOK'
    BY <2>1, <2>3, Types, TypesKept, TypesNext DEF IInv, PcType
  <2>6. Locks'
    BY <1>1, <1>3, <2>1, <2>3, ActorsListed DEF IInv, Locks, Sections, At
  <2>7. Fresh'
    BY <1>1, <1>3, <2>1, <2>3, ActorsListed DEF IInv, Fresh, Locks, Sections,
        At
  <2> QED BY <2>5, <2>6, <2>7, <2>4 DEF IInv
<1> QED BY <1>2, <1>3

LEMMA ApplyHistIrqInv ==
  ASSUME IInv, ApplyHistIrq
  PROVE  IInv'
<1>1. pc["commit"] = "apply" /\ spin_lock = "free" /\ node = "listed" /\ state = "DISABLED"
  BY DEF ApplyHistIrq, At
<1>2. /\ \A b \in Threads \ {"commit"} : pc[b] \notin Sections
      /\ pc["worker"] # "write"
  BY <1>1, SpinFree DEF IInv, Locks, Sections, Threads, At
<1>3. SoloStates("apply", state, callback)
  BY <1>1, <1>2, SoloThread DEF IInv, Threads
<1>4. SoloCounts("apply", state, count, orphans)
  BY <1>1, <1>2, SoloThread DEF IInv, Threads
<1>5. ~collided => SoloMasks("apply", count, mask)
  BY <1>1, <1>2, SoloThread DEF IInv, Masks, Threads
<1>6. count \in Nat
  BY DEF IInv, TypeOK
<1>7. /\ spin_lock' = "commit"
      /\ UNCHANGED <<enabled, lit, mixers, power_event, node, state,
          callback, orphans, count, mask, pending, seen, irq_lock, refs,
          power, torn, collided, crtc_lock, busy>>
  BY <1>1 DEF ApplyHistIrq, At, crtc, event, irq, supply, history
<1>8. Goto("commit", "enable")
  BY <1>1 DEF ApplyHistIrq, At
<1>9. /\ pc' \in [Actors -> Labels] /\ pc'["commit"] = "enable"
      /\ \A b \in Actors \ {"commit"} : pc'[b] = pc[b]
  BY <1>8, GotoPc, LabelsListed, ActorsListed DEF IInv
<1>10. /\ \A b \in Threads \ {"commit"} : pc'[b] \notin Sections
       /\ pc'["worker"] # "write" /\ pc'["peer"] = pc["peer"]
  BY <1>2, <1>9, ActorsListed
<1>11. SoloStates("enable", state', callback')
  BY <1>1, <1>3, <1>7 DEF SoloStates
<1>12. SoloCounts("enable", state', count', orphans')
  BY <1>1, <1>3, <1>4, <1>6, <1>7 DEF SoloCounts, SoloOwned, SoloStates
<1>13. ~collided' => SoloMasks("enable", count', mask')
  BY <1>1, <1>3, <1>4, <1>5, <1>6, <1>7 DEF SoloMasks, SoloCounts, SoloOwned,
      SoloStates
<1>14. ~collided' => PeerAgrees'
  BY <1>7, <1>10 DEF IInv, Masks, PeerAgrees, At
<1>15. States' /\ Counts' /\ Masks'
  BY <1>9, <1>10, <1>11, <1>12, <1>13, <1>14, SoloThreadNext
    DEF Masks, Threads
<1>16. LockType'
  BY <1>7, Types DEF IInv, LockType, Threads
<1>17. TypeOK'
  BY <1>7, <1>9, <1>16, Types, TypesKept, TypesNext DEF IInv, PcType
<1>18. Locks'
  BY <1>1, <1>2, <1>7, <1>9, ActorsListed DEF IInv, Locks, Sections, At
<1>19. Fresh'
  BY <1>1, <1>7, <1>9, ActorsListed DEF IInv, Fresh, Locks, Sections, At
<1> QED BY <1>17, <1>18, <1>19, <1>15 DEF IInv

LEMMA AppliedHistIrqInv ==
  ASSUME IInv, AppliedHistIrq
  PROVE  IInv'
<1>1. pc["commit"] = "done"
  BY DEF AppliedHistIrq, Applied, At
<1>2. CASE lit
  <2>1. /\ spin_lock' = "free"
        /\ UNCHANGED <<enabled, lit, mixers, power_event, node, state,
            callback, orphans, count, mask, pending, seen, irq_lock, refs,
            power, torn, collided, crtc_lock, busy>>
    BY <1>1, <1>2 DEF AppliedHistIrq, Applied, At, crtc, event, irq, supply,
        history
  <2>2. Goto("commit", "end")
    BY <1>1, <1>2 DEF AppliedHistIrq, Applied, At
  <2>3. /\ pc' \in [Actors -> Labels] /\ pc'["commit"] = "end"
        /\ \A b \in Actors \ {"commit"} : pc'[b] = pc[b]
    BY <2>2, GotoPc, LabelsListed, ActorsListed DEF IInv
  <2>4. States' /\ Counts' /\ Masks'
    BY <1>1, <2>1, <2>2, QuietMasks, LabelsListed, ActorsListed
      DEF Changing
  <2>5. LockType'
    BY <2>1, Types DEF IInv, LockType, Threads
  <2>6. TypeOK'
    BY <2>1, <2>3, <2>5, Types, TypesKept, TypesNext DEF IInv, PcType
  <2>7. Locks'
    BY <1>1, <1>2, <2>1, <2>3, ActorsListed DEF IInv, Locks, Sections, At
  <2>8. Fresh'
    BY <1>1, <1>2, <2>1, <2>3, ActorsListed DEF IInv, Fresh, Locks, Sections,
        At
  <2> QED BY <2>6, <2>7, <2>8, <2>4 DEF IInv
<1>3. CASE ~lit
  <2>1. /\ spin_lock' = "free"
        /\ UNCHANGED <<enabled, lit, mixers, power_event, node, state,
            callback, orphans, count, mask, pending, seen, irq_lock, refs,
            power, torn, collided, crtc_lock, busy>>
    BY <1>1, <1>3 DEF AppliedHistIrq, Applied, At, crtc, event, irq, supply,
        history
  <2>2. Goto("commit", "enable crtc")
    BY <1>1, <1>3 DEF AppliedHistIrq, Applied, At
  <2>3. /\ pc' \in [Actors -> Labels] /\ pc'["commit"] = "enable crtc"
        /\ \A b \in Actors \ {"commit"} : pc'[b] = pc[b]
    BY <2>2, GotoPc, LabelsListed, ActorsListed DEF IInv
  <2>4. States' /\ Counts' /\ Masks'
    BY <1>1, <2>1, <2>2, QuietMasks, LabelsListed, ActorsListed
      DEF Changing
  <2>5. LockType'
    BY <2>1, Types DEF IInv, LockType, Threads
  <2>6. TypeOK'
    BY <2>1, <2>3, <2>5, Types, TypesKept, TypesNext DEF IInv, PcType
  <2>7. Locks'
    BY <1>1, <1>3, <2>1, <2>3, ActorsListed DEF IInv, Locks, Sections, At
  <2>8. Fresh'
    BY <1>1, <1>3, <2>1, <2>3, ActorsListed DEF IInv, Fresh, Locks, Sections,
        At
  <2> QED BY <2>6, <2>7, <2>8, <2>4 DEF IInv
<1> QED BY <1>2, <1>3

LEMMA CrtcEnableInv ==
  ASSUME IInv, CrtcEnable
  PROVE  IInv'
<1>1. pc["commit"] = "enable crtc"
  BY DEF CrtcEnable, At
<1>2. /\ lit' = TRUE
      /\ UNCHANGED <<enabled, mixers, power_event, node, state, callback,
          orphans, count, mask, pending, seen, irq_lock, refs, power, torn,
          collided, crtc_lock, spin_lock, busy>>
  BY <1>1 DEF CrtcEnable, At, crtc, event, irq, supply, history
<1>3. Goto("commit", "walk on")
  BY <1>1 DEF CrtcEnable, At
<1>4. /\ pc' \in [Actors -> Labels] /\ pc'["commit"] = "walk on"
      /\ \A b \in Actors \ {"commit"} : pc'[b] = pc[b]
  BY <1>3, GotoPc, LabelsListed, ActorsListed DEF IInv
<1>5. States' /\ Counts' /\ Masks'
  BY <1>1, <1>2, <1>3, QuietMasks, LabelsListed, ActorsListed
    DEF Changing
<1>6. CrtcType'
  BY <1>2, Types DEF IInv, CrtcType
<1>7. TypeOK'
  BY <1>2, <1>4, <1>6, Types, TypesKept, TypesNext DEF IInv, PcType
<1>8. Locks'
  BY <1>1, <1>2, <1>4, ActorsListed DEF IInv, Locks, Sections, At
<1>9. Fresh'
  BY <1>1, <1>2, <1>4, ActorsListed DEF IInv, Fresh, Locks, Sections, At
<1> QED BY <1>7, <1>8, <1>9, <1>5 DEF IInv

LEMMA EnableWalkInv ==
  ASSUME IInv, EnableWalk
  PROVE  IInv'
<1>1. pc["commit"] = "walk on" /\ spin_lock = "free"
  BY DEF EnableWalk, At
<1>2. CASE node = "listed"
  <2>1. /\ torn' \in BOOLEAN
        /\ spin_lock' = "commit"
        /\ UNCHANGED <<enabled, lit, mixers, power_event, node, state,
            callback, orphans, count, mask, pending, seen, irq_lock, refs,
            power, collided, crtc_lock, busy>>
    BY <1>1, <1>2 DEF EnableWalk, At, crtc, event, irq, supply, IInv, TypeOK
  <2>2. Goto("commit", "register")
    BY <1>1, <1>2 DEF EnableWalk, At
  <2>3. /\ pc' \in [Actors -> Labels] /\ pc'["commit"] = "register"
        /\ \A b \in Actors \ {"commit"} : pc'[b] = pc[b]
    BY <2>2, GotoPc, LabelsListed, ActorsListed DEF IInv
  <2>4. States' /\ Counts' /\ Masks'
    BY <1>1, <2>1, <2>2, QuietMasks, LabelsListed, ActorsListed
      DEF Changing
  <2>5. LockType'
    BY <2>1, Types DEF IInv, LockType, Threads
  <2>6. RestType'
    BY <2>1, Types DEF IInv, RestType
  <2>7. TypeOK'
    BY <2>1, <2>3, <2>5, <2>6, Types, TypesKept, TypesNext DEF IInv, PcType
  <2>8. Locks'
    BY <1>1, <1>2, <2>1, <2>3, ActorsListed DEF IInv, Locks, Sections, At
  <2>9. Fresh'
    BY <1>1, <1>2, <2>1, <2>3, ActorsListed DEF IInv, Fresh, Locks, Sections,
        At
  <2> QED BY <2>7, <2>8, <2>9, <2>4 DEF IInv
<1>3. CASE node # "listed"
  <2>1. /\ torn' \in BOOLEAN
        /\ UNCHANGED <<enabled, lit, mixers, power_event, node, state,
            callback, orphans, count, mask, pending, seen, irq_lock, refs,
            power, collided, crtc_lock, spin_lock, busy>>
    BY <1>1, <1>3 DEF EnableWalk, At, crtc, event, irq, supply, IInv, TypeOK
  <2>2. Goto("commit", "power event")
    BY <1>1, <1>3 DEF EnableWalk, At
  <2>3. /\ pc' \in [Actors -> Labels] /\ pc'["commit"] = "power event"
        /\ \A b \in Actors \ {"commit"} : pc'[b] = pc[b]
    BY <2>2, GotoPc, LabelsListed, ActorsListed DEF IInv
  <2>4. States' /\ Counts' /\ Masks'
    BY <1>1, <2>1, <2>2, QuietMasks, LabelsListed, ActorsListed
      DEF Changing
  <2>5. RestType'
    BY <2>1, Types DEF IInv, RestType
  <2>6. TypeOK'
    BY <2>1, <2>3, <2>5, Types, TypesKept, TypesNext DEF IInv, PcType
  <2>7. Locks'
    BY <1>1, <1>3, <2>1, <2>3, ActorsListed DEF IInv, Locks, Sections, At
  <2>8. Fresh'
    BY <1>1, <1>3, <2>1, <2>3, ActorsListed DEF IInv, Fresh, Locks, Sections,
        At
  <2> QED BY <2>6, <2>7, <2>8, <2>4 DEF IInv
<1> QED BY <1>2, <1>3

LEMMA EnableWalkedInv ==
  ASSUME IInv, EnableWalked
  PROVE  IInv'
<1>1. pc["commit"] \in {"done", "failed"}
  BY DEF EnableWalked, Returned, At
<1>2. /\ spin_lock' = "free"
      /\ UNCHANGED <<enabled, lit, mixers, power_event, node, state,
          callback, orphans, count, mask, pending, seen, irq_lock, refs,
          power, torn, collided, crtc_lock, busy>>
  BY <1>1 DEF EnableWalked, Returned, At, crtc, event, irq, supply, history
<1>3. Goto("commit", "power event")
  BY <1>1 DEF EnableWalked, Returned, At
<1>4. /\ pc' \in [Actors -> Labels] /\ pc'["commit"] = "power event"
      /\ \A b \in Actors \ {"commit"} : pc'[b] = pc[b]
  BY <1>3, GotoPc, LabelsListed, ActorsListed DEF IInv
<1>5. States' /\ Counts' /\ Masks'
  BY <1>1, <1>2, <1>3, QuietMasks, LabelsListed, ActorsListed
    DEF Changing
<1>6. LockType'
  BY <1>2, Types DEF IInv, LockType, Threads
<1>7. TypeOK'
  BY <1>2, <1>4, <1>6, Types, TypesKept, TypesNext DEF IInv, PcType
<1>8. Locks'
  BY <1>1, <1>2, <1>4, ActorsListed DEF IInv, Locks, Sections, At
<1>9. Fresh'
  BY <1>1, <1>2, <1>4, ActorsListed DEF IInv, Fresh, Locks, Sections, At
<1> QED BY <1>7, <1>8, <1>9, <1>5 DEF IInv

LEMMA PowerEventInv ==
  ASSUME IInv, PowerEvent
  PROVE  IInv'
<1>1. pc["commit"] = "power event"
  BY DEF PowerEvent, At
<1>2. /\ power_event' = TRUE
      /\ UNCHANGED <<enabled, lit, mixers, node, state, callback, orphans,
          count, mask, pending, seen, irq_lock, refs, power, torn, collided,
          crtc_lock, spin_lock, busy>>
  BY <1>1 DEF PowerEvent, At, event, irq, supply, history
<1>3. Goto("commit", "end")
  BY <1>1 DEF PowerEvent, At
<1>4. /\ pc' \in [Actors -> Labels] /\ pc'["commit"] = "end"
      /\ \A b \in Actors \ {"commit"} : pc'[b] = pc[b]
  BY <1>3, GotoPc, LabelsListed, ActorsListed DEF IInv
<1>5. States' /\ Counts' /\ Masks'
  BY <1>1, <1>2, <1>3, QuietMasks, LabelsListed, ActorsListed
    DEF Changing
<1>6. CrtcType'
  BY <1>2, Types DEF IInv, CrtcType
<1>7. TypeOK'
  BY <1>2, <1>4, <1>6, Types, TypesKept, TypesNext DEF IInv, PcType
<1>8. Locks'
  BY <1>1, <1>2, <1>4, ActorsListed DEF IInv, Locks, Sections, At
<1>9. Fresh'
  BY <1>1, <1>2, <1>4, ActorsListed DEF IInv, Fresh, Locks, Sections, At
<1> QED BY <1>7, <1>8, <1>9, <1>5 DEF IInv

LEMMA CommitEndInv ==
  ASSUME IInv, CommitEnd
  PROVE  IInv'
<1>1. pc["commit"] = "end"
  BY DEF CommitEnd, At
<1>2. /\ refs' = (refs \ {"commit"}) \union (IF lit THEN {"display"} ELSE {})
      /\ UNCHANGED <<enabled, lit, mixers, power_event, node, state,
          callback, orphans, count, mask, pending, seen, irq_lock, power,
          torn, collided, crtc_lock, spin_lock, busy>>
  BY <1>1 DEF CommitEnd, At, crtc, event, irq, history
<1>3. Goto("commit", "idle")
  BY <1>1 DEF CommitEnd, At
<1>4. /\ pc' \in [Actors -> Labels] /\ pc'["commit"] = "idle"
      /\ \A b \in Actors \ {"commit"} : pc'[b] = pc[b]
  BY <1>3, GotoPc, LabelsListed, ActorsListed DEF IInv
<1>5. States' /\ Counts' /\ Masks'
  BY <1>1, <1>2, <1>3, QuietMasks, LabelsListed, ActorsListed
    DEF Changing
<1>6. RestType'
  BY <1>2, Types DEF IInv, RestType
<1>7. TypeOK'
  BY <1>2, <1>4, <1>6, Types, TypesKept, TypesNext DEF IInv, PcType
<1>8. Locks'
  BY <1>1, <1>2, <1>4, ActorsListed DEF IInv, Locks, Sections, At
<1>9. Fresh'
  BY <1>1, <1>2, <1>4, ActorsListed DEF IInv, Fresh, Locks, Sections, At
<1> QED BY <1>7, <1>8, <1>9, <1>5 DEF IInv

-----------------------------------------------------------------------------
(* The inductive invariant.                                                *)
LEMMA InitInv ==
  ASSUME Init
  PROVE  IInv
<1>1. /\ \A a \in Actors : pc[a] = "idle"
      /\ pc \in [Actors -> Labels] /\ seen \in [Masters -> SUBSET Bits]
  BY LabelsListed DEF Init, Actors
<1>2. TypeOK
  <2>1. CrtcType /\ LockType
    <3>1. irq_lock = "free" /\ crtc_lock = "free" /\ spin_lock = "free"
      BY DEF Init
    <3>2. LockType
      BY <3>1 DEF LockType
    <3>3. CrtcType
      BY DEF Init, CrtcType
    <3> QED BY <3>2, <3>3
  <2>2. EventType
    <3>1. node = "none" /\ state = "NOINIT" /\ callback = FALSE /\ orphans = 0
      BY DEF Init
    <3>2. orphans \in 0 .. MaxOrphans
      BY <3>1, OrphansAssumption
    <3> QED BY <3>1, <3>2 DEF EventType
  <2>3. IrqType
    BY <1>1 DEF Init, IrqType
  <2>4. RestType
    <3>1. busy \in 0 .. PoolSize
      BY PoolAssumption DEF Init
    <3>2. refs = {} /\ power = "off" /\ torn = FALSE /\ collided = FALSE
      BY DEF Init
    <3> QED BY <3>1, <3>2 DEF RestType
  <2> QED BY <1>1, <2>1, <2>2, <2>3, <2>4, Types DEF PcType
<1>3. Locks
  BY <1>1, ActorsListed DEF Init, Locks, Sections, At
<1>4. Fresh
  BY <1>1, ActorsListed DEF Init, Fresh
<1>5. States
  BY <1>1, ActorsListed DEF Init, States, At
<1>6. Counts
  BY <1>1, ActorsListed DEF Init, Counts, Owned
<1>7. Masks
  <2>1. count = 0 /\ mask = {}
    BY DEF Init
  <2>2. ~InFlight /\ pc["worker"] = "idle" /\ pc["peer"] = "idle"
    BY <1>1, ActorsListed DEF InFlight, At
  <2>3. \A a \in Threads : pc[a] = "idle"
    BY <1>1, ActorsListed
  <2>4. "hist" \in mask <=> count > 0
    BY <2>1
  <2> QED BY <2>2, <2>3, <2>4 DEF Masks, MaskPhases, PeerAgrees, At
<1> QED BY <1>2, <1>3, <1>4, <1>5, <1>6, <1>7 DEF IInv

LEMMA InterruptInv ==
  ASSUME NEW a \in Threads, IInv, Interrupt(a)
  PROVE  IInv'
BY RegisterInv, EnableInv, MaskOnInv, WriteOnInv, DisarmInv, MaskOffInv,
   WriteOffInv, UnregisterInv DEF Interrupt

LEMMA NextInv ==
  ASSUME IInv, [Next]_vars
  PROVE  IInv'
<1>1. CASE Worker
  BY <1>1, NotifyInv, NotifyWriteInv, ReadGetInv, ReadInv DEF Worker
<1>2. CASE Ioctl
  BY <1>2, InterruptInv, EnableGrantedInv, EnableDoneInv, EnableAddInv,
     DisableCheckInv, DisableGrantedInv, DisableDoneInv, DisableFailedInv,
     GetRefusedInv DEF Ioctl, Threads
<1>3. CASE Pm
  BY <1>3, InterruptInv, SwitchInv, PowerLockInv, PowerWalkInv,
     PowerWalkedInv, SwitchedInv DEF Pm, Threads
<1>4. CASE Commit
  BY <1>4, InterruptInv, FlipInv, CrtcDisableInv, TurnOnInv, DisableWalkInv,
     DisableWalkedInv, CrtcResetInv, ModesetInv, SetupMixersInv,
     ApplyNothingInv, ApplyHistIrqInv, AppliedHistIrqInv, CrtcEnableInv,
     EnableWalkInv, EnableWalkedInv, PowerEventInv, CommitEndInv
     DEF Commit, Threads
<1>5. CASE UNCHANGED vars
  <2>1. UNCHANGED <<enabled, lit, mixers, power_event, node, state, callback,
                    orphans, count, mask, pending, seen, irq_lock, refs,
                    power, torn, collided, crtc_lock, spin_lock, busy, pc>>
    BY <1>5 DEF vars, crtc, event, irq, supply, history
  <2>2. TypeOK'
    BY <2>1 DEF IInv, TypeOK
  <2>3. Locks' /\ Fresh'
    BY <2>1 DEF IInv, Locks, Fresh, At
  <2>4. States'
    BY <2>1 DEF IInv, States, At
  <2>5. Counts'
    BY <2>1 DEF IInv, Counts, Owned, At
  <2>6. Masks'
    BY <2>1 DEF IInv, Masks, MaskPhases, PeerAgrees, InFlight, At
  <2> QED BY <2>2, <2>3, <2>4, <2>5, <2>6 DEF IInv
<1> QED
  BY <1>1, <1>2, <1>3, <1>4, <1>5, FireInv, DeliverInv, FrameDoneInv,
     PeerReadInv, PeerWriteInv, EventEnableInv, EventDisableInv,
     DisplayIdleInv, CommitStartInv DEF Next

(* Every reachable state satisfies the inductive invariant.                *)
THEOREM Invariance == Spec => []IInv
<1>1. Init => IInv
  BY InitInv
<1>2. IInv /\ [Next]_vars => IInv'
  BY NextInv
<1> QED BY <1>1, <1>2, PTL DEF Spec

(* Every reachable state has the types of the code's, the count of the     *)
(* interrupt is a natural number whatever the order of arming and          *)
(* disarming, and the event pool never hands out more than it has.         *)
THEOREM TypeCorrect == Spec => []TypeOK
<1>1. IInv => TypeOK
  BY DEF IInv
<1> QED BY <1>1, Invariance, PTL

(* When nobody is between its change of the count and the mask's, the      *)
(* histogram interrupt is enabled in the register exactly while its count  *)
(* is not zero, unless the worker's update without irq_lock has met the    *)
(* peer's (sde_core_irq.c).                                                *)
THEOREM MaskFollowsCount == Spec => []MaskMatchesCount
<1>1. IInv => MaskMatchesCount
  BY DEF IInv, Masks, MaskPhases, MaskMatchesCount
<1> QED BY <1>1, Invariance, PTL

(* A counted interrupt has a callback, the event's own or a freed node's.  *)
LEMMA CountedCalled ==
  ASSUME IInv
  PROVE  count > 0 => callback \/ orphans > 0
<1>1. orphans \in Nat /\ count \in Nat
  <2>1. orphans \in 0 .. MaxOrphans
    BY Types DEF IInv, EventType
  <2>2. count \in Nat
    BY Types DEF IInv, IrqType
  <2> QED BY <2>1, <2>2, OrphansAssumption
<1>2. CASE orphans = 0
  <2>1. SUFFICES ASSUME count > 0
                 PROVE  callback
    BY <1>2
  <2>2. Owned
    BY <1>1, <1>2, <2>1 DEF IInv, Counts
  <2>3. CASE state = "ENABLED"
    BY <2>3 DEF IInv, States
  <2>4. CASE \E a \in Threads : pc[a] \in {"mask on", "write on", "mask off"}
    BY <2>4 DEF IInv, States
  <2> QED BY <2>2, <2>3, <2>4 DEF Owned
<1>3. CASE orphans # 0
  BY <1>1, <1>3
<1> QED BY <1>2, <1>3

(* No two threads are inside sde_cp_hist_interrupt for the event at once,  *)
(* although its callers hold different locks (crtc_lock, spin_lock, or     *)
(* none for a deregistration); nor is one while the worker disarms.        *)
OneInside ==
  /\ \A a, b \in Threads : pc[a] \in Sections /\ pc[b] \in Sections => a = b
  /\ At("worker", "write") => \A a \in Threads : pc[a] \notin Sections
THEOREM NeverTwoInside == Spec => []OneInside
<1>1. ASSUME IInv
      PROVE  OneInside
  <2>1. Locks
    BY <1>1 DEF IInv
  <2> QED BY <2>1, Alone DEF OneInside, At
<1> QED BY <1>1, Invariance, PTL

=============================================================================
