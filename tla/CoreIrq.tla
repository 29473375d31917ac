------------------------------ MODULE CoreIrq ------------------------------
(***************************************************************************)
(* The core interrupts (sde_core_irq.c, sde_hw_interrupts.c), with the     *)
(* user whose life is the hardest: the histogram interrupt of a CRTC       *)
(* (sde_color_processing.c).  User space registers and deregisters the     *)
(* event, modesets and the power handle disarm and arm it, the interrupt   *)
(* queues an event that a worker takes, the worker disarms it, and the     *)
(* next commit arms it again.                                              *)
(*                                                                         *)
(* The worker disarms with sde_core_irq_disable_nolock, that is, it reads  *)
(* and writes the shared mask without irq_lock.  "peer" is the histogram   *)
(* of another CRTC in the same register, switched under irq_lock.          *)
(*                                                                         *)
(* External: the interrupt lines, runtime PM (a reference is granted when  *)
(* the power is on), and when commits and ioctls come.                     *)
(***************************************************************************)
EXTENDS Integers

CONSTANTS
  PoolSize,     \* events of a CRTC (SDE_CRTC_MAX_EVENT_COUNT)
  MaxOrphans    \* bound: registrations are refused after so many leaks

ASSUME PoolAssumption == PoolSize \in Nat \ {0}
ASSUME OrphansAssumption == MaxOrphans \in Nat

Threads == {"ioctl", "commit", "pm"}          \* they run sde_cp_hist_interrupt
Masters == Threads \union {"worker", "peer"}  \* they write the mask
Bits == {"hist", "peer"}

VARIABLES
  enabled,      \* crtc_drm->enabled
  lit,          \* sde_crtc->enabled
  mixers,       \* num_mixers # 0
  power_event,  \* the CRTC listens to power events
  node,         \* the event: "none", "listed", "held" by the ioctl
  state,        \* node->state
  callback,     \* node->irq is in irq_cb_tbl
  orphans,      \* callbacks in irq_cb_tbl whose node has been freed
  count,        \* enable_counts
  mask,         \* cache_irq_mask and the enable register, written together
  pending,      \* the status bit of the histogram
  irq_lock, crtc_lock, spin_lock,   \* who holds them, or "free"
  pc,           \* where each actor is
  seen,         \* the mask each actor has read and will write back
  busy,         \* events out of event_free_list
  refs,         \* who has a power reference
  power,        \* "on", "suspending", "off", "resuming"
  torn,         \* history: a (de)registration has overlapped a modeset
  collided      \* history: two mask updates have overlapped

crtc == <<enabled, lit, mixers, power_event>>
event == <<node, state, callback, orphans>>
irq == <<count, mask, pending, seen, irq_lock>>
supply == <<refs, power>>
history == <<torn, collided>>
vars == <<crtc, event, irq, supply, history, crtc_lock, spin_lock, pc, busy>>

Init ==
  /\ enabled = FALSE /\ lit = FALSE /\ mixers = FALSE /\ power_event = FALSE
  /\ node = "none" /\ state = "NOINIT" /\ callback = FALSE /\ orphans = 0
  /\ count = 0 /\ mask = {} /\ pending = FALSE
  /\ irq_lock = "free" /\ crtc_lock = "free" /\ spin_lock = "free"
  /\ pc = [a \in Masters \union {"isr"} |-> "idle"]
  /\ seen = [a \in Masters |-> {}]
  /\ busy = 0 /\ refs = {} /\ power = "off"
  /\ torn = FALSE /\ collided = FALSE

Goto(a, label) == pc' = [pc EXCEPT ![a] = label]
At(a, label) == pc[a] = label

-----------------------------------------------------------------------------
(* The interrupt registers.  A mask update reads the mask and writes it    *)
(* later: under irq_lock, except in the worker.                            *)
ReadMask(a) == seen' = [seen EXCEPT ![a] = mask]
WriteMask(a, m) ==
  /\ mask' = m
  /\ seen' = [seen EXCEPT ![a] = {}]
Unlocked(a) == IF irq_lock = a THEN "free" ELSE irq_lock

(* sde_cp_hist_interrupt(en = true): the callback first, then the count    *)
(* and, for the first user, the mask.                                      *)
Register(a) ==
  /\ At(a, "register")
  /\ callback' = (callback \/ mixers)
  /\ Goto(a, IF mixers THEN "enable" ELSE "failed")
  /\ UNCHANGED <<crtc, node, state, orphans, irq, supply, history, crtc_lock,
                 spin_lock, busy>>

(* atomic_inc_return, without irq_lock.                                    *)
Enable(a) ==
  /\ At(a, "enable")
  /\ IF state \in {"NOINIT", "DISABLED"}
     THEN /\ count' = count + 1
          /\ state' = IF count = 0 THEN state ELSE "ENABLED"
          /\ Goto(a, IF count = 0 THEN "mask on" ELSE "done")
     ELSE Goto(a, "done") /\ UNCHANGED <<count, state>>
  /\ UNCHANGED <<crtc, node, callback, orphans, mask, pending, seen,
                 irq_lock, supply, history, crtc_lock, spin_lock, busy>>

(* Mutant of MaskOn: the mask is read without irq_lock.                    *)
MaskOnUnlocked(a) ==
  /\ At(a, "mask on")
  /\ IF "hist" \in mask
     THEN state' = "ENABLED" /\ Goto(a, "done") /\ UNCHANGED seen
     ELSE ReadMask(a) /\ Goto(a, "write on") /\ UNCHANGED state
  /\ UNCHANGED <<crtc, node, callback, orphans, count, mask, pending,
                 irq_lock, supply, history, crtc_lock, spin_lock, busy>>
MaskOn(a) ==
  /\ At(a, "mask on") /\ irq_lock = "free"
  /\ IF "hist" \in mask
     THEN state' = "ENABLED" /\ Goto(a, "done") /\ UNCHANGED <<seen, irq_lock>>
     ELSE /\ irq_lock' = a /\ ReadMask(a)
          /\ Goto(a, "write on") /\ UNCHANGED state
  /\ UNCHANGED <<crtc, node, callback, orphans, count, mask, pending,
                 supply, history, crtc_lock, spin_lock, busy>>

(* Mutant of WriteOn: the mask is written as it was read.                  *)
WriteOnAsRead(a) ==
  /\ At(a, "write on")
  /\ WriteMask(a, seen[a])
  /\ pending' = FALSE /\ irq_lock' = Unlocked(a)
  /\ state' = "ENABLED" /\ Goto(a, "done")
  /\ UNCHANGED <<crtc, node, callback, orphans, count, supply, history,
                 crtc_lock, spin_lock, busy>>
WriteOn(a) ==
  /\ At(a, "write on")
  /\ WriteMask(a, seen[a] \union {"hist"})
  /\ pending' = FALSE /\ irq_lock' = Unlocked(a)
  /\ state' = "ENABLED" /\ Goto(a, "done")
  /\ UNCHANGED <<crtc, node, callback, orphans, count, supply, history,
                 crtc_lock, spin_lock, busy>>

(* sde_cp_hist_interrupt(en = false).                                      *)
(* Mutant of Disarm: the callback goes before the count falls.             *)
DisarmUnregisters(a) ==
  /\ At(a, "disarm") /\ mixers
  /\ state' = CASE state = "ENABLED" -> "DISABLING"
                [] state = "DISABLED" -> "NOINIT"
                [] OTHER -> state
  /\ callback' = FALSE
  /\ Goto(a, IF state = "ENABLED" THEN "mask off" ELSE "unregister")
  /\ UNCHANGED <<crtc, node, orphans, irq, supply, history, crtc_lock,
                 spin_lock, busy>>
(* Mutant of Disarm: it returns early when the worker has disarmed.        *)
DisarmReturnsEarly(a) ==
  /\ At(a, "disarm")
  /\ IF ~mixers
     THEN Goto(a, "failed") /\ UNCHANGED state
     ELSE /\ state' = CASE state = "ENABLED" -> "DISABLING"
                        [] state = "DISABLED" -> "NOINIT"
                        [] OTHER -> state
          /\ Goto(a, CASE state = "ENABLED" -> "mask off"
                       [] state = "DISABLED" -> "done"
                       [] OTHER -> "unregister")
  /\ UNCHANGED <<crtc, node, callback, orphans, irq, supply, history,
                 crtc_lock, spin_lock, busy>>
Disarm(a) ==
  /\ At(a, "disarm")
  /\ IF ~mixers
     THEN Goto(a, "failed") /\ UNCHANGED state
     ELSE /\ state' = CASE state = "ENABLED" -> "DISABLING"
                        [] state = "DISABLED" -> "NOINIT"
                        [] OTHER -> state
          /\ Goto(a, IF state = "ENABLED" THEN "mask off" ELSE "unregister")
  /\ UNCHANGED <<crtc, node, callback, orphans, irq, supply, history,
                 crtc_lock, spin_lock, busy>>

(* The count falls under irq_lock and never below zero.                    *)
MaskOff(a) ==
  /\ At(a, "mask off") /\ irq_lock = "free"
  /\ count' = IF count = 0 THEN 0 ELSE count - 1
  /\ IF count = 1 /\ "hist" \in mask
     THEN /\ irq_lock' = a /\ ReadMask(a)
          /\ Goto(a, "write off") /\ UNCHANGED state
     ELSE /\ state' = "NOINIT"
          /\ Goto(a, "unregister") /\ UNCHANGED <<seen, irq_lock>>
  /\ UNCHANGED <<crtc, node, callback, orphans, mask, pending, supply,
                 history, crtc_lock, spin_lock, busy>>

WriteOff(a) ==
  /\ At(a, "write off")
  /\ WriteMask(a, seen[a] \ {"hist"})
  /\ pending' = FALSE /\ irq_lock' = Unlocked(a)
  /\ state' = "NOINIT" /\ Goto(a, "unregister")
  /\ UNCHANGED <<crtc, node, callback, orphans, count, supply, history,
                 crtc_lock, spin_lock, busy>>

Unregister(a) ==
  /\ At(a, "unregister")
  /\ callback' = FALSE /\ Goto(a, "done")
  /\ UNCHANGED <<crtc, node, state, orphans, irq, supply, history, crtc_lock,
                 spin_lock, busy>>

Interrupt(a) ==
  \/ Register(a) \/ Enable(a) \/ MaskOn(a) \/ WriteOn(a)
  \/ Disarm(a) \/ MaskOff(a) \/ WriteOff(a) \/ Unregister(a)
Returned(a) == At(a, "done") \/ At(a, "failed")

-----------------------------------------------------------------------------
(* The interrupt handler: it reads status and mask and clears the status   *)
(* under irq_lock, and calls back with the lock held.  A freed node's      *)
(* callback may do anything it did before, or nothing.                     *)
Fire ==
  /\ At("isr", "idle") /\ irq_lock = "free"
  /\ pending /\ "hist" \in mask
  /\ pending' = FALSE /\ irq_lock' = "isr"
  /\ Goto("isr", "deliver")
  /\ UNCHANGED <<crtc, event, count, mask, seen, supply, history,
                 crtc_lock, spin_lock, busy>>

(* _sde_cp_hist_interrupt_cb: it ignores that the pool may be empty.       *)
(* Mutant of Queued: an event is taken from an empty pool.                 *)
QueuedAlways(n) == busy + n
Queued(n) == IF busy + n < PoolSize THEN busy + n ELSE PoolSize
Deliver ==
  /\ At("isr", "deliver")
  /\ \E n \in 0 .. orphans : busy' = Queued(n + IF callback THEN 1 ELSE 0)
  /\ irq_lock' = Unlocked("isr") /\ Goto("isr", "idle")
  /\ UNCHANGED <<crtc, event, count, mask, pending, seen, supply,
                 history, crtc_lock, spin_lock>>

(* A frame of the lit display ends.  A status bit that is masked is never  *)
(* seen: arming clears it first.                                           *)
FrameDone ==
  /\ power = "on" /\ "display" \in refs /\ "hist" \in mask /\ ~pending
  /\ pending' = TRUE
  /\ UNCHANGED <<crtc, event, count, mask, seen, irq_lock, supply,
                 history, crtc_lock, spin_lock, pc, busy>>

(* The other CRTC's interrupt in the same register, under irq_lock.        *)
PeerRead ==
  /\ At("peer", "idle") /\ irq_lock = "free"
  /\ irq_lock' = "peer" /\ ReadMask("peer") /\ Goto("peer", "write")
  /\ collided' = (collided \/ At("worker", "write"))
  /\ UNCHANGED <<crtc, event, count, mask, pending, supply, torn,
                 crtc_lock, spin_lock, busy>>

PeerWrite ==
  /\ At("peer", "write")
  /\ WriteMask("peer", IF "peer" \in seen["peer"]
                       THEN seen["peer"] \ {"peer"}
                       ELSE seen["peer"] \union {"peer"})
  /\ irq_lock' = Unlocked("peer") /\ Goto("peer", "idle")
  /\ UNCHANGED <<crtc, event, count, pending, supply, history, crtc_lock,
                 spin_lock, busy>>

-----------------------------------------------------------------------------
(* _sde_cp_notify_hist_event on the pp_event worker.  spin_lock is held    *)
(* from the lookup of the node to the change of its state.                 *)
Notify ==
  /\ At("worker", "idle") /\ busy > 0 /\ spin_lock = "free"
  /\ IF node = "listed" /\ state = "ENABLED"
     THEN /\ count' = count - 1
          /\ IF count = 1 /\ "hist" \in mask
             THEN /\ ReadMask("worker") /\ spin_lock' = "worker"
                  /\ Goto("worker", "write")
                  /\ collided' = (collided \/ At("peer", "write"))
                  /\ UNCHANGED state
             ELSE /\ state' = "DISABLED" /\ Goto("worker", "read")
                  /\ UNCHANGED <<seen, spin_lock, collided>>
     ELSE /\ Goto("worker", "read")
          /\ UNCHANGED <<count, state, seen, spin_lock, collided>>
  /\ UNCHANGED <<crtc, node, callback, orphans, mask, pending, irq_lock,
                 supply, torn, crtc_lock, busy>>

NotifyWrite ==
  /\ At("worker", "write")
  /\ WriteMask("worker", seen["worker"] \ {"hist"}) /\ pending' = FALSE
  /\ state' = "DISABLED" /\ spin_lock' = "free" /\ Goto("worker", "read")
  /\ UNCHANGED <<crtc, node, callback, orphans, count, irq_lock, supply,
                 history, crtc_lock, busy>>

(* The histogram is read, or only unlocked, with the power on.             *)
ReadGet ==
  /\ At("worker", "read")
  /\ refs' = refs \union {"worker"} /\ Goto("worker", "get")
  /\ UNCHANGED <<crtc, event, irq, power, history, crtc_lock, spin_lock, busy>>

(* Granted, or refused while the power is off; the event is free again.    *)
Read ==
  /\ At("worker", "get") /\ power \in {"on", "off"}
  /\ refs' = refs \ {"worker"} /\ busy' = busy - 1 /\ Goto("worker", "idle")
  /\ UNCHANGED <<crtc, event, irq, power, history, crtc_lock, spin_lock>>

Worker == Notify \/ NotifyWrite \/ ReadGet \/ Read

-----------------------------------------------------------------------------
(* _sde_crtc_event_enable, called with the VM lock held.                   *)
EventEnable ==
  /\ At("ioctl", "idle") /\ spin_lock = "free" /\ node = "none"
  /\ orphans < MaxOrphans
  /\ node' = "held" /\ state' = "NOINIT"
  /\ Goto("ioctl", IF enabled THEN "en get" ELSE "en add")
  /\ refs' = IF enabled THEN refs \union {"ioctl"} ELSE refs
  /\ UNCHANGED <<crtc, callback, orphans, irq, power, history, crtc_lock,
                 spin_lock, busy>>

EnableGranted ==
  /\ At("ioctl", "en get") /\ power = "on" /\ crtc_lock = "free"
  /\ crtc_lock' = "ioctl" /\ Goto("ioctl", "register")
  /\ UNCHANGED <<crtc, event, irq, supply, history, spin_lock, busy>>

(* The event joins the list in the critical section that has armed it, or  *)
(* is freed.                                                               *)
EnableDone ==
  /\ crtc_lock = "ioctl" /\ Returned("ioctl") /\ spin_lock = "free"
  /\ node' = IF At("ioctl", "done") THEN "listed" ELSE "none"
  /\ crtc_lock' = "free" /\ refs' = refs \ {"ioctl"}
  /\ Goto("ioctl", "idle")
  /\ UNCHANGED <<crtc, state, callback, orphans, irq, power, history,
                 spin_lock, busy>>

(* The CRTC was off: only the list.                                        *)
EnableAdd ==
  /\ At("ioctl", "en add") /\ spin_lock = "free"
  /\ node' = "listed" /\ Goto("ioctl", "idle")
  /\ UNCHANGED <<crtc, state, callback, orphans, irq, supply, history,
                 crtc_lock, spin_lock, busy>>

(* _sde_crtc_event_disable: off the list first; the rest without a lock.   *)
EventDisable ==
  /\ At("ioctl", "idle") /\ spin_lock = "free" /\ node = "listed"
  /\ node' = "held" /\ Goto("ioctl", "de check")
  /\ UNCHANGED <<crtc, state, callback, orphans, irq, supply, history,
                 crtc_lock, spin_lock, busy>>

(* kfree(node), with its callback in the table or not.                     *)
Free ==
  /\ node' = "none" /\ state' = "NOINIT" /\ callback' = FALSE
  /\ orphans' = orphans + IF callback THEN 1 ELSE 0

DisableCheck ==
  /\ At("ioctl", "de check")
  /\ IF enabled
     THEN /\ refs' = refs \union {"ioctl"} /\ Goto("ioctl", "de get")
          /\ UNCHANGED event
     ELSE Free /\ Goto("ioctl", "idle") /\ UNCHANGED refs
  /\ UNCHANGED <<crtc, irq, power, history, crtc_lock, spin_lock, busy>>

DisableGranted ==
  /\ At("ioctl", "de get") /\ power = "on"
  /\ Goto("ioctl", "disarm")
  /\ UNCHANGED <<crtc, event, irq, supply, history, crtc_lock, spin_lock, busy>>

DisableDone ==
  /\ crtc_lock # "ioctl" /\ At("ioctl", "done")
  /\ Free /\ refs' = refs \ {"ioctl"} /\ Goto("ioctl", "idle")
  /\ UNCHANGED <<crtc, irq, power, history, crtc_lock, spin_lock, busy>>

(* sde_cp_hist_interrupt has returned an error: back on the list.          *)
DisableFailed ==
  /\ crtc_lock # "ioctl" /\ At("ioctl", "failed") /\ spin_lock = "free"
  /\ node' = "listed" /\ refs' = refs \ {"ioctl"} /\ Goto("ioctl", "idle")
  /\ UNCHANGED <<crtc, state, callback, orphans, irq, power, history,
                 crtc_lock, spin_lock, busy>>

(* The reference is refused: both calls free the node as it is.            *)
GetRefused ==
  /\ At("ioctl", "en get") \/ At("ioctl", "de get")
  /\ power = "off"
  /\ Free /\ refs' = refs \ {"ioctl"} /\ Goto("ioctl", "idle")
  /\ torn' = (torn \/ callback)
  /\ UNCHANGED <<crtc, irq, power, collided, crtc_lock, spin_lock, busy>>

Ioctl ==
  \/ Interrupt("ioctl") \/ EnableGranted \/ EnableDone \/ EnableAdd
  \/ DisableCheck \/ DisableGranted \/ DisableDone \/ DisableFailed
  \/ GetRefused

-----------------------------------------------------------------------------
(* Runtime PM: the power event of the CRTC before the power goes and after *)
(* it has come.                                                            *)
Switch ==
  /\ At("pm", "idle")
  /\ \/ power = "on" /\ refs = {} /\ power' = "suspending"
     \/ power = "off" /\ refs # {} /\ power' = "resuming"
  /\ Goto("pm", IF power_event THEN "lock" ELSE "end")
  /\ UNCHANGED <<crtc, event, irq, refs, history, crtc_lock, spin_lock, busy>>

PowerLock ==
  /\ At("pm", "lock") /\ crtc_lock = "free"
  /\ crtc_lock' = "pm" /\ Goto("pm", "walk")
  /\ UNCHANGED <<crtc, event, irq, supply, history, spin_lock, busy>>

PowerWalk ==
  /\ At("pm", "walk") /\ spin_lock = "free"
  /\ IF node = "listed"
     THEN /\ spin_lock' = "pm"
          /\ Goto("pm", IF power = "suspending" THEN "disarm" ELSE "register")
     ELSE UNCHANGED spin_lock /\ Goto("pm", "end")
  /\ UNCHANGED <<crtc, event, irq, supply, history, crtc_lock, busy>>

PowerWalked ==
  /\ Returned("pm") /\ spin_lock' = "free" /\ Goto("pm", "end")
  /\ UNCHANGED <<crtc, event, irq, supply, history, crtc_lock, busy>>

Switched ==
  /\ At("pm", "end")
  /\ power' = IF power = "suspending" THEN "off" ELSE "on"
  /\ pending' = (pending /\ power = "resuming")
  /\ crtc_lock' = IF crtc_lock = "pm" THEN "free" ELSE crtc_lock
  /\ Goto("pm", "idle")
  /\ UNCHANGED <<crtc, event, count, mask, seen, irq_lock, refs,
                 history, spin_lock, busy>>

Pm == Switch \/ PowerLock \/ PowerWalk \/ PowerWalked \/ Switched
      \/ Interrupt("pm")

(* The encoder drops its reference when the display is idle.               *)
DisplayIdle ==
  /\ "display" \in refs /\ At("commit", "idle")
  /\ refs' = refs \ {"display"}
  /\ UNCHANGED <<crtc, event, irq, power, history, crtc_lock, spin_lock, pc,
                 busy>>

-----------------------------------------------------------------------------
(* The commit thread holds a power reference throughout.                   *)
CommitStart ==
  /\ At("commit", "idle")
  /\ refs' = refs \union {"commit"} /\ Goto("commit", "get")
  /\ UNCHANGED <<crtc, event, irq, power, history, crtc_lock, spin_lock, busy>>

(* A flip; or sde_crtc_disable, after the encoder has been turned off; or  *)
(* the CRTC is turned on, crtc->enabled first.                             *)
Flip ==
  /\ At("commit", "get") /\ power = "on" /\ lit
  /\ Goto("commit", "apply")
  /\ UNCHANGED <<crtc, event, irq, supply, history, crtc_lock, spin_lock, busy>>

CrtcDisable ==
  /\ At("commit", "get") /\ power = "on" /\ lit /\ crtc_lock = "free"
  /\ crtc_lock' = "commit" /\ lit' = FALSE
  /\ refs' = refs \ {"display"} /\ Goto("commit", "walk off")
  /\ UNCHANGED <<enabled, mixers, power_event, event, irq, power, history,
                 spin_lock, busy>>

TurnOn ==
  /\ At("commit", "get") /\ power = "on" /\ ~lit
  /\ enabled' = TRUE /\ Goto("commit", "mixers")
  /\ UNCHANGED <<lit, mixers, power_event, event, irq, supply, history,
                 crtc_lock, spin_lock, busy>>

(* The event is disarmed if it is in the list; a deregistration that has   *)
(* taken it off and not looked at the CRTC yet is overtaken.               *)
DisableWalk ==
  /\ At("commit", "walk off") /\ spin_lock = "free"
  /\ torn' = (torn \/ pc["ioctl"] \in {"de check", "de get", "disarm"})
  /\ IF node = "listed"
     THEN spin_lock' = "commit" /\ Goto("commit", "disarm")
     ELSE UNCHANGED spin_lock /\ Goto("commit", "reset")
  /\ UNCHANGED <<crtc, event, irq, supply, collided, crtc_lock, busy>>

DisableWalked ==
  /\ crtc_lock = "commit" /\ Returned("commit")
  /\ spin_lock' = "free" /\ Goto("commit", "reset")
  /\ UNCHANGED <<crtc, event, irq, supply, history, crtc_lock, busy>>

CrtcReset ==
  /\ At("commit", "reset")
  /\ power_event' = FALSE /\ mixers' = FALSE
  /\ crtc_lock' = "free" /\ Goto("commit", "modeset")
  /\ UNCHANGED <<enabled, lit, event, irq, supply, history, spin_lock, busy>>

(* The CRTC stays disabled, or only inactive, or is enabled in a new mode. *)
(* (A later commit that only disables an inactive CRTC is left out.)       *)
Modeset ==
  /\ At("commit", "modeset")
  /\ \/ enabled' = FALSE /\ Goto("commit", "end")
     \/ UNCHANGED enabled /\ Goto("commit", "end")
     \/ UNCHANGED enabled /\ Goto("commit", "mixers")
  /\ UNCHANGED <<lit, mixers, power_event, event, irq, supply, history,
                 crtc_lock, spin_lock, busy>>

SetupMixers ==
  /\ At("commit", "mixers") /\ crtc_lock = "free"
  /\ mixers' = TRUE /\ Goto("commit", "apply")
  /\ UNCHANGED <<enabled, lit, power_event, event, irq, supply, history,
                 crtc_lock, spin_lock, busy>>

(* The color properties; with the histogram's among them the interrupt is  *)
(* armed again if the worker has disarmed it.                              *)
Applied == IF lit THEN "end" ELSE "enable crtc"
ApplyNothing ==
  /\ At("commit", "apply") /\ Goto("commit", Applied)
  /\ UNCHANGED <<crtc, event, irq, supply, history, crtc_lock, spin_lock, busy>>

ApplyHistIrq ==
  /\ At("commit", "apply") /\ spin_lock = "free"
  /\ node = "listed" /\ state = "DISABLED"
  /\ spin_lock' = "commit" /\ Goto("commit", "enable")
  /\ UNCHANGED <<crtc, event, irq, supply, history, crtc_lock, busy>>

AppliedHistIrq ==
  /\ At("commit", "done") /\ crtc_lock # "commit" /\ (lit => power_event)
  /\ spin_lock' = "free" /\ Goto("commit", Applied)
  /\ UNCHANGED <<crtc, event, irq, supply, history, crtc_lock, busy>>

CrtcEnable ==
  /\ At("commit", "enable crtc") /\ crtc_lock = "free"
  /\ lit' = TRUE /\ Goto("commit", "walk on")
  /\ UNCHANGED <<enabled, mixers, power_event, event, irq, supply, history,
                 crtc_lock, spin_lock, busy>>

(* The event is armed if it is in the list; a call that has found the CRTC *)
(* off and will list it unarmed is overtaken.                              *)
EnableWalk ==
  /\ At("commit", "walk on") /\ spin_lock = "free"
  /\ torn' = (torn \/ At("ioctl", "en add")
              \/ (At("ioctl", "failed") /\ crtc_lock # "ioctl"))
  /\ IF node = "listed"
     THEN spin_lock' = "commit" /\ Goto("commit", "register")
     ELSE UNCHANGED spin_lock /\ Goto("commit", "power event")
  /\ UNCHANGED <<crtc, event, irq, supply, collided, crtc_lock, busy>>

EnableWalked ==
  /\ Returned("commit") /\ lit /\ ~power_event
  /\ spin_lock' = "free" /\ Goto("commit", "power event")
  /\ UNCHANGED <<crtc, event, irq, supply, history, crtc_lock, busy>>

PowerEvent ==
  /\ At("commit", "power event")
  /\ power_event' = TRUE /\ Goto("commit", "end")
  /\ UNCHANGED <<enabled, lit, mixers, event, irq, supply, history, crtc_lock,
                 spin_lock, busy>>

CommitEnd ==
  /\ At("commit", "end")
  /\ refs' = (refs \ {"commit"}) \union (IF lit THEN {"display"} ELSE {})
  /\ Goto("commit", "idle")
  /\ UNCHANGED <<crtc, event, irq, power, history, crtc_lock, spin_lock, busy>>

Commit ==
  \/ Flip \/ CrtcDisable \/ TurnOn \/ DisableWalk \/ DisableWalked \/ CrtcReset
  \/ Modeset \/ SetupMixers \/ ApplyNothing \/ ApplyHistIrq \/ AppliedHistIrq
  \/ CrtcEnable \/ EnableWalk \/ EnableWalked \/ PowerEvent \/ CommitEnd
  \/ Interrupt("commit")

-----------------------------------------------------------------------------
Next ==
  \/ Fire \/ Deliver \/ FrameDone \/ PeerRead \/ PeerWrite
  \/ Worker \/ EventEnable \/ EventDisable \/ Ioctl
  \/ Pm \/ DisplayIdle \/ CommitStart \/ Commit

(* Threads that can run do; an interrupt is taken although others use      *)
(* irq_lock, whose waiters queue; and a display that is lit again and      *)
(* again, as every kickoff lights it, ends a frame.                        *)
Fairness ==
  /\ SF_vars(FrameDone) /\ SF_vars(Fire) /\ WF_vars(Deliver)
  /\ WF_vars(PeerWrite)
  /\ WF_vars(Worker) /\ WF_vars(Pm) /\ WF_vars(Commit)

Spec == Init /\ [][Next]_vars /\ Fairness

-----------------------------------------------------------------------------
Labels == {"idle", "register", "enable", "mask on", "write on", "disarm",
  "mask off", "write off", "unregister", "done", "failed", "deliver", "write",
  "read", "get", "en get", "en add", "de check", "de get", "lock", "walk",
  "end", "apply", "walk off", "walk on", "reset", "modeset", "mixers",
  "enable crtc", "power event"}

(* The state has the types of the code's, the counts in their bounds.      *)
TypeOK ==
  /\ enabled \in BOOLEAN /\ lit \in BOOLEAN /\ mixers \in BOOLEAN
  /\ power_event \in BOOLEAN
  /\ node \in {"none", "listed", "held"}
  /\ state \in {"NOINIT", "ENABLED", "DISABLING", "DISABLED"}
  /\ callback \in BOOLEAN /\ orphans \in 0 .. MaxOrphans /\ count \in Nat
  /\ mask \subseteq Bits /\ pending \in BOOLEAN
  /\ irq_lock \in Threads \union {"isr", "peer", "free"}
  /\ crtc_lock \in Threads \union {"free"}
  /\ spin_lock \in {"commit", "pm", "worker", "free"}
  /\ pc \in [Masters \union {"isr"} -> Labels]
  /\ seen \in [Masters -> SUBSET Bits]
  /\ busy \in 0 .. PoolSize
  /\ refs \subseteq {"display", "commit", "ioctl", "worker"}
  /\ power \in {"on", "suspending", "off", "resuming"}
  /\ torn \in BOOLEAN /\ collided \in BOOLEAN

(* An actor is between its change of the count and the mask's.             *)
InFlight ==
  \/ \E a \in Threads : pc[a] \in {"mask on", "write on", "write off"}
  \/ At("worker", "write")

(* The interrupt is enabled exactly while its count is not zero ("Inter-   *)
(* rupts is disabled if count is 0 after decrement", sde_core_irq.h:91),   *)
(* unless the worker's update without irq_lock has met the peer's.         *)
MaskMatchesCount ==
  ~collided /\ ~InFlight => ("hist" \in mask <=> count > 0)

(* An enabled interrupt has the callback of its user: "If the enable count *)
(* is nonzero and callback list is empty, then its a real issue"           *)
(* (sde_core_irq.c:49).  Only a deregistration that has overlapped a       *)
(* modeset or been refused the power may leave a freed node's behind.      *)
NoSilentIrq == count > 0 => callback \/ (torn /\ orphans > 0)

(* Between commits and power switches a listed event is armed, or          *)
(* disarmed by its own worker, when the CRTC is lit and powered, and       *)
(* disarmed otherwise; a deregistered one leaves nothing behind.  Unless a *)
(* call has overlapped a modeset in the ways torn names.                   *)
FollowsCrtc ==
  ~torn /\ At("commit", "idle") /\ At("pm", "idle") =>
    /\ node = "listed" =>
         IF lit /\ power = "on"
         THEN callback /\ state \in {"ENABLED", "DISABLED"}
         ELSE ~callback /\ state = "NOINIT" /\ count = 0
    /\ node = "none" => ~callback /\ count = 0 /\ orphans = 0

(* An armed event of a lit display is reported or disarmed.                *)
Armed == node = "listed" /\ state = "ENABLED" /\ lit
HistReported == Armed ~> ~Armed \/ collided
=============================================================================
