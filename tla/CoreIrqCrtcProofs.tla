-------------------------- MODULE CoreIrqCrtcProofs -------------------------
(***************************************************************************)
(* Proof that the histogram interrupt follows its CRTC (CoreIrq.tla).      *)
(*                                                                         *)
(* The argument: the commit, runtime PM and the ioctl each say by where    *)
(* they are what they have done so far (Phases): the commit to the CRTC,   *)
(* runtime PM to the power, the ioctl to the event.  A walk over the list  *)
(* arms or disarms the event while the others are kept out, by crtc_lock,  *)
(* a power reference or the event being in hand, so the event stays as the *)
(* last walk has left it until the next (Settled).  The steps of the       *)
(* interrupt itself are summed up first (ArmStep, DisarmStep); then one    *)
(* lemma for each action says that it keeps FInv.  With the counts of      *)
(* CoreIrqProofs it follows too whose callback serves a counted interrupt. *)
(***************************************************************************)
EXTENDS CoreIrqProofs

CommitAt == pc["commit"]
PmAt == pc["pm"]
IoctlAt == pc["ioctl"]
ArmSteps == {"register", "enable", "mask on", "write on"}
DisarmSteps == {"disarm", "mask off", "write off", "unregister"}

(* Where the commit is says what it has done to the CRTC.                  *)
CommitLabels ==
  {"idle", "get", "end", "apply", "walk off", "reset", "modeset", "mixers",
   "enable crtc", "walk on", "power event", "done"}
    \union ArmSteps \union DisarmSteps
CommitPhase ==
  /\ CommitAt \in CommitLabels
  /\ CommitAt \in {"idle", "get", "end"} =>
       (lit <=> power_event) /\ (lit <=> mixers)
  /\ CommitAt = "apply" => mixers /\ (lit <=> power_event)
  /\ CommitAt \in {"walk off"} \union DisarmSteps =>
       ~lit /\ mixers /\ power_event /\ crtc_lock = "commit"
  /\ CommitAt = "reset" => ~lit /\ crtc_lock = "commit"
  /\ CommitAt \in {"modeset", "mixers"} => ~lit /\ ~mixers /\ ~power_event
  /\ CommitAt = "enable crtc" => ~lit /\ mixers /\ ~power_event
  /\ CommitAt \in {"walk on", "power event"} => lit /\ mixers /\ ~power_event
  /\ CommitAt = "register" => lit /\ ~power_event
  /\ CommitAt \in ArmSteps \union {"done"} => mixers
  /\ CommitAt \in ArmSteps \/ (CommitAt = "done" /\ crtc_lock # "commit") =>
       (power_event => lit)
  /\ crtc_lock = "commit" =>
       ~lit /\ CommitAt \in {"walk off", "reset", "done"} \union DisarmSteps
  /\ lit => enabled
  /\ ~enabled => CommitAt \in {"idle", "get", "end"}
  /\ CommitAt # "idle" => "commit" \in refs
  /\ CommitAt \notin {"idle", "get"} => power = "on"

(* Where runtime PM is says which way the power goes.                      *)
PmPhase ==
  /\ PmAt \in {"idle", "lock", "walk", "end", "done"}
                \union ArmSteps \union DisarmSteps
  /\ PmAt = "idle" <=> power \in {"on", "off"}
  /\ PmAt \notin {"idle", "end"} => power_event
  /\ PmAt \in ArmSteps => power = "resuming"
  /\ PmAt \in DisarmSteps => power = "suspending"

(* What the ioctl holds, and that a registration has found its mixers.     *)
IoctlPhase ==
  /\ IoctlAt \in {"idle", "en get", "en add", "de check", "de get"}
                   \union Sections
  /\ IoctlAt \in Sections => power = "on"
  /\ IoctlAt \in Sections \union {"en get", "de get"} => "ioctl" \in refs
  /\ IoctlAt \in ArmSteps => crtc_lock = "ioctl"
  /\ crtc_lock = "ioctl" => IoctlAt \in ArmSteps \union {"done", "failed"}
  /\ crtc_lock = "ioctl" /\ IoctlAt \notin {"register", "failed"} => mixers
Phases == CommitPhase /\ PmPhase /\ IoctlPhase

(* The event without and with its interrupt.                               *)
Off == ~callback /\ state = "NOINIT"
On == callback /\ state \in {"ENABLED", "DISABLED"}
Down ==
  \/ CommitAt \in {"reset", "modeset", "mixers"}
  \/ CommitAt \in {"idle", "get", "end"} /\ ~lit

NothingLeft ==
  /\ orphans = 0
  /\ node = "none" => ~callback
(* The end of a walk over the list.                                        *)
Walked ==
  /\ CommitAt = "done" => IF crtc_lock = "commit" THEN Off ELSE On
  /\ PmAt = "done" => IF power = "suspending" THEN Off ELSE On
(* A listed event is as the CRTC and its power are.                        *)
Listed ==
  node = "listed" =>
    /\ Down => Off
    /\ CommitAt = "power event" => On
    /\ lit /\ power_event =>
         /\ power = "on" => On
         /\ power = "off" => Off
         /\ power = "suspending" /\ PmAt = "end" => Off
         /\ power = "resuming" /\ PmAt = "end" => On
(* An event that a call has in hand will be listed, or freed, as it should.*)
InHand ==
  /\ IoctlAt \in {"en get", "en add", "register"} => ~callback
  /\ crtc_lock = "ioctl" =>
       /\ IoctlAt \in {"enable", "mask on", "write on"} => state = "NOINIT"
       /\ IoctlAt = "done" => On
       /\ IoctlAt = "failed" => ~callback
  /\ IoctlAt = "en add" => ~lit \/ CommitAt = "walk on"
  /\ IoctlAt = "failed" /\ crtc_lock # "ioctl" =>
       Off /\ (~lit \/ CommitAt = "walk on")
  /\ IoctlAt = "done" /\ crtc_lock # "ioctl" => Off
  /\ IoctlAt \in {"de check", "de get", "disarm"} /\ Down => Off
Settled == ~torn => NothingLeft /\ Walked /\ Listed /\ InHand
FInv == Phases /\ Settled

-----------------------------------------------------------------------------
(* Helpers.                                                                *)
(* What the first invariant says of the three threads.                     *)
LEMMA Seen ==
  ASSUME IInv
  PROVE  /\ CommitAt \in Sections => spin_lock = "commit" /\ node = "listed"
         /\ PmAt \in Sections => spin_lock = "pm" /\ node = "listed"
         /\ IoctlAt # "idle" => node = "held"
         /\ node = "none" => state = "NOINIT"
         /\ IoctlAt \in {"en get", "en add", "register"} => state = "NOINIT"
         /\ IoctlAt = "failed" /\ crtc_lock = "ioctl" => state = "NOINIT"
         /\ IoctlAt \in {"idle", "en get", "en add", "de check", "de get",
                         "disarm"} => crtc_lock # "ioctl"
         /\ state # "NOINIT" => callback
         /\ power \in {"on", "suspending", "off", "resuming"}
BY DEF IInv, Locks, Fresh, States, TypeOK, Threads, At, CommitAt, PmAt,
       IoctlAt, Sections

LEMMA ThreadMoves ==
  ASSUME TypeOK, NEW l, Goto("commit", l) \/ Goto("pm", l) \/ Goto("ioctl", l)
  PROVE  /\ Goto("commit", l) => CommitAt' = l /\ UNCHANGED <<PmAt, IoctlAt>>
         /\ Goto("pm", l) => PmAt' = l /\ UNCHANGED <<CommitAt, IoctlAt>>
         /\ Goto("ioctl", l) => IoctlAt' = l /\ UNCHANGED <<CommitAt, PmAt>>
BY DEF TypeOK, Goto, CommitAt, PmAt, IoctlAt, Masters, Threads

LEMMA OthersMove ==
  ASSUME TypeOK, NEW a \in {"isr", "worker", "peer"}, NEW l, Goto(a, l)
  PROVE  UNCHANGED <<CommitAt, PmAt, IoctlAt>>
BY DEF TypeOK, Goto, CommitAt, PmAt, IoctlAt, Masters, Threads

-----------------------------------------------------------------------------
(* The view of the event that the invariant takes: a step that leaves it   *)
(* as it is leaves the invariant.                                          *)
Unseen ==
  /\ UNCHANGED <<enabled, lit, mixers, power_event, node, state, callback,
                 orphans, crtc_lock, power, torn>>
  /\ UNCHANGED <<CommitAt, PmAt, IoctlAt>>
  /\ "commit" \in refs' <=> "commit" \in refs
  /\ "ioctl" \in refs' <=> "ioctl" \in refs

LEMMA UnseenFollows ==
  ASSUME FInv, Unseen
  PROVE  FInv'
<1>1. CommitPhase' /\ PmPhase' /\ IoctlPhase'
  BY DEF FInv, Unseen, Phases, CommitPhase, PmPhase, IoctlPhase
<1>2. On' = On /\ Off' = Off /\ Down' = Down
  BY DEF Unseen, On, Off, Down
<1>3. NothingLeft' = NothingLeft /\ Walked' = Walked
  BY <1>2 DEF Unseen, NothingLeft, Walked
<1>4. Listed' = Listed /\ InHand' = InHand
  BY <1>2 DEF Unseen, Listed, InHand
<1>5. torn' = torn
  BY DEF Unseen
<1> QED BY <1>1, <1>3, <1>4, <1>5 DEF FInv, Phases, Settled

(* The interrupt handler, the peer, the worker's reading, and a frame.     *)
LEMMA QuietFollows ==
  ASSUME IInv, FInv,
         \/ Fire \/ Deliver \/ FrameDone \/ PeerRead \/ PeerWrite
         \/ ReadGet \/ Read \/ DisplayIdle
  PROVE  FInv'
<1>1. UNCHANGED <<CommitAt, PmAt, IoctlAt>>
  <2>1. CASE FrameDone \/ DisplayIdle
    BY <2>1 DEF FrameDone, DisplayIdle, CommitAt, PmAt, IoctlAt
  <2>2. CASE \/ Fire \/ Deliver \/ PeerRead \/ PeerWrite
             \/ ReadGet \/ Read
    <3>1. \E a \in {"isr", "worker", "peer"} : \E l : Goto(a, l)
      BY <2>2 DEF Fire, Deliver, PeerRead, PeerWrite, ReadGet, Read
    <3> QED BY <3>1, OthersMove DEF IInv
  <2> QED BY <2>1, <2>2
<1>2. /\ UNCHANGED <<enabled, lit, mixers, power_event, node, state, callback,
                     orphans, crtc_lock, power, torn>>
      /\ "commit" \in refs' <=> "commit" \in refs
      /\ "ioctl" \in refs' <=> "ioctl" \in refs
  BY DEF Fire, Deliver, FrameDone, PeerRead, PeerWrite, ReadGet, Read,
         DisplayIdle, crtc, event, irq, supply, history
<1> QED BY <1>1, <1>2, UnseenFollows DEF Unseen

-----------------------------------------------------------------------------
(* The worker disarms an event that nobody has in hand.                    *)
LEMMA WorkerDisarms ==
  ASSUME IInv, FInv, node = "listed", state = "ENABLED",
         CommitAt \notin Sections, PmAt \notin Sections,
         state' = "DISABLED",
         UNCHANGED <<CommitAt, PmAt, IoctlAt>>,
         UNCHANGED <<enabled, lit, mixers, power_event, node, callback,
                     orphans, crtc_lock, refs, power, torn>>
  PROVE  FInv'
<1>1. CommitPhase' /\ PmPhase' /\ IoctlPhase'
  BY DEF FInv, Phases, CommitPhase, PmPhase, IoctlPhase
<1>2. IoctlAt = "idle" /\ crtc_lock # "ioctl" /\ CommitAt # "done"
        /\ PmAt # "done" /\ callback
  BY Seen DEF Sections
<1>3. ~Off /\ On /\ On'
  BY <1>2 DEF On, Off
<1>4. Down' = Down
  BY DEF Down
<1>5. ~torn => Listed'
  BY <1>3, <1>4 DEF FInv, Settled, Listed
<1>6. ~torn => NothingLeft' /\ Walked' /\ InHand'
  BY <1>2 DEF FInv, Settled, NothingLeft, Walked, InHand
<1> QED BY <1>1, <1>5, <1>6 DEF FInv, Phases, Settled

LEMMA NotifyFollows ==
  ASSUME IInv, FInv, Notify
  PROVE  FInv'
<1>1. UNCHANGED <<CommitAt, PmAt, IoctlAt>>
  <2>1. \E l \in {"write", "read"} : Goto("worker", l)
    BY DEF Notify
  <2> QED BY <2>1, OthersMove DEF IInv
<1>2. UNCHANGED <<enabled, lit, mixers, power_event, node, callback,
                  orphans, crtc_lock, refs, power, torn>>
  BY DEF Notify, crtc, supply
<1>3. \/ state' = state
      \/ state' = "DISABLED" /\ node = "listed" /\ state = "ENABLED"
  BY DEF Notify
<1>4. CASE state' = state
  BY <1>1, <1>2, <1>4, UnseenFollows DEF Unseen
<1>5. CASE state' = "DISABLED" /\ node = "listed" /\ state = "ENABLED"
  <2>1. spin_lock = "free"
    BY DEF Notify
  <2>2. CommitAt \notin Sections /\ PmAt \notin Sections
    BY <2>1, Seen
  <2> QED BY <1>1, <1>2, <1>5, <2>2, WorkerDisarms
<1> QED BY <1>3, <1>4, <1>5

LEMMA NotifyWriteFollows ==
  ASSUME IInv, FInv, NotifyWrite
  PROVE  FInv'
<1>1. UNCHANGED <<CommitAt, PmAt, IoctlAt>>
  BY OthersMove DEF IInv, NotifyWrite
<1>2. /\ state' = "DISABLED"
      /\ UNCHANGED <<enabled, lit, mixers, power_event, node, callback,
                     orphans, crtc_lock, refs, power, torn>>
  BY DEF NotifyWrite, crtc, supply, history
<1>3. pc["worker"] = "write"
  BY DEF NotifyWrite, At
<1>4. state = "ENABLED" /\ spin_lock = "worker" /\ node = "listed"
  BY <1>3 DEF IInv, Locks, States, At
<1>5. CommitAt \notin Sections /\ PmAt \notin Sections
  BY <1>4, Seen
<1> QED BY <1>1, <1>2, <1>4, <1>5, WorkerDisarms

-----------------------------------------------------------------------------
(* Arming: what a step of it does to the event.                            *)
ArmStep(here, next) ==
  /\ here \in ArmSteps
  /\ next \in {"enable", "mask on", "write on", "done", "failed"}
  /\ next = "failed" =>
       here = "register" /\ ~mixers /\ UNCHANGED <<state, callback>>
  /\ next = "done" => On'
  /\ next \in {"enable", "mask on", "write on"} => state' = state
  /\ next # "failed" => here # "register" \/ mixers
  /\ On => On'
(* Disarming.                                                              *)
DisarmStep(here, next) ==
  /\ here \in DisarmSteps
  /\ next \in {"mask off", "write off", "unregister", "done", "failed"}
  /\ next = "failed" =>
       here = "disarm" /\ ~mixers /\ UNCHANGED <<state, callback>>
  /\ next = "done" => Off'
InterruptFrame ==
  UNCHANGED <<enabled, lit, mixers, power_event, node, orphans, crtc_lock,
              refs, power, torn>>

LEMMA ArmingSteps ==
  ASSUME IInv, NEW a \in Threads,
         Register(a) \/ Enable(a) \/ MaskOn(a) \/ WriteOn(a)
  PROVE  ArmStep(pc[a], pc'[a]) /\ InterruptFrame
<1>1. pc \in [Actors -> Labels] /\ a \in Actors
  BY Types DEF IInv, PcType, Actors, Masters
<1>2. CASE Register(a)
  <2>1. /\ pc[a] = "register" /\ callback' = (callback \/ mixers)
        /\ pc'[a] = IF mixers THEN "enable" ELSE "failed"
        /\ state' = state
    BY <1>1, <1>2 DEF Register, At, Goto
  <2>2. InterruptFrame
    BY <1>2 DEF Register, InterruptFrame, crtc, supply, history
  <2>3. CASE mixers
    <3>1. callback' /\ pc'[a] = "enable"
      BY <2>1, <2>3
    <3> QED BY <2>1, <2>2, <2>3, <3>1 DEF ArmStep, ArmSteps, On
  <2>4. CASE ~mixers
    <3>1. callback' = callback /\ pc'[a] = "failed"
      <4>1. callback \in BOOLEAN
        BY Types DEF IInv, EventType
      <4> QED BY <2>1, <2>4, <4>1
    <3> QED BY <2>1, <2>2, <2>4, <3>1 DEF ArmStep, ArmSteps, On
  <2> QED BY <2>3, <2>4
<1>3. CASE Enable(a)
  <2>1. pc[a] = "enable" /\ callback' = callback
    BY <1>3 DEF Enable, At
  <2>2. callback
    BY <2>1 DEF IInv, States
  <2>3. state # "DISABLING"
    <3>1. \A c \in Threads \ {a} : pc[c] \notin Sections
      BY <2>1, Alone DEF IInv, Sections
    <3> QED BY <2>1, <3>1 DEF IInv, States, Sections
  <2>4. state \in {"NOINIT", "ENABLED", "DISABLING", "DISABLED"}
    BY Types DEF IInv, EventType
  <2>5. \/ pc'[a] = "mask on" /\ state' = state
        \/ pc'[a] = "done" /\ state' = "ENABLED"
    BY <1>1, <1>3, <2>3, <2>4 DEF Enable, Goto
  <2>6. InterruptFrame
    BY <1>3 DEF Enable, InterruptFrame, crtc, supply, history
  <2> QED BY <2>1, <2>2, <2>5, <2>6 DEF ArmStep, ArmSteps, On
<1>4. CASE MaskOn(a)
  <2>1. pc[a] = "mask on" /\ callback' = callback
    BY <1>4 DEF MaskOn, At
  <2>2. callback
    BY <2>1 DEF IInv, States
  <2>3. \/ pc'[a] = "write on" /\ state' = state
        \/ pc'[a] = "done" /\ state' = "ENABLED"
    BY <1>1, <1>4 DEF MaskOn, Goto
  <2>4. InterruptFrame
    BY <1>4 DEF MaskOn, InterruptFrame, crtc, supply, history
  <2> QED BY <2>1, <2>2, <2>3, <2>4 DEF ArmStep, ArmSteps, On
<1>5. CASE WriteOn(a)
  <2>1. pc[a] = "write on" /\ callback' = callback
    BY <1>5 DEF WriteOn, At
  <2>2. callback
    BY <2>1 DEF IInv, States
  <2>3. pc'[a] = "done" /\ state' = "ENABLED"
    BY <1>1, <1>5 DEF WriteOn, Goto
  <2>4. InterruptFrame
    BY <1>5 DEF WriteOn, InterruptFrame, crtc, supply, history
  <2> QED BY <2>1, <2>2, <2>3, <2>4 DEF ArmStep, ArmSteps, On
<1> QED BY <1>2, <1>3, <1>4, <1>5

LEMMA DisarmingSteps ==
  ASSUME IInv, NEW a \in Threads,
         Disarm(a) \/ MaskOff(a) \/ WriteOff(a) \/ Unregister(a)
  PROVE  DisarmStep(pc[a], pc'[a]) /\ InterruptFrame
<1>1. pc \in [Actors -> Labels] /\ a \in Actors
  BY Types DEF IInv, PcType, Actors, Masters
<1>2. CASE Disarm(a)
  <2>1. pc[a] = "disarm" /\ callback' = callback
    BY <1>2 DEF Disarm, At
  <2>2. \/ pc'[a] = "failed" /\ ~mixers /\ state' = state
        \/ pc'[a] \in {"mask off", "unregister"}
    BY <1>1, <1>2 DEF Disarm, Goto
  <2>3. InterruptFrame
    BY <1>2 DEF Disarm, InterruptFrame, crtc, supply, history
  <2> QED BY <2>1, <2>2, <2>3 DEF DisarmStep, DisarmSteps
<1>3. CASE MaskOff(a)
  <2>1. pc[a] = "mask off"
    BY <1>3 DEF MaskOff, At
  <2>2. pc'[a] \in {"write off", "unregister"}
    BY <1>1, <1>3 DEF MaskOff, Goto
  <2>3. InterruptFrame
    BY <1>3 DEF MaskOff, InterruptFrame, crtc, supply, history
  <2> QED BY <2>1, <2>2, <2>3 DEF DisarmStep, DisarmSteps
<1>4. CASE WriteOff(a)
  <2>1. pc[a] = "write off"
    BY <1>4 DEF WriteOff, At
  <2>2. pc'[a] = "unregister"
    BY <1>1, <1>4 DEF WriteOff, Goto
  <2>3. InterruptFrame
    BY <1>4 DEF WriteOff, InterruptFrame, crtc, supply, history
  <2> QED BY <2>1, <2>2, <2>3 DEF DisarmStep, DisarmSteps
<1>5. CASE Unregister(a)
  <2>1. pc[a] = "unregister" /\ pc'[a] = "done"
    BY <1>1, <1>5 DEF Unregister, At, Goto
  <2>2. callback' = FALSE /\ state' = state
    BY <1>5 DEF Unregister
  <2>3. state = "NOINIT"
    BY <2>1 DEF IInv, States
  <2>4. InterruptFrame
    BY <1>5 DEF Unregister, InterruptFrame, crtc, supply, history
  <2> QED BY <2>1, <2>2, <2>3, <2>4 DEF DisarmStep, DisarmSteps, Off
<1> QED BY <1>2, <1>3, <1>4, <1>5

LEMMA InterruptSteps ==
  ASSUME IInv, NEW a \in Threads, Interrupt(a)
  PROVE  /\ ArmStep(pc[a], pc'[a]) \/ DisarmStep(pc[a], pc'[a])
         /\ InterruptFrame
         /\ \A b \in Threads \ {a} : pc'[b] = pc[b]
<1>1. \E l : Goto(a, l)
  BY DEF Interrupt, Register, Enable, MaskOn, WriteOn, Disarm, MaskOff,
         WriteOff, Unregister
<1>2. \A b \in Threads \ {a} : pc'[b] = pc[b]
  BY <1>1, Types DEF IInv, PcType, Goto, Actors, Masters
<1> QED BY <1>2, ArmingSteps, DisarmingSteps DEF Interrupt

-----------------------------------------------------------------------------
(* A walk of the commit, one of runtime PM, a call of the ioctl.           *)
LEMMA CommitInterruptFollows ==
  ASSUME IInv, FInv, Interrupt("commit")
  PROVE  FInv'
<1>1. /\ ArmStep(CommitAt, CommitAt') \/ DisarmStep(CommitAt, CommitAt')
      /\ InterruptFrame
      /\ UNCHANGED <<PmAt, IoctlAt>>
  BY InterruptSteps DEF CommitAt, PmAt, IoctlAt, Threads
<1>2. CommitAt \in ArmSteps \union DisarmSteps
  BY <1>1 DEF ArmStep, DisarmStep
<1>3. /\ IoctlAt = "idle" /\ crtc_lock # "ioctl" /\ node = "listed"
      /\ mixers /\ power = "on" /\ PmAt = "idle"
  BY <1>2, Seen
     DEF FInv, Phases, CommitPhase, PmPhase, IoctlPhase, CommitLabels,
         ArmSteps, DisarmSteps, Sections
<1>4. CASE ArmStep(CommitAt, CommitAt')
  <2>1. /\ CommitAt \in ArmSteps
        /\ CommitAt' \in {"enable", "mask on", "write on", "done"}
        /\ CommitAt' = "done" => On'
        /\ On => On'
    BY <1>3, <1>4 DEF ArmStep
  <2>2. CommitPhase'
    BY <1>1, <1>3, <2>1 DEF InterruptFrame, FInv, Phases, CommitPhase,
           PmPhase, IoctlPhase, CommitLabels, ArmSteps, DisarmSteps,
           Sections
  <2>3. PmPhase' /\ IoctlPhase'
    BY <1>1 DEF InterruptFrame, FInv, Phases, PmPhase, IoctlPhase
  <2>4. crtc_lock # "commit" /\ ~Down' /\ CommitAt' # "power event"
    BY <2>1 DEF FInv, Phases, CommitPhase, PmPhase, IoctlPhase,
           CommitLabels, ArmSteps, DisarmSteps, Sections, Down
  <2>5. ~torn' => NothingLeft'
    BY <1>1, <1>3 DEF InterruptFrame, FInv, Settled, NothingLeft
  <2>6. ~torn' => Walked'
    BY <1>1, <1>3, <2>1, <2>4 DEF InterruptFrame, Walked
  <2>7. ~torn' => Listed'
    BY <1>1, <1>3, <2>1, <2>4 DEF InterruptFrame, FInv, Settled, Listed
  <2>8. ~torn' => InHand'
    BY <1>1, <1>3 DEF InterruptFrame, InHand
  <2> QED BY <2>2, <2>3, <2>5, <2>6, <2>7, <2>8 DEF FInv, Phases, Settled
<1>5. CASE DisarmStep(CommitAt, CommitAt')
  <2>1. /\ CommitAt \in DisarmSteps
        /\ CommitAt' \in {"mask off", "write off", "unregister", "done"}
        /\ CommitAt' = "done" => Off'
    BY <1>3, <1>5 DEF DisarmStep
  <2>2. CommitPhase'
    BY <1>1, <1>3, <2>1 DEF InterruptFrame, FInv, Phases, CommitPhase,
           PmPhase, IoctlPhase, CommitLabels, ArmSteps, DisarmSteps,
           Sections
  <2>3. PmPhase' /\ IoctlPhase'
    BY <1>1 DEF InterruptFrame, FInv, Phases, PmPhase, IoctlPhase
  <2>4. crtc_lock = "commit" /\ ~lit /\ ~Down' /\ CommitAt' # "power event"
    BY <2>1 DEF FInv, Phases, CommitPhase, PmPhase, IoctlPhase,
           CommitLabels, ArmSteps, DisarmSteps, Sections, Down
  <2>5. ~torn' => NothingLeft'
    BY <1>1, <1>3 DEF InterruptFrame, FInv, Settled, NothingLeft
  <2>6. ~torn' => Walked'
    BY <1>1, <1>3, <2>1, <2>4 DEF InterruptFrame, Walked
  <2>7. ~torn' => Listed'
    BY <1>1, <2>4 DEF InterruptFrame, Listed
  <2>8. ~torn' => InHand'
    BY <1>1, <1>3 DEF InterruptFrame, InHand
  <2> QED BY <2>2, <2>3, <2>5, <2>6, <2>7, <2>8 DEF FInv, Phases, Settled
<1> QED BY <1>1, <1>4, <1>5

LEMMA PmInterruptFollows ==
  ASSUME IInv, FInv, Interrupt("pm")
  PROVE  FInv'
<1>1. /\ ArmStep(PmAt, PmAt') \/ DisarmStep(PmAt, PmAt')
      /\ InterruptFrame
      /\ UNCHANGED <<CommitAt, IoctlAt>>
  BY InterruptSteps DEF CommitAt, PmAt, IoctlAt, Threads
<1>2. PmAt \in ArmSteps \union DisarmSteps
  BY <1>1 DEF ArmStep, DisarmStep
<1>3. /\ IoctlAt = "idle" /\ crtc_lock # "ioctl" /\ node = "listed"
      /\ PmAt \in Sections /\ PmAt # "idle"
  BY <1>2, Seen DEF ArmSteps, DisarmSteps, Sections
<1>4. /\ CommitAt \in {"idle", "get"} /\ power_event /\ lit /\ mixers
      /\ power \in {"suspending", "resuming"}
  BY <1>2, <1>3, Seen DEF FInv, Phases, CommitPhase, PmPhase, IoctlPhase,
         CommitLabels, ArmSteps, DisarmSteps, Sections
<1>5. /\ PmAt' \in {"enable", "mask on", "write on", "mask off", "write off",
                    "unregister", "done"}
      /\ PmAt' \in ArmSteps => power = "resuming"
      /\ PmAt' \in DisarmSteps => power = "suspending"
      /\ PmAt' = "done" => IF power = "suspending" THEN Off' ELSE On'
  <2>1. PmPhase
    BY DEF FInv, Phases
  <2>2. CASE ArmStep(PmAt, PmAt')
    <3>1. power = "resuming"
      BY <2>1, <2>2 DEF ArmStep, PmPhase
    <3> QED BY <1>4, <2>2, <3>1 DEF ArmStep, ArmSteps, DisarmSteps
  <2>3. CASE DisarmStep(PmAt, PmAt')
    <3>1. power = "suspending"
      BY <2>1, <2>3 DEF DisarmStep, PmPhase
    <3> QED BY <1>4, <2>3, <3>1 DEF DisarmStep, ArmSteps, DisarmSteps
  <2> QED BY <1>1, <2>2, <2>3
<1>6. CommitPhase' /\ IoctlPhase'
  BY <1>1 DEF InterruptFrame, FInv, Phases, CommitPhase, IoctlPhase
<1>7. PmPhase'
  <2>1. UNCHANGED <<power, power_event>>
    BY <1>1 DEF InterruptFrame
  <2>2. /\ PmAt' \in {"enable", "mask on", "write on", "mask off",
                      "write off", "unregister", "done"}
        /\ PmAt' \in ArmSteps => power = "resuming"
        /\ PmAt' \in DisarmSteps => power = "suspending"
    BY <1>5
  <2> QED BY <1>4, <2>1, <2>2 DEF PmPhase, ArmSteps, DisarmSteps
<1>8. ~torn' => NothingLeft'
  BY <1>1, <1>3 DEF InterruptFrame, FInv, Settled, NothingLeft
<1>9. ~torn' => Walked'
  BY <1>1, <1>4, <1>5 DEF InterruptFrame, Walked
<1>10. ~torn' => Listed'
  BY <1>1, <1>4, <1>5 DEF InterruptFrame, Listed, Down
<1>11. ~torn' => InHand'
  BY <1>1, <1>3 DEF InterruptFrame, InHand
<1> QED
  BY <1>6, <1>7, <1>8, <1>9, <1>10, <1>11 DEF FInv, Phases, Settled

LEMMA IoctlInterruptFollows ==
  ASSUME IInv, FInv, Interrupt("ioctl")
  PROVE  FInv'
<1>1. /\ ArmStep(IoctlAt, IoctlAt') \/ DisarmStep(IoctlAt, IoctlAt')
      /\ InterruptFrame
      /\ UNCHANGED <<CommitAt, PmAt>>
  BY InterruptSteps DEF CommitAt, PmAt, IoctlAt, Threads
<1>2. IoctlAt \in ArmSteps \union DisarmSteps
  BY <1>1 DEF ArmStep, DisarmStep
<1>3. /\ node = "held" /\ power = "on" /\ "ioctl" \in refs
      /\ CommitAt \notin Sections /\ PmAt = "idle"
  BY <1>2, Seen DEF FInv, Phases, CommitPhase, PmPhase, IoctlPhase,
         CommitLabels, ArmSteps, DisarmSteps, Sections
<1>4. Down' = Down
  BY <1>1 DEF InterruptFrame, Down
<1>5. CommitPhase' /\ PmPhase'
  BY <1>1 DEF InterruptFrame, FInv, Phases, CommitPhase, PmPhase
<1>6. ~torn' => NothingLeft'
  BY <1>1, <1>3 DEF InterruptFrame, FInv, Settled, NothingLeft
<1>7. ~torn' => Walked'
  BY <1>1, <1>3 DEF InterruptFrame, Walked, Sections
<1>8. ~torn' => Listed'
  BY <1>1, <1>3 DEF InterruptFrame, Listed
<1>9. CASE ArmStep(IoctlAt, IoctlAt')
  <2>1. crtc_lock = "ioctl"
    BY <1>9 DEF ArmStep, FInv, Phases, IoctlPhase
  <2>2. IoctlPhase'
    <3>1. UNCHANGED <<mixers, crtc_lock, refs, power>>
      BY <1>1 DEF InterruptFrame
    <3>2. /\ IoctlAt' \in {"enable", "mask on", "write on", "done", "failed"}
          /\ IoctlAt' # "failed" => mixers
      <4>1. IoctlAt \in ArmSteps \ {"register"} => mixers
        BY <2>1 DEF FInv, Phases, IoctlPhase, ArmSteps
      <4>2. IoctlAt = "register" /\ ~mixers => IoctlAt' = "failed"
        BY <1>9 DEF ArmStep
      <4> QED BY <1>9, <4>1, <4>2 DEF ArmStep, ArmSteps
    <3> QED BY <1>3, <2>1, <3>1, <3>2 DEF IoctlPhase, ArmSteps, Sections
  <2>3. ASSUME ~torn'
        PROVE  InHand'
    <3>1. /\ IoctlAt' \in {"enable", "mask on", "write on"} =>
               state' = "NOINIT"
          /\ IoctlAt' = "done" => On'
          /\ IoctlAt' = "failed" => ~callback'
      <4>1. InHand
        BY <1>1, <2>3 DEF InterruptFrame, FInv, Settled
      <4>2. /\ IoctlAt = "register" => ~callback /\ state = "NOINIT"
            /\ IoctlAt \in {"enable", "mask on", "write on"} =>
                 state = "NOINIT"
        BY <2>1, <4>1, Seen DEF InHand
      <4>3. IoctlAt' \in {"enable", "mask on", "write on"} =>
              state' = "NOINIT"
        <5>1. state = "NOINIT"
          BY <1>9, <4>2 DEF ArmStep, ArmSteps
        <5> QED BY <1>9, <5>1 DEF ArmStep
      <4>4. IoctlAt' = "done" => On'
        BY <1>9 DEF ArmStep
      <4>5. IoctlAt' = "failed" => ~callback'
        <5>1. SUFFICES ASSUME IoctlAt' = "failed"
                       PROVE  ~callback'
          OBVIOUS
        <5>2. IoctlAt = "register" /\ callback' = callback
          BY <1>9, <5>1 DEF ArmStep
        <5> QED BY <4>2, <5>2
      <4> QED BY <4>3, <4>4, <4>5
    <3>2. IoctlAt' \in {"enable", "mask on", "write on", "done", "failed"}
      BY <1>9 DEF ArmStep
    <3> QED BY <1>1, <2>1, <3>1, <3>2 DEF InterruptFrame, InHand
  <2> QED
    BY <1>5, <1>6, <1>7, <1>8, <2>2, <2>3 DEF FInv, Phases, Settled
<1>10. CASE DisarmStep(IoctlAt, IoctlAt')
  <2>1. crtc_lock # "ioctl"
    BY <1>10 DEF DisarmStep, FInv, Phases, CommitPhase, PmPhase, IoctlPhase,
           CommitLabels, ArmSteps, DisarmSteps, Sections
  <2>2. IoctlPhase'
    BY <1>1, <1>3, <1>10, <2>1 DEF DisarmStep, InterruptFrame, FInv, Phases,
           CommitPhase, PmPhase, IoctlPhase, CommitLabels, ArmSteps,
           DisarmSteps, Sections
  <2>3. ASSUME ~torn'
        PROVE  InHand'
    <3>1. IoctlAt' = "failed" => Off' /\ ~lit
      <4>1. SUFFICES ASSUME IoctlAt' = "failed"
                     PROVE  Off' /\ ~lit
        OBVIOUS
      <4>2. /\ IoctlAt = "disarm" /\ ~mixers
            /\ UNCHANGED <<state, callback>>
        BY <1>10, <4>1 DEF DisarmStep
      <4>3. CommitPhase
        BY DEF FInv, Phases
      <4>4. Down /\ ~lit
        BY <1>3, <4>2, <4>3 DEF Phases, CommitPhase, PmPhase, IoctlPhase,
     CommitLabels, ArmSteps, DisarmSteps, Sections, Down
      <4>5. Off
        BY <1>1, <2>3, <4>2, <4>4 DEF InterruptFrame, FInv, Settled, InHand
      <4> QED BY <4>2, <4>4, <4>5 DEF Off
    <3>2. IoctlAt' = "done" => Off'
      BY <1>10 DEF DisarmStep
    <3>3. IoctlAt' \in {"mask off", "write off", "unregister", "done",
                        "failed"}
      BY <1>10 DEF DisarmStep
    <3> QED BY <1>1, <2>1, <3>1, <3>2, <3>3 DEF InterruptFrame, InHand
  <2> QED
    BY <1>5, <1>6, <1>7, <1>8, <2>2, <2>3 DEF FInv, Phases, Settled
<1> QED BY <1>1, <1>9, <1>10

LEMMA InterruptFollows ==
  ASSUME IInv, FInv, NEW a \in Threads, Interrupt(a)
  PROVE  FInv'
<1>1. a = "commit" \/ a = "pm" \/ a = "ioctl"
  BY DEF Threads
<1>2. CASE a = "commit"
  BY <1>2, CommitInterruptFollows
<1>3. CASE a = "pm"
  BY <1>3, PmInterruptFollows
<1>4. CASE a = "ioctl"
  BY <1>4, IoctlInterruptFollows
<1> QED BY <1>1, <1>2, <1>3, <1>4

-----------------------------------------------------------------------------
(* The ioctl, runtime PM and the commit, action by action.                 *)
LEMMA EventEnableFollows ==
  ASSUME IInv, FInv, EventEnable
  PROVE  FInv'
<1>1. CASE node = "none" /\ enabled
  <2>1. /\ IoctlAt = "idle"
        /\ node' = "held"
        /\ state' = "NOINIT"
        /\ refs' = refs \union {"ioctl"}
        /\ UNCHANGED <<enabled, lit, mixers, power_event, callback, orphans,
                       crtc_lock, power, torn>>
    BY <1>1 DEF EventEnable, At, crtc, irq, history, CommitAt, PmAt, IoctlAt
  <2>2. IoctlAt' = "en get" /\ UNCHANGED <<PmAt, CommitAt>>
    BY <1>1, ThreadMoves DEF IInv, EventEnable, At
  <2>3. CommitPhase'
    BY <1>1, <2>1, <2>2, Seen DEF FInv, Phases, CommitPhase, PmPhase,
           IoctlPhase, CommitLabels, ArmSteps, DisarmSteps, Sections
  <2>4. PmPhase'
    BY <1>1, <2>1, <2>2, Seen DEF FInv, Phases, CommitPhase, PmPhase,
           IoctlPhase, CommitLabels, ArmSteps, DisarmSteps, Sections
  <2>5. IoctlPhase'
    BY <1>1, <2>1, <2>2, Seen DEF FInv, Phases, CommitPhase, PmPhase,
           IoctlPhase, CommitLabels, ArmSteps, DisarmSteps, Sections
  <2>6. ~torn' => NothingLeft'
    BY <1>1, <2>1, <2>2, Seen DEF FInv, Phases, CommitPhase, PmPhase,
           IoctlPhase, CommitLabels, ArmSteps, DisarmSteps, Sections,
           Settled, NothingLeft, Walked, Listed, InHand, On, Off, Down
  <2>7. ~torn' => Walked'
    BY <1>1, <2>1, <2>2, Seen DEF FInv, Phases, CommitPhase, PmPhase,
           IoctlPhase, CommitLabels, ArmSteps, DisarmSteps, Sections,
           Settled, NothingLeft, Walked, Listed, InHand, On, Off, Down
  <2>8. ~torn' => Listed'
    BY <1>1, <2>1, <2>2, Seen DEF FInv, Phases, CommitPhase, PmPhase,
           IoctlPhase, CommitLabels, ArmSteps, DisarmSteps, Sections,
           Settled, NothingLeft, Walked, Listed, InHand, On, Off, Down
  <2>9. ~torn' => InHand'
    BY <1>1, <2>1, <2>2, Seen DEF FInv, Phases, CommitPhase, PmPhase,
           IoctlPhase, CommitLabels, ArmSteps, DisarmSteps, Sections,
           Settled, NothingLeft, Walked, Listed, InHand, On, Off, Down
  <2> QED
    BY <2>3, <2>4, <2>5, <2>6, <2>7, <2>8, <2>9 DEF FInv, Phases, Settled
<1>2. CASE node = "none" /\ ~enabled
  <2>1. /\ IoctlAt = "idle"
        /\ node' = "held"
        /\ state' = "NOINIT"
        /\ UNCHANGED <<enabled, lit, mixers, power_event, callback, orphans,
                       crtc_lock, refs, power, torn>>
    BY <1>2 DEF EventEnable, At, crtc, irq, history, CommitAt, PmAt, IoctlAt
  <2>2. IoctlAt' = "en add" /\ UNCHANGED <<PmAt, CommitAt>>
    BY <1>2, ThreadMoves DEF IInv, EventEnable, At
  <2>3. CommitPhase'
    BY <1>2, <2>1, <2>2, Seen DEF FInv, Phases, CommitPhase, PmPhase,
           IoctlPhase, CommitLabels, ArmSteps, DisarmSteps, Sections
  <2>4. PmPhase'
    BY <1>2, <2>1, <2>2, Seen DEF FInv, Phases, CommitPhase, PmPhase,
           IoctlPhase, CommitLabels, ArmSteps, DisarmSteps, Sections
  <2>5. IoctlPhase'
    BY <1>2, <2>1, <2>2, Seen DEF FInv, Phases, CommitPhase, PmPhase,
           IoctlPhase, CommitLabels, ArmSteps, DisarmSteps, Sections
  <2>6. ~torn' => NothingLeft'
    BY <1>2, <2>1, <2>2, Seen DEF FInv, Phases, CommitPhase, PmPhase,
           IoctlPhase, CommitLabels, ArmSteps, DisarmSteps, Sections,
           Settled, NothingLeft, Walked, Listed, InHand, On, Off, Down
  <2>7. ~torn' => Walked'
    BY <1>2, <2>1, <2>2, Seen DEF FInv, Phases, CommitPhase, PmPhase,
           IoctlPhase, CommitLabels, ArmSteps, DisarmSteps, Sections,
           Settled, NothingLeft, Walked, Listed, InHand, On, Off, Down
  <2>8. ~torn' => Listed'
    BY <1>2, <2>1, <2>2, Seen DEF FInv, Phases, CommitPhase, PmPhase,
           IoctlPhase, CommitLabels, ArmSteps, DisarmSteps, Sections,
           Settled, NothingLeft, Walked, Listed, InHand, On, Off, Down
  <2>9. ~torn' => InHand'
    BY <1>2, <2>1, <2>2, Seen DEF FInv, Phases, CommitPhase, PmPhase,
           IoctlPhase, CommitLabels, ArmSteps, DisarmSteps, Sections,
           Settled, NothingLeft, Walked, Listed, InHand, On, Off, Down
  <2> QED
    BY <2>3, <2>4, <2>5, <2>6, <2>7, <2>8, <2>9 DEF FInv, Phases, Settled
<1> QED BY <1>1, <1>2 DEF EventEnable

LEMMA EnableGrantedFollows ==
  ASSUME IInv, FInv, EnableGranted
  PROVE  FInv'
<1>1. /\ IoctlAt = "en get"
      /\ power = "on" /\ crtc_lock = "free"
      /\ crtc_lock' = "ioctl"
      /\ UNCHANGED <<enabled, lit, mixers, power_event, node, state,
                     callback, orphans, refs, power, torn>>
  BY DEF EnableGranted, At, crtc, event, irq, supply, history, CommitAt,
         PmAt, IoctlAt
<1>2. IoctlAt' = "register" /\ UNCHANGED <<PmAt, CommitAt>>
  BY ThreadMoves DEF IInv, EnableGranted, At
<1>3. CommitPhase'
  BY <1>1, <1>2, Seen DEF FInv, Phases, CommitPhase, PmPhase, IoctlPhase,
         CommitLabels, ArmSteps, DisarmSteps, Sections
<1>4. PmPhase'
  BY <1>1, <1>2, Seen DEF FInv, Phases, CommitPhase, PmPhase, IoctlPhase,
         CommitLabels, ArmSteps, DisarmSteps, Sections
<1>5. IoctlPhase'
  BY <1>1, <1>2, Seen DEF FInv, Phases, CommitPhase, PmPhase, IoctlPhase,
         CommitLabels, ArmSteps, DisarmSteps, Sections
<1>6. ~torn' => NothingLeft'
  BY <1>1, <1>2, Seen DEF FInv, Phases, CommitPhase, PmPhase, IoctlPhase,
         CommitLabels, ArmSteps, DisarmSteps, Sections, Settled,
         NothingLeft, Walked, Listed, InHand, On, Off, Down
<1>7. ~torn' => Walked'
  BY <1>1, <1>2, Seen DEF FInv, Phases, CommitPhase, PmPhase, IoctlPhase,
         CommitLabels, ArmSteps, DisarmSteps, Sections, Settled,
         NothingLeft, Walked, Listed, InHand, On, Off, Down
<1>8. ~torn' => Listed'
  BY <1>1, <1>2, Seen DEF FInv, Phases, CommitPhase, PmPhase, IoctlPhase,
         CommitLabels, ArmSteps, DisarmSteps, Sections, Settled,
         NothingLeft, Walked, Listed, InHand, On, Off, Down
<1>9. ~torn' => InHand'
  BY <1>1, <1>2, Seen DEF FInv, Phases, CommitPhase, PmPhase, IoctlPhase,
         CommitLabels, ArmSteps, DisarmSteps, Sections, Settled,
         NothingLeft, Walked, Listed, InHand, On, Off, Down
<1> QED BY <1>3, <1>4, <1>5, <1>6, <1>7, <1>8, <1>9 DEF FInv, Phases, Settled

LEMMA EnableDoneFollows ==
  ASSUME IInv, FInv, EnableDone
  PROVE  FInv'
<1>1. /\ IoctlAt \in {"done", "failed"}
      /\ crtc_lock = "ioctl"
      /\ node' = IF IoctlAt = "done" THEN "listed" ELSE "none"
      /\ crtc_lock' = "free"
      /\ refs' = refs \ {"ioctl"}
      /\ UNCHANGED <<enabled, lit, mixers, power_event, state, callback,
                     orphans, power, torn>>
  BY DEF EnableDone, At, Returned, crtc, irq, history, CommitAt, PmAt, IoctlAt
<1>2. IoctlAt' = "idle" /\ UNCHANGED <<PmAt, CommitAt>>
  BY ThreadMoves DEF IInv, EnableDone, At, Returned
<1>3. CommitPhase'
  BY <1>1, <1>2, Seen DEF FInv, Phases, CommitPhase, PmPhase, IoctlPhase,
         CommitLabels, ArmSteps, DisarmSteps, Sections
<1>4. PmPhase'
  BY <1>1, <1>2, Seen DEF FInv, Phases, CommitPhase, PmPhase, IoctlPhase,
         CommitLabels, ArmSteps, DisarmSteps, Sections
<1>5. IoctlPhase'
  BY <1>1, <1>2, Seen DEF FInv, Phases, CommitPhase, PmPhase, IoctlPhase,
         CommitLabels, ArmSteps, DisarmSteps, Sections
<1>6. ~torn' => NothingLeft'
  BY <1>1, <1>2, Seen DEF FInv, Phases, CommitPhase, PmPhase, IoctlPhase,
         CommitLabels, ArmSteps, DisarmSteps, Sections, Settled,
         NothingLeft, Walked, Listed, InHand, On, Off, Down
<1>7. ~torn' => Walked'
  BY <1>1, <1>2, Seen DEF FInv, Phases, CommitPhase, PmPhase, IoctlPhase,
         CommitLabels, ArmSteps, DisarmSteps, Sections, Settled,
         NothingLeft, Walked, Listed, InHand, On, Off, Down
<1>8. ~torn' => Listed'
  BY <1>1, <1>2, Seen DEF FInv, Phases, CommitPhase, PmPhase, IoctlPhase,
         CommitLabels, ArmSteps, DisarmSteps, Sections, Settled,
         NothingLeft, Walked, Listed, InHand, On, Off, Down
<1>9. ~torn' => InHand'
  BY <1>1, <1>2, Seen DEF FInv, Phases, CommitPhase, PmPhase, IoctlPhase,
         CommitLabels, ArmSteps, DisarmSteps, Sections, Settled,
         NothingLeft, Walked, Listed, InHand, On, Off, Down
<1> QED BY <1>3, <1>4, <1>5, <1>6, <1>7, <1>8, <1>9 DEF FInv, Phases, Settled

LEMMA EnableAddFollows ==
  ASSUME IInv, FInv, EnableAdd
  PROVE  FInv'
<1>1. /\ IoctlAt = "en add"
      /\ node' = "listed"
      /\ UNCHANGED <<enabled, lit, mixers, power_event, state, callback,
                     orphans, crtc_lock, refs, power, torn>>
  BY DEF EnableAdd, At, crtc, irq, supply, history, CommitAt, PmAt, IoctlAt
<1>2. IoctlAt' = "idle" /\ UNCHANGED <<PmAt, CommitAt>>
  BY ThreadMoves DEF IInv, EnableAdd, At
<1>3. CommitPhase'
  BY <1>1, <1>2, Seen DEF FInv, Phases, CommitPhase, PmPhase, IoctlPhase,
         CommitLabels, ArmSteps, DisarmSteps, Sections
<1>4. PmPhase'
  BY <1>1, <1>2, Seen DEF FInv, Phases, CommitPhase, PmPhase, IoctlPhase,
         CommitLabels, ArmSteps, DisarmSteps, Sections
<1>5. IoctlPhase'
  BY <1>1, <1>2, Seen DEF FInv, Phases, CommitPhase, PmPhase, IoctlPhase,
         CommitLabels, ArmSteps, DisarmSteps, Sections
<1>6. ~torn' => NothingLeft'
  BY <1>1, <1>2, Seen DEF FInv, Phases, CommitPhase, PmPhase, IoctlPhase,
         CommitLabels, ArmSteps, DisarmSteps, Sections, Settled,
         NothingLeft, Walked, Listed, InHand, On, Off, Down
<1>7. ~torn' => Walked'
  BY <1>1, <1>2, Seen DEF FInv, Phases, CommitPhase, PmPhase, IoctlPhase,
         CommitLabels, ArmSteps, DisarmSteps, Sections, Settled,
         NothingLeft, Walked, Listed, InHand, On, Off, Down
<1>8. ~torn' => Listed'
  BY <1>1, <1>2, Seen DEF FInv, Phases, CommitPhase, PmPhase, IoctlPhase,
         CommitLabels, ArmSteps, DisarmSteps, Sections, Settled,
         NothingLeft, Walked, Listed, InHand, On, Off, Down
<1>9. ~torn' => InHand'
  BY <1>1, <1>2, Seen DEF FInv, Phases, CommitPhase, PmPhase, IoctlPhase,
         CommitLabels, ArmSteps, DisarmSteps, Sections, Settled,
         NothingLeft, Walked, Listed, InHand, On, Off, Down
<1> QED BY <1>3, <1>4, <1>5, <1>6, <1>7, <1>8, <1>9 DEF FInv, Phases, Settled

LEMMA EventDisableFollows ==
  ASSUME IInv, FInv, EventDisable
  PROVE  FInv'
<1>1. /\ IoctlAt = "idle"
      /\ node = "listed" /\ spin_lock = "free"
      /\ node' = "held"
      /\ UNCHANGED <<enabled, lit, mixers, power_event, state, callback,
                     orphans, crtc_lock, refs, power, torn>>
  BY DEF EventDisable, At, crtc, irq, supply, history, CommitAt, PmAt, IoctlAt
<1>2. IoctlAt' = "de check" /\ UNCHANGED <<PmAt, CommitAt>>
  BY ThreadMoves DEF IInv, EventDisable, At
<1>3. CommitPhase'
  BY <1>1, <1>2, Seen DEF FInv, Phases, CommitPhase, PmPhase, IoctlPhase,
         CommitLabels, ArmSteps, DisarmSteps, Sections
<1>4. PmPhase'
  BY <1>1, <1>2, Seen DEF FInv, Phases, CommitPhase, PmPhase, IoctlPhase,
         CommitLabels, ArmSteps, DisarmSteps, Sections
<1>5. IoctlPhase'
  BY <1>1, <1>2, Seen DEF FInv, Phases, CommitPhase, PmPhase, IoctlPhase,
         CommitLabels, ArmSteps, DisarmSteps, Sections
<1>6. ~torn' => NothingLeft'
  BY <1>1, <1>2, Seen DEF FInv, Phases, CommitPhase, PmPhase, IoctlPhase,
         CommitLabels, ArmSteps, DisarmSteps, Sections, Settled,
         NothingLeft, Walked, Listed, InHand, On, Off, Down
<1>7. ~torn' => Walked'
  BY <1>1, <1>2, Seen DEF FInv, Phases, CommitPhase, PmPhase, IoctlPhase,
         CommitLabels, ArmSteps, DisarmSteps, Sections, Settled,
         NothingLeft, Walked, Listed, InHand, On, Off, Down
<1>8. ~torn' => Listed'
  BY <1>1, <1>2, Seen DEF FInv, Phases, CommitPhase, PmPhase, IoctlPhase,
         CommitLabels, ArmSteps, DisarmSteps, Sections, Settled,
         NothingLeft, Walked, Listed, InHand, On, Off, Down
<1>9. ~torn' => InHand'
  BY <1>1, <1>2, Seen DEF FInv, Phases, CommitPhase, PmPhase, IoctlPhase,
         CommitLabels, ArmSteps, DisarmSteps, Sections, Settled,
         NothingLeft, Walked, Listed, InHand, On, Off, Down
<1> QED BY <1>3, <1>4, <1>5, <1>6, <1>7, <1>8, <1>9 DEF FInv, Phases, Settled

LEMMA DisableCheckFollows ==
  ASSUME IInv, FInv, DisableCheck
  PROVE  FInv'
<1>1. CASE enabled
  <2>1. /\ IoctlAt = "de check"
        /\ refs' = refs \union {"ioctl"}
        /\ UNCHANGED <<enabled, lit, mixers, power_event, node, state,
                       callback, orphans, crtc_lock, power, torn>>
    BY <1>1 DEF DisableCheck, At, Free, crtc, event, irq, history, CommitAt,
           PmAt, IoctlAt
  <2>2. IoctlAt' = "de get" /\ UNCHANGED <<PmAt, CommitAt>>
    BY <1>1, ThreadMoves DEF IInv, DisableCheck, At
  <2>3. CommitPhase'
    BY <1>1, <2>1, <2>2, Seen DEF FInv, Phases, CommitPhase, PmPhase,
           IoctlPhase, CommitLabels, ArmSteps, DisarmSteps, Sections
  <2>4. PmPhase'
    BY <1>1, <2>1, <2>2, Seen DEF FInv, Phases, CommitPhase, PmPhase,
           IoctlPhase, CommitLabels, ArmSteps, DisarmSteps, Sections
  <2>5. IoctlPhase'
    BY <1>1, <2>1, <2>2, Seen DEF FInv, Phases, CommitPhase, PmPhase,
           IoctlPhase, CommitLabels, ArmSteps, DisarmSteps, Sections
  <2>6. ~torn' => NothingLeft'
    BY <1>1, <2>1, <2>2, Seen DEF FInv, Phases, CommitPhase, PmPhase,
           IoctlPhase, CommitLabels, ArmSteps, DisarmSteps, Sections,
           Settled, NothingLeft, Walked, Listed, InHand, On, Off, Down
  <2>7. ~torn' => Walked'
    BY <1>1, <2>1, <2>2, Seen DEF FInv, Phases, CommitPhase, PmPhase,
           IoctlPhase, CommitLabels, ArmSteps, DisarmSteps, Sections,
           Settled, NothingLeft, Walked, Listed, InHand, On, Off, Down
  <2>8. ~torn' => Listed'
    BY <1>1, <2>1, <2>2, Seen DEF FInv, Phases, CommitPhase, PmPhase,
           IoctlPhase, CommitLabels, ArmSteps, DisarmSteps, Sections,
           Settled, NothingLeft, Walked, Listed, InHand, On, Off, Down
  <2>9. ~torn' => InHand'
    BY <1>1, <2>1, <2>2, Seen DEF FInv, Phases, CommitPhase, PmPhase,
           IoctlPhase, CommitLabels, ArmSteps, DisarmSteps, Sections,
           Settled, NothingLeft, Walked, Listed, InHand, On, Off, Down
  <2> QED
    BY <2>3, <2>4, <2>5, <2>6, <2>7, <2>8, <2>9 DEF FInv, Phases, Settled
<1>2. CASE ~enabled
  <2>1. /\ IoctlAt = "de check"
        /\ node' = "none"
        /\ state' = "NOINIT"
        /\ callback' = FALSE
        /\ orphans' = orphans + IF callback THEN 1 ELSE 0
        /\ UNCHANGED <<enabled, lit, mixers, power_event, crtc_lock, refs,
                       power, torn>>
    BY <1>2 DEF DisableCheck, At, Free, crtc, event, irq, history, CommitAt,
           PmAt, IoctlAt
  <2>2. IoctlAt' = "idle" /\ UNCHANGED <<PmAt, CommitAt>>
    BY <1>2, ThreadMoves DEF IInv, DisableCheck, At
  <2>3. CommitPhase'
    BY <1>2, <2>1, <2>2, Seen DEF FInv, Phases, CommitPhase, PmPhase,
           IoctlPhase, CommitLabels, ArmSteps, DisarmSteps, Sections
  <2>4. PmPhase'
    BY <1>2, <2>1, <2>2, Seen DEF FInv, Phases, CommitPhase, PmPhase,
           IoctlPhase, CommitLabels, ArmSteps, DisarmSteps, Sections
  <2>5. IoctlPhase'
    BY <1>2, <2>1, <2>2, Seen DEF FInv, Phases, CommitPhase, PmPhase,
           IoctlPhase, CommitLabels, ArmSteps, DisarmSteps, Sections
  <2>6. ~torn' => NothingLeft'
    <3> SUFFICES ASSUME ~torn' PROVE NothingLeft'
      OBVIOUS
    <3>1. ~callback /\ orphans = 0
      BY <1>2, <2>1, Seen DEF FInv, Phases, CommitPhase, PmPhase,
             IoctlPhase, CommitLabels, ArmSteps, DisarmSteps, Sections,
             Settled, NothingLeft, Walked, Listed, InHand, On, Off, Down
    <3>2. orphans' = orphans + IF callback THEN 1 ELSE 0
      BY <2>1
    <3>3. orphans' = 0 + 0
      BY <3>1, <3>2
    <3>4. orphans' = 0
      BY <3>3
    <3> QED BY <3>4, <2>1 DEF NothingLeft
  <2>7. ~torn' => Walked'
    BY <1>2, <2>1, <2>2, Seen DEF FInv, Phases, CommitPhase, PmPhase,
           IoctlPhase, CommitLabels, ArmSteps, DisarmSteps, Sections,
           Settled, NothingLeft, Walked, Listed, InHand, On, Off, Down
  <2>8. ~torn' => Listed'
    BY <1>2, <2>1, <2>2, Seen DEF FInv, Phases, CommitPhase, PmPhase,
           IoctlPhase, CommitLabels, ArmSteps, DisarmSteps, Sections,
           Settled, NothingLeft, Walked, Listed, InHand, On, Off, Down
  <2>9. ~torn' => InHand'
    BY <1>2, <2>1, <2>2, Seen DEF FInv, Phases, CommitPhase, PmPhase,
           IoctlPhase, CommitLabels, ArmSteps, DisarmSteps, Sections,
           Settled, NothingLeft, Walked, Listed, InHand, On, Off, Down
  <2> QED
    BY <2>3, <2>4, <2>5, <2>6, <2>7, <2>8, <2>9 DEF FInv, Phases, Settled
<1> QED BY <1>1, <1>2 DEF DisableCheck

LEMMA DisableGrantedFollows ==
  ASSUME IInv, FInv, DisableGranted
  PROVE  FInv'
<1>1. /\ IoctlAt = "de get"
      /\ power = "on"
      /\ UNCHANGED <<enabled, lit, mixers, power_event, node, state,
                     callback, orphans, crtc_lock, refs, power, torn>>
  BY DEF DisableGranted, At, crtc, event, irq, supply, history, CommitAt,
         PmAt, IoctlAt
<1>2. IoctlAt' = "disarm" /\ UNCHANGED <<PmAt, CommitAt>>
  BY ThreadMoves DEF IInv, DisableGranted, At
<1>3. CommitPhase'
  BY <1>1, <1>2, Seen DEF FInv, Phases, CommitPhase, PmPhase, IoctlPhase,
         CommitLabels, ArmSteps, DisarmSteps, Sections
<1>4. PmPhase'
  BY <1>1, <1>2, Seen DEF FInv, Phases, CommitPhase, PmPhase, IoctlPhase,
         CommitLabels, ArmSteps, DisarmSteps, Sections
<1>5. IoctlPhase'
  BY <1>1, <1>2, Seen DEF FInv, Phases, CommitPhase, PmPhase, IoctlPhase,
         CommitLabels, ArmSteps, DisarmSteps, Sections
<1>6. ~torn' => NothingLeft'
  BY <1>1, <1>2, Seen DEF FInv, Phases, CommitPhase, PmPhase, IoctlPhase,
         CommitLabels, ArmSteps, DisarmSteps, Sections, Settled,
         NothingLeft, Walked, Listed, InHand, On, Off, Down
<1>7. ~torn' => Walked'
  BY <1>1, <1>2, Seen DEF FInv, Phases, CommitPhase, PmPhase, IoctlPhase,
         CommitLabels, ArmSteps, DisarmSteps, Sections, Settled,
         NothingLeft, Walked, Listed, InHand, On, Off, Down
<1>8. ~torn' => Listed'
  BY <1>1, <1>2, Seen DEF FInv, Phases, CommitPhase, PmPhase, IoctlPhase,
         CommitLabels, ArmSteps, DisarmSteps, Sections, Settled,
         NothingLeft, Walked, Listed, InHand, On, Off, Down
<1>9. ~torn' => InHand'
  BY <1>1, <1>2, Seen DEF FInv, Phases, CommitPhase, PmPhase, IoctlPhase,
         CommitLabels, ArmSteps, DisarmSteps, Sections, Settled,
         NothingLeft, Walked, Listed, InHand, On, Off, Down
<1> QED BY <1>3, <1>4, <1>5, <1>6, <1>7, <1>8, <1>9 DEF FInv, Phases, Settled

LEMMA DisableDoneFollows ==
  ASSUME IInv, FInv, DisableDone
  PROVE  FInv'
<1>1. /\ IoctlAt = "done"
      /\ crtc_lock # "ioctl"
      /\ node' = "none"
      /\ state' = "NOINIT"
      /\ callback' = FALSE
      /\ orphans' = orphans + IF callback THEN 1 ELSE 0
      /\ refs' = refs \ {"ioctl"}
      /\ UNCHANGED <<enabled, lit, mixers, power_event, crtc_lock, power,
                     torn>>
  BY DEF DisableDone, At, Free, crtc, irq, history, CommitAt, PmAt, IoctlAt
<1>2. IoctlAt' = "idle" /\ UNCHANGED <<PmAt, CommitAt>>
  BY ThreadMoves DEF IInv, DisableDone, At
<1>3. CommitPhase'
  BY <1>1, <1>2, Seen DEF FInv, Phases, CommitPhase, PmPhase, IoctlPhase,
         CommitLabels, ArmSteps, DisarmSteps, Sections
<1>4. PmPhase'
  BY <1>1, <1>2, Seen DEF FInv, Phases, CommitPhase, PmPhase, IoctlPhase,
         CommitLabels, ArmSteps, DisarmSteps, Sections
<1>5. IoctlPhase'
  BY <1>1, <1>2, Seen DEF FInv, Phases, CommitPhase, PmPhase, IoctlPhase,
         CommitLabels, ArmSteps, DisarmSteps, Sections
<1>6. ~torn' => NothingLeft'
  <2> SUFFICES ASSUME ~torn' PROVE NothingLeft'
    OBVIOUS
  <2>1. ~callback /\ orphans = 0
    BY <1>1, Seen DEF FInv, Phases, CommitPhase, PmPhase, IoctlPhase,
           CommitLabels, ArmSteps, DisarmSteps, Sections, Settled,
           NothingLeft, Walked, Listed, InHand, On, Off, Down
  <2>2. orphans' = orphans + IF callback THEN 1 ELSE 0
    BY <1>1
  <2>3. orphans' = 0 + 0
    BY <2>1, <2>2
  <2>4. orphans' = 0
    BY <2>3
  <2> QED BY <2>4, <1>1 DEF NothingLeft
<1>7. ~torn' => Walked'
  BY <1>1, <1>2, Seen DEF FInv, Phases, CommitPhase, PmPhase, IoctlPhase,
         CommitLabels, ArmSteps, DisarmSteps, Sections, Settled,
         NothingLeft, Walked, Listed, InHand, On, Off, Down
<1>8. ~torn' => Listed'
  BY <1>1, <1>2, Seen DEF FInv, Phases, CommitPhase, PmPhase, IoctlPhase,
         CommitLabels, ArmSteps, DisarmSteps, Sections, Settled,
         NothingLeft, Walked, Listed, InHand, On, Off, Down
<1>9. ~torn' => InHand'
  BY <1>1, <1>2, Seen DEF FInv, Phases, CommitPhase, PmPhase, IoctlPhase,
         CommitLabels, ArmSteps, DisarmSteps, Sections, Settled,
         NothingLeft, Walked, Listed, InHand, On, Off, Down
<1> QED BY <1>3, <1>4, <1>5, <1>6, <1>7, <1>8, <1>9 DEF FInv, Phases, Settled

LEMMA DisableFailedFollows ==
  ASSUME IInv, FInv, DisableFailed
  PROVE  FInv'
<1>1. /\ IoctlAt = "failed"
      /\ crtc_lock # "ioctl"
      /\ node' = "listed"
      /\ refs' = refs \ {"ioctl"}
      /\ UNCHANGED <<enabled, lit, mixers, power_event, state, callback,
                     orphans, crtc_lock, power, torn>>
  BY DEF DisableFailed, At, crtc, irq, history, CommitAt, PmAt, IoctlAt
<1>2. IoctlAt' = "idle" /\ UNCHANGED <<PmAt, CommitAt>>
  BY ThreadMoves DEF IInv, DisableFailed, At
<1>3. CommitPhase'
  BY <1>1, <1>2, Seen DEF FInv, Phases, CommitPhase, PmPhase, IoctlPhase,
         CommitLabels, ArmSteps, DisarmSteps, Sections
<1>4. PmPhase'
  BY <1>1, <1>2, Seen DEF FInv, Phases, CommitPhase, PmPhase, IoctlPhase,
         CommitLabels, ArmSteps, DisarmSteps, Sections
<1>5. IoctlPhase'
  BY <1>1, <1>2, Seen DEF FInv, Phases, CommitPhase, PmPhase, IoctlPhase,
         CommitLabels, ArmSteps, DisarmSteps, Sections
<1>6. ~torn' => NothingLeft'
  BY <1>1, <1>2, Seen DEF FInv, Phases, CommitPhase, PmPhase, IoctlPhase,
         CommitLabels, ArmSteps, DisarmSteps, Sections, Settled,
         NothingLeft, Walked, Listed, InHand, On, Off, Down
<1>7. ~torn' => Walked'
  BY <1>1, <1>2, Seen DEF FInv, Phases, CommitPhase, PmPhase, IoctlPhase,
         CommitLabels, ArmSteps, DisarmSteps, Sections, Settled,
         NothingLeft, Walked, Listed, InHand, On, Off, Down
<1>8. ~torn' => Listed'
  BY <1>1, <1>2, Seen DEF FInv, Phases, CommitPhase, PmPhase, IoctlPhase,
         CommitLabels, ArmSteps, DisarmSteps, Sections, Settled,
         NothingLeft, Walked, Listed, InHand, On, Off, Down
<1>9. ~torn' => InHand'
  BY <1>1, <1>2, Seen DEF FInv, Phases, CommitPhase, PmPhase, IoctlPhase,
         CommitLabels, ArmSteps, DisarmSteps, Sections, Settled,
         NothingLeft, Walked, Listed, InHand, On, Off, Down
<1> QED BY <1>3, <1>4, <1>5, <1>6, <1>7, <1>8, <1>9 DEF FInv, Phases, Settled

LEMMA GetRefusedFollows ==
  ASSUME IInv, FInv, GetRefused
  PROVE  FInv'
<1>1. /\ IoctlAt \in {"en get", "de get"}
      /\ power = "off"
      /\ node' = "none"
      /\ state' = "NOINIT"
      /\ callback' = FALSE
      /\ orphans' = orphans + IF callback THEN 1 ELSE 0
      /\ refs' = refs \ {"ioctl"}
      /\ torn' = (torn \/ callback)
      /\ UNCHANGED <<enabled, lit, mixers, power_event, crtc_lock, power>>
  BY DEF GetRefused, At, Free, crtc, irq, CommitAt, PmAt, IoctlAt
<1>2. IoctlAt' = "idle" /\ UNCHANGED <<PmAt, CommitAt>>
  BY ThreadMoves DEF IInv, GetRefused, At
<1>3. CommitPhase'
  BY <1>1, <1>2, Seen DEF FInv, Phases, CommitPhase, PmPhase, IoctlPhase,
         CommitLabels, ArmSteps, DisarmSteps, Sections
<1>4. PmPhase'
  BY <1>1, <1>2, Seen DEF FInv, Phases, CommitPhase, PmPhase, IoctlPhase,
         CommitLabels, ArmSteps, DisarmSteps, Sections
<1>5. IoctlPhase'
  BY <1>1, <1>2, Seen DEF FInv, Phases, CommitPhase, PmPhase, IoctlPhase,
         CommitLabels, ArmSteps, DisarmSteps, Sections
<1>6. ~torn' => NothingLeft'
  <2> SUFFICES ASSUME ~torn' PROVE NothingLeft'
    OBVIOUS
  <2>1. ~callback /\ orphans = 0
    BY <1>1, Seen DEF FInv, Phases, CommitPhase, PmPhase, IoctlPhase,
           CommitLabels, ArmSteps, DisarmSteps, Sections, Settled,
           NothingLeft, Walked, Listed, InHand, On, Off, Down
  <2>2. orphans' = orphans + IF callback THEN 1 ELSE 0
    BY <1>1
  <2>3. orphans' = 0 + 0
    BY <2>1, <2>2
  <2>4. orphans' = 0
    BY <2>3
  <2> QED BY <2>4, <1>1 DEF NothingLeft
<1>7. ~torn' => Walked'
  BY <1>1, <1>2, Seen DEF FInv, Phases, CommitPhase, PmPhase, IoctlPhase,
         CommitLabels, ArmSteps, DisarmSteps, Sections, Settled,
         NothingLeft, Walked, Listed, InHand, On, Off, Down
<1>8. ~torn' => Listed'
  BY <1>1, <1>2, Seen DEF FInv, Phases, CommitPhase, PmPhase, IoctlPhase,
         CommitLabels, ArmSteps, DisarmSteps, Sections, Settled,
         NothingLeft, Walked, Listed, InHand, On, Off, Down
<1>9. ~torn' => InHand'
  BY <1>1, <1>2, Seen DEF FInv, Phases, CommitPhase, PmPhase, IoctlPhase,
         CommitLabels, ArmSteps, DisarmSteps, Sections, Settled,
         NothingLeft, Walked, Listed, InHand, On, Off, Down
<1> QED BY <1>3, <1>4, <1>5, <1>6, <1>7, <1>8, <1>9 DEF FInv, Phases, Settled

LEMMA SwitchFollows ==
  ASSUME IInv, FInv, Switch
  PROVE  FInv'
<1>1. /\ PmAt = "idle"
      /\ (((power = "on" /\ refs = {}) \/ power = "off"))
      /\ power' = IF power = "on" THEN "suspending" ELSE "resuming"
      /\ UNCHANGED <<enabled, lit, mixers, power_event, node, state,
                     callback, orphans, crtc_lock, refs, torn>>
  BY DEF Switch, At, crtc, event, irq, history, CommitAt, PmAt, IoctlAt
<1>2. /\ PmAt' = (IF power_event THEN "lock" ELSE "end")
      /\ UNCHANGED <<IoctlAt, CommitAt>>
  BY ThreadMoves DEF IInv, Switch, At
<1>3. CommitPhase'
  BY <1>1, <1>2, Seen DEF FInv, Phases, CommitPhase, PmPhase, IoctlPhase,
         CommitLabels, ArmSteps, DisarmSteps, Sections
<1>4. PmPhase'
  BY <1>1, <1>2, Seen DEF FInv, Phases, CommitPhase, PmPhase, IoctlPhase,
         CommitLabels, ArmSteps, DisarmSteps, Sections
<1>5. IoctlPhase'
  BY <1>1, <1>2, Seen DEF FInv, Phases, CommitPhase, PmPhase, IoctlPhase,
         CommitLabels, ArmSteps, DisarmSteps, Sections
<1>6. ~torn' => NothingLeft'
  BY <1>1, <1>2, Seen DEF FInv, Phases, CommitPhase, PmPhase, IoctlPhase,
         CommitLabels, ArmSteps, DisarmSteps, Sections, Settled,
         NothingLeft, Walked, Listed, InHand, On, Off, Down
<1>7. ~torn' => Walked'
  BY <1>1, <1>2, Seen DEF FInv, Phases, CommitPhase, PmPhase, IoctlPhase,
         CommitLabels, ArmSteps, DisarmSteps, Sections, Settled,
         NothingLeft, Walked, Listed, InHand, On, Off, Down
<1>8. ~torn' => Listed'
  BY <1>1, <1>2, Seen DEF FInv, Phases, CommitPhase, PmPhase, IoctlPhase,
         CommitLabels, ArmSteps, DisarmSteps, Sections, Settled,
         NothingLeft, Walked, Listed, InHand, On, Off, Down
<1>9. ~torn' => InHand'
  BY <1>1, <1>2, Seen DEF FInv, Phases, CommitPhase, PmPhase, IoctlPhase,
         CommitLabels, ArmSteps, DisarmSteps, Sections, Settled,
         NothingLeft, Walked, Listed, InHand, On, Off, Down
<1> QED BY <1>3, <1>4, <1>5, <1>6, <1>7, <1>8, <1>9 DEF FInv, Phases, Settled

LEMMA PowerLockFollows ==
  ASSUME IInv, FInv, PowerLock
  PROVE  FInv'
<1>1. /\ PmAt = "lock"
      /\ crtc_lock = "free"
      /\ crtc_lock' = "pm"
      /\ UNCHANGED <<enabled, lit, mixers, power_event, node, state,
                     callback, orphans, refs, power, torn>>
  BY DEF PowerLock, At, crtc, event, irq, supply, history, CommitAt, PmAt,
         IoctlAt
<1>2. PmAt' = "walk" /\ UNCHANGED <<IoctlAt, CommitAt>>
  BY ThreadMoves DEF IInv, PowerLock, At
<1>3. CommitPhase'
  BY <1>1, <1>2, Seen DEF FInv, Phases, CommitPhase, PmPhase, IoctlPhase,
         CommitLabels, ArmSteps, DisarmSteps, Sections
<1>4. PmPhase'
  BY <1>1, <1>2, Seen DEF FInv, Phases, CommitPhase, PmPhase, IoctlPhase,
         CommitLabels, ArmSteps, DisarmSteps, Sections
<1>5. IoctlPhase'
  BY <1>1, <1>2, Seen DEF FInv, Phases, CommitPhase, PmPhase, IoctlPhase,
         CommitLabels, ArmSteps, DisarmSteps, Sections
<1>6. ~torn' => NothingLeft'
  BY <1>1, <1>2, Seen DEF FInv, Phases, CommitPhase, PmPhase, IoctlPhase,
         CommitLabels, ArmSteps, DisarmSteps, Sections, Settled,
         NothingLeft, Walked, Listed, InHand, On, Off, Down
<1>7. ~torn' => Walked'
  BY <1>1, <1>2, Seen DEF FInv, Phases, CommitPhase, PmPhase, IoctlPhase,
         CommitLabels, ArmSteps, DisarmSteps, Sections, Settled,
         NothingLeft, Walked, Listed, InHand, On, Off, Down
<1>8. ~torn' => Listed'
  BY <1>1, <1>2, Seen DEF FInv, Phases, CommitPhase, PmPhase, IoctlPhase,
         CommitLabels, ArmSteps, DisarmSteps, Sections, Settled,
         NothingLeft, Walked, Listed, InHand, On, Off, Down
<1>9. ~torn' => InHand'
  BY <1>1, <1>2, Seen DEF FInv, Phases, CommitPhase, PmPhase, IoctlPhase,
         CommitLabels, ArmSteps, DisarmSteps, Sections, Settled,
         NothingLeft, Walked, Listed, InHand, On, Off, Down
<1> QED BY <1>3, <1>4, <1>5, <1>6, <1>7, <1>8, <1>9 DEF FInv, Phases, Settled

LEMMA PowerWalkFollows ==
  ASSUME IInv, FInv, PowerWalk
  PROVE  FInv'
<1>1. CASE node = "listed"
  <2>1. /\ PmAt = "walk"
        /\ UNCHANGED <<enabled, lit, mixers, power_event, node, state,
                       callback, orphans, crtc_lock, refs, power, torn>>
    BY <1>1 DEF PowerWalk, At, crtc, event, irq, supply, history, CommitAt,
           PmAt, IoctlAt
  <2>2. /\ PmAt' = (IF power = "suspending" THEN "disarm" ELSE "register")
        /\ UNCHANGED <<IoctlAt, CommitAt>>
    BY <1>1, ThreadMoves DEF IInv, PowerWalk, At
  <2>3. CommitPhase'
    BY <1>1, <2>1, <2>2, Seen DEF FInv, Phases, CommitPhase, PmPhase,
           IoctlPhase, CommitLabels, ArmSteps, DisarmSteps, Sections
  <2>4. PmPhase'
    BY <1>1, <2>1, <2>2, Seen DEF FInv, Phases, CommitPhase, PmPhase,
           IoctlPhase, CommitLabels, ArmSteps, DisarmSteps, Sections
  <2>5. IoctlPhase'
    BY <1>1, <2>1, <2>2, Seen DEF FInv, Phases, CommitPhase, PmPhase,
           IoctlPhase, CommitLabels, ArmSteps, DisarmSteps, Sections
  <2>6. ~torn' => NothingLeft'
    BY <1>1, <2>1, <2>2, Seen DEF FInv, Phases, CommitPhase, PmPhase,
           IoctlPhase, CommitLabels, ArmSteps, DisarmSteps, Sections,
           Settled, NothingLeft, Walked, Listed, InHand, On, Off, Down
  <2>7. ~torn' => Walked'
    BY <1>1, <2>1, <2>2, Seen DEF FInv, Phases, CommitPhase, PmPhase,
           IoctlPhase, CommitLabels, ArmSteps, DisarmSteps, Sections,
           Settled, NothingLeft, Walked, Listed, InHand, On, Off, Down
  <2>8. ~torn' => Listed'
    BY <1>1, <2>1, <2>2, Seen DEF FInv, Phases, CommitPhase, PmPhase,
           IoctlPhase, CommitLabels, ArmSteps, DisarmSteps, Sections,
           Settled, NothingLeft, Walked, Listed, InHand, On, Off, Down
  <2>9. ~torn' => InHand'
    BY <1>1, <2>1, <2>2, Seen DEF FInv, Phases, CommitPhase, PmPhase,
           IoctlPhase, CommitLabels, ArmSteps, DisarmSteps, Sections,
           Settled, NothingLeft, Walked, Listed, InHand, On, Off, Down
  <2> QED
    BY <2>3, <2>4, <2>5, <2>6, <2>7, <2>8, <2>9 DEF FInv, Phases, Settled
<1>2. CASE node # "listed"
  <2>1. /\ PmAt = "walk"
        /\ UNCHANGED <<enabled, lit, mixers, power_event, node, state,
                       callback, orphans, crtc_lock, refs, power, torn>>
    BY <1>2 DEF PowerWalk, At, crtc, event, irq, supply, history, CommitAt,
           PmAt, IoctlAt
  <2>2. PmAt' = "end" /\ UNCHANGED <<IoctlAt, CommitAt>>
    BY <1>2, ThreadMoves DEF IInv, PowerWalk, At
  <2>3. CommitPhase'
    BY <1>2, <2>1, <2>2, Seen DEF FInv, Phases, CommitPhase, PmPhase,
           IoctlPhase, CommitLabels, ArmSteps, DisarmSteps, Sections
  <2>4. PmPhase'
    BY <1>2, <2>1, <2>2, Seen DEF FInv, Phases, CommitPhase, PmPhase,
           IoctlPhase, CommitLabels, ArmSteps, DisarmSteps, Sections
  <2>5. IoctlPhase'
    BY <1>2, <2>1, <2>2, Seen DEF FInv, Phases, CommitPhase, PmPhase,
           IoctlPhase, CommitLabels, ArmSteps, DisarmSteps, Sections
  <2>6. ~torn' => NothingLeft'
    BY <1>2, <2>1, <2>2, Seen DEF FInv, Phases, CommitPhase, PmPhase,
           IoctlPhase, CommitLabels, ArmSteps, DisarmSteps, Sections,
           Settled, NothingLeft, Walked, Listed, InHand, On, Off, Down
  <2>7. ~torn' => Walked'
    BY <1>2, <2>1, <2>2, Seen DEF FInv, Phases, CommitPhase, PmPhase,
           IoctlPhase, CommitLabels, ArmSteps, DisarmSteps, Sections,
           Settled, NothingLeft, Walked, Listed, InHand, On, Off, Down
  <2>8. ~torn' => Listed'
    BY <1>2, <2>1, <2>2, Seen DEF FInv, Phases, CommitPhase, PmPhase,
           IoctlPhase, CommitLabels, ArmSteps, DisarmSteps, Sections,
           Settled, NothingLeft, Walked, Listed, InHand, On, Off, Down
  <2>9. ~torn' => InHand'
    BY <1>2, <2>1, <2>2, Seen DEF FInv, Phases, CommitPhase, PmPhase,
           IoctlPhase, CommitLabels, ArmSteps, DisarmSteps, Sections,
           Settled, NothingLeft, Walked, Listed, InHand, On, Off, Down
  <2> QED
    BY <2>3, <2>4, <2>5, <2>6, <2>7, <2>8, <2>9 DEF FInv, Phases, Settled
<1> QED BY <1>1, <1>2 DEF PowerWalk

LEMMA PowerWalkedFollows ==
  ASSUME IInv, FInv, PowerWalked
  PROVE  FInv'
<1>1. /\ PmAt \in {"done", "failed"}
      /\ UNCHANGED <<enabled, lit, mixers, power_event, node, state,
                     callback, orphans, crtc_lock, refs, power, torn>>
  BY DEF PowerWalked, Returned, crtc, event, irq, supply, history, CommitAt,
         PmAt, IoctlAt, At
<1>2. PmAt' = "end" /\ UNCHANGED <<IoctlAt, CommitAt>>
  BY ThreadMoves DEF IInv, PowerWalked, Returned
<1>3. CommitPhase'
  BY <1>1, <1>2, Seen DEF FInv, Phases, CommitPhase, PmPhase, IoctlPhase,
         CommitLabels, ArmSteps, DisarmSteps, Sections
<1>4. PmPhase'
  BY <1>1, <1>2, Seen DEF FInv, Phases, CommitPhase, PmPhase, IoctlPhase,
         CommitLabels, ArmSteps, DisarmSteps, Sections
<1>5. IoctlPhase'
  BY <1>1, <1>2, Seen DEF FInv, Phases, CommitPhase, PmPhase, IoctlPhase,
         CommitLabels, ArmSteps, DisarmSteps, Sections
<1>6. ~torn' => NothingLeft'
  BY <1>1, <1>2, Seen DEF FInv, Phases, CommitPhase, PmPhase, IoctlPhase,
         CommitLabels, ArmSteps, DisarmSteps, Sections, Settled,
         NothingLeft, Walked, Listed, InHand, On, Off, Down
<1>7. ~torn' => Walked'
  BY <1>1, <1>2, Seen DEF FInv, Phases, CommitPhase, PmPhase, IoctlPhase,
         CommitLabels, ArmSteps, DisarmSteps, Sections, Settled,
         NothingLeft, Walked, Listed, InHand, On, Off, Down
<1>8. ~torn' => Listed'
  BY <1>1, <1>2, Seen DEF FInv, Phases, CommitPhase, PmPhase, IoctlPhase,
         CommitLabels, ArmSteps, DisarmSteps, Sections, Settled,
         NothingLeft, Walked, Listed, InHand, On, Off, Down
<1>9. ~torn' => InHand'
  BY <1>1, <1>2, Seen DEF FInv, Phases, CommitPhase, PmPhase, IoctlPhase,
         CommitLabels, ArmSteps, DisarmSteps, Sections, Settled,
         NothingLeft, Walked, Listed, InHand, On, Off, Down
<1> QED BY <1>3, <1>4, <1>5, <1>6, <1>7, <1>8, <1>9 DEF FInv, Phases, Settled

LEMMA SwitchedFollows ==
  ASSUME IInv, FInv, Switched
  PROVE  FInv'
<1>1. /\ PmAt = "end"
      /\ power' = IF power = "suspending" THEN "off" ELSE "on"
      /\ crtc_lock' = IF crtc_lock = "pm" THEN "free" ELSE crtc_lock
      /\ UNCHANGED <<enabled, lit, mixers, power_event, node, state,
                     callback, orphans, refs, torn>>
  BY DEF Switched, At, crtc, event, history, CommitAt, PmAt, IoctlAt
<1>2. PmAt' = "idle" /\ UNCHANGED <<IoctlAt, CommitAt>>
  BY ThreadMoves DEF IInv, Switched, At
<1>3. CommitPhase'
  BY <1>1, <1>2, Seen DEF FInv, Phases, CommitPhase, PmPhase, IoctlPhase,
         CommitLabels, ArmSteps, DisarmSteps, Sections
<1>4. PmPhase'
  BY <1>1, <1>2, Seen DEF FInv, Phases, CommitPhase, PmPhase, IoctlPhase,
         CommitLabels, ArmSteps, DisarmSteps, Sections
<1>5. IoctlPhase'
  BY <1>1, <1>2, Seen DEF FInv, Phases, CommitPhase, PmPhase, IoctlPhase,
         CommitLabels, ArmSteps, DisarmSteps, Sections
<1>6. ~torn' => NothingLeft'
  BY <1>1, <1>2, Seen DEF FInv, Phases, CommitPhase, PmPhase, IoctlPhase,
         CommitLabels, ArmSteps, DisarmSteps, Sections, Settled,
         NothingLeft, Walked, Listed, InHand, On, Off, Down
<1>7. ~torn' => Walked'
  BY <1>1, <1>2, Seen DEF FInv, Phases, CommitPhase, PmPhase, IoctlPhase,
         CommitLabels, ArmSteps, DisarmSteps, Sections, Settled,
         NothingLeft, Walked, Listed, InHand, On, Off, Down
<1>8. ~torn' => Listed'
  BY <1>1, <1>2, Seen DEF FInv, Phases, CommitPhase, PmPhase, IoctlPhase,
         CommitLabels, ArmSteps, DisarmSteps, Sections, Settled,
         NothingLeft, Walked, Listed, InHand, On, Off, Down
<1>9. ~torn' => InHand'
  BY <1>1, <1>2, Seen DEF FInv, Phases, CommitPhase, PmPhase, IoctlPhase,
         CommitLabels, ArmSteps, DisarmSteps, Sections, Settled,
         NothingLeft, Walked, Listed, InHand, On, Off, Down
<1> QED BY <1>3, <1>4, <1>5, <1>6, <1>7, <1>8, <1>9 DEF FInv, Phases, Settled

LEMMA CommitStartFollows ==
  ASSUME IInv, FInv, CommitStart
  PROVE  FInv'
<1>1. /\ CommitAt = "idle"
      /\ refs' = refs \union {"commit"}
      /\ UNCHANGED <<enabled, lit, mixers, power_event, node, state,
                     callback, orphans, crtc_lock, power, torn>>
  BY DEF CommitStart, At, crtc, event, irq, history, CommitAt, PmAt, IoctlAt
<1>2. CommitAt' = "get" /\ UNCHANGED <<IoctlAt, PmAt>>
  BY ThreadMoves DEF IInv, CommitStart, At
<1>3. CommitPhase'
  BY <1>1, <1>2, Seen DEF FInv, Phases, CommitPhase, PmPhase, IoctlPhase,
         CommitLabels, ArmSteps, DisarmSteps, Sections
<1>4. PmPhase'
  BY <1>1, <1>2, Seen DEF FInv, Phases, CommitPhase, PmPhase, IoctlPhase,
         CommitLabels, ArmSteps, DisarmSteps, Sections
<1>5. IoctlPhase'
  BY <1>1, <1>2, Seen DEF FInv, Phases, CommitPhase, PmPhase, IoctlPhase,
         CommitLabels, ArmSteps, DisarmSteps, Sections
<1>6. ~torn' => NothingLeft'
  BY <1>1, <1>2, Seen DEF FInv, Phases, CommitPhase, PmPhase, IoctlPhase,
         CommitLabels, ArmSteps, DisarmSteps, Sections, Settled,
         NothingLeft, Walked, Listed, InHand, On, Off, Down
<1>7. ~torn' => Walked'
  BY <1>1, <1>2, Seen DEF FInv, Phases, CommitPhase, PmPhase, IoctlPhase,
         CommitLabels, ArmSteps, DisarmSteps, Sections, Settled,
         NothingLeft, Walked, Listed, InHand, On, Off, Down
<1>8. ~torn' => Listed'
  BY <1>1, <1>2, Seen DEF FInv, Phases, CommitPhase, PmPhase, IoctlPhase,
         CommitLabels, ArmSteps, DisarmSteps, Sections, Settled,
         NothingLeft, Walked, Listed, InHand, On, Off, Down
<1>9. ~torn' => InHand'
  BY <1>1, <1>2, Seen DEF FInv, Phases, CommitPhase, PmPhase, IoctlPhase,
         CommitLabels, ArmSteps, DisarmSteps, Sections, Settled,
         NothingLeft, Walked, Listed, InHand, On, Off, Down
<1> QED BY <1>3, <1>4, <1>5, <1>6, <1>7, <1>8, <1>9 DEF FInv, Phases, Settled

LEMMA FlipFollows ==
  ASSUME IInv, FInv, Flip
  PROVE  FInv'
<1>1. /\ CommitAt = "get"
      /\ power = "on" /\ lit
      /\ UNCHANGED <<enabled, lit, mixers, power_event, node, state,
                     callback, orphans, crtc_lock, refs, power, torn>>
  BY DEF Flip, At, crtc, event, irq, supply, history, CommitAt, PmAt, IoctlAt
<1>2. CommitAt' = "apply" /\ UNCHANGED <<IoctlAt, PmAt>>
  BY ThreadMoves DEF IInv, Flip, At
<1>3. CommitPhase'
  BY <1>1, <1>2, Seen DEF FInv, Phases, CommitPhase, PmPhase, IoctlPhase,
         CommitLabels, ArmSteps, DisarmSteps, Sections
<1>4. PmPhase'
  BY <1>1, <1>2, Seen DEF FInv, Phases, CommitPhase, PmPhase, IoctlPhase,
         CommitLabels, ArmSteps, DisarmSteps, Sections
<1>5. IoctlPhase'
  BY <1>1, <1>2, Seen DEF FInv, Phases, CommitPhase, PmPhase, IoctlPhase,
         CommitLabels, ArmSteps, DisarmSteps, Sections
<1>6. ~torn' => NothingLeft'
  BY <1>1, <1>2, Seen DEF FInv, Phases, CommitPhase, PmPhase, IoctlPhase,
         CommitLabels, ArmSteps, DisarmSteps, Sections, Settled,
         NothingLeft, Walked, Listed, InHand, On, Off, Down
<1>7. ~torn' => Walked'
  BY <1>1, <1>2, Seen DEF FInv, Phases, CommitPhase, PmPhase, IoctlPhase,
         CommitLabels, ArmSteps, DisarmSteps, Sections, Settled,
         NothingLeft, Walked, Listed, InHand, On, Off, Down
<1>8. ~torn' => Listed'
  BY <1>1, <1>2, Seen DEF FInv, Phases, CommitPhase, PmPhase, IoctlPhase,
         CommitLabels, ArmSteps, DisarmSteps, Sections, Settled,
         NothingLeft, Walked, Listed, InHand, On, Off, Down
<1>9. ~torn' => InHand'
  BY <1>1, <1>2, Seen DEF FInv, Phases, CommitPhase, PmPhase, IoctlPhase,
         CommitLabels, ArmSteps, DisarmSteps, Sections, Settled,
         NothingLeft, Walked, Listed, InHand, On, Off, Down
<1> QED BY <1>3, <1>4, <1>5, <1>6, <1>7, <1>8, <1>9 DEF FInv, Phases, Settled

LEMMA CrtcDisableFollows ==
  ASSUME IInv, FInv, CrtcDisable
  PROVE  FInv'
<1>1. /\ CommitAt = "get"
      /\ power = "on" /\ lit /\ crtc_lock = "free"
      /\ crtc_lock' = "commit"
      /\ lit' = FALSE
      /\ refs' = refs \ {"display"}
      /\ UNCHANGED <<enabled, mixers, power_event, node, state, callback,
                     orphans, power, torn>>
  BY DEF CrtcDisable, At, event, irq, history, CommitAt, PmAt, IoctlAt
<1>2. CommitAt' = "walk off" /\ UNCHANGED <<IoctlAt, PmAt>>
  BY ThreadMoves DEF IInv, CrtcDisable, At
<1>3. CommitPhase'
  BY <1>1, <1>2, Seen DEF FInv, Phases, CommitPhase, PmPhase, IoctlPhase,
         CommitLabels, ArmSteps, DisarmSteps, Sections
<1>4. PmPhase'
  BY <1>1, <1>2, Seen DEF FInv, Phases, CommitPhase, PmPhase, IoctlPhase,
         CommitLabels, ArmSteps, DisarmSteps, Sections
<1>5. IoctlPhase'
  BY <1>1, <1>2, Seen DEF FInv, Phases, CommitPhase, PmPhase, IoctlPhase,
         CommitLabels, ArmSteps, DisarmSteps, Sections
<1>6. ~torn' => NothingLeft'
  BY <1>1, <1>2, Seen DEF FInv, Phases, CommitPhase, PmPhase, IoctlPhase,
         CommitLabels, ArmSteps, DisarmSteps, Sections, Settled,
         NothingLeft, Walked, Listed, InHand, On, Off, Down
<1>7. ~torn' => Walked'
  BY <1>1, <1>2, Seen DEF FInv, Phases, CommitPhase, PmPhase, IoctlPhase,
         CommitLabels, ArmSteps, DisarmSteps, Sections, Settled,
         NothingLeft, Walked, Listed, InHand, On, Off, Down
<1>8. ~torn' => Listed'
  BY <1>1, <1>2, Seen DEF FInv, Phases, CommitPhase, PmPhase, IoctlPhase,
         CommitLabels, ArmSteps, DisarmSteps, Sections, Settled,
         NothingLeft, Walked, Listed, InHand, On, Off, Down
<1>9. ~torn' => InHand'
  BY <1>1, <1>2, Seen DEF FInv, Phases, CommitPhase, PmPhase, IoctlPhase,
         CommitLabels, ArmSteps, DisarmSteps, Sections, Settled,
         NothingLeft, Walked, Listed, InHand, On, Off, Down
<1> QED BY <1>3, <1>4, <1>5, <1>6, <1>7, <1>8, <1>9 DEF FInv, Phases, Settled

LEMMA TurnOnFollows ==
  ASSUME IInv, FInv, TurnOn
  PROVE  FInv'
<1>1. /\ CommitAt = "get"
      /\ power = "on" /\ ~lit
      /\ enabled' = TRUE
      /\ UNCHANGED <<lit, mixers, power_event, node, state, callback,
                     orphans, crtc_lock, refs, power, torn>>
  BY DEF TurnOn, At, event, irq, supply, history, CommitAt, PmAt, IoctlAt
<1>2. CommitAt' = "mixers" /\ UNCHANGED <<IoctlAt, PmAt>>
  BY ThreadMoves DEF IInv, TurnOn, At
<1>3. CommitPhase'
  BY <1>1, <1>2, Seen DEF FInv, Phases, CommitPhase, PmPhase, IoctlPhase,
         CommitLabels, ArmSteps, DisarmSteps, Sections
<1>4. PmPhase'
  BY <1>1, <1>2, Seen DEF FInv, Phases, CommitPhase, PmPhase, IoctlPhase,
         CommitLabels, ArmSteps, DisarmSteps, Sections
<1>5. IoctlPhase'
  BY <1>1, <1>2, Seen DEF FInv, Phases, CommitPhase, PmPhase, IoctlPhase,
         CommitLabels, ArmSteps, DisarmSteps, Sections
<1>6. ~torn' => NothingLeft'
  BY <1>1, <1>2, Seen DEF FInv, Phases, CommitPhase, PmPhase, IoctlPhase,
         CommitLabels, ArmSteps, DisarmSteps, Sections, Settled,
         NothingLeft, Walked, Listed, InHand, On, Off, Down
<1>7. ~torn' => Walked'
  BY <1>1, <1>2, Seen DEF FInv, Phases, CommitPhase, PmPhase, IoctlPhase,
         CommitLabels, ArmSteps, DisarmSteps, Sections, Settled,
         NothingLeft, Walked, Listed, InHand, On, Off, Down
<1>8. ~torn' => Listed'
  BY <1>1, <1>2, Seen DEF FInv, Phases, CommitPhase, PmPhase, IoctlPhase,
         CommitLabels, ArmSteps, DisarmSteps, Sections, Settled,
         NothingLeft, Walked, Listed, InHand, On, Off, Down
<1>9. ~torn' => InHand'
  BY <1>1, <1>2, Seen DEF FInv, Phases, CommitPhase, PmPhase, IoctlPhase,
         CommitLabels, ArmSteps, DisarmSteps, Sections, Settled,
         NothingLeft, Walked, Listed, InHand, On, Off, Down
<1> QED BY <1>3, <1>4, <1>5, <1>6, <1>7, <1>8, <1>9 DEF FInv, Phases, Settled

LEMMA DisableWalkFollows ==
  ASSUME IInv, FInv, DisableWalk
  PROVE  FInv'
<1>1. /\ CommitAt = "walk off"
      /\ torn' = (torn \/ IoctlAt \in {"de check", "de get", "disarm"})
      /\ UNCHANGED <<enabled, lit, mixers, power_event, node, state,
                     callback, orphans, crtc_lock, refs, power>>
  BY DEF DisableWalk, At, crtc, event, irq, supply, CommitAt, PmAt, IoctlAt
<1>2. /\ CommitAt' = (IF node = "listed" THEN "disarm" ELSE "reset")
      /\ UNCHANGED <<IoctlAt, PmAt>>
  BY ThreadMoves DEF IInv, DisableWalk, At
<1>3. CommitPhase'
  BY <1>1, <1>2, Seen DEF FInv, Phases, CommitPhase, PmPhase, IoctlPhase,
         CommitLabels, ArmSteps, DisarmSteps, Sections
<1>4. PmPhase'
  BY <1>1, <1>2, Seen DEF FInv, Phases, CommitPhase, PmPhase, IoctlPhase,
         CommitLabels, ArmSteps, DisarmSteps, Sections
<1>5. IoctlPhase'
  BY <1>1, <1>2, Seen DEF FInv, Phases, CommitPhase, PmPhase, IoctlPhase,
         CommitLabels, ArmSteps, DisarmSteps, Sections
<1>6. ~torn' => NothingLeft'
  BY <1>1, <1>2, Seen DEF FInv, Phases, CommitPhase, PmPhase, IoctlPhase,
         CommitLabels, ArmSteps, DisarmSteps, Sections, Settled,
         NothingLeft, Walked, Listed, InHand, On, Off, Down
<1>7. ~torn' => Walked'
  BY <1>1, <1>2, Seen DEF FInv, Phases, CommitPhase, PmPhase, IoctlPhase,
         CommitLabels, ArmSteps, DisarmSteps, Sections, Settled,
         NothingLeft, Walked, Listed, InHand, On, Off, Down
<1>8. ~torn' => Listed'
  BY <1>1, <1>2, Seen DEF FInv, Phases, CommitPhase, PmPhase, IoctlPhase,
         CommitLabels, ArmSteps, DisarmSteps, Sections, Settled,
         NothingLeft, Walked, Listed, InHand, On, Off, Down
<1>9. ~torn' => InHand'
  BY <1>1, <1>2, Seen DEF FInv, Phases, CommitPhase, PmPhase, IoctlPhase,
         CommitLabels, ArmSteps, DisarmSteps, Sections, Settled,
         NothingLeft, Walked, Listed, InHand, On, Off, Down
<1> QED BY <1>3, <1>4, <1>5, <1>6, <1>7, <1>8, <1>9 DEF FInv, Phases, Settled

LEMMA DisableWalkedFollows ==
  ASSUME IInv, FInv, DisableWalked
  PROVE  FInv'
<1>1. /\ CommitAt \in {"done", "failed"}
      /\ crtc_lock = "commit"
      /\ UNCHANGED <<enabled, lit, mixers, power_event, node, state,
                     callback, orphans, crtc_lock, refs, power, torn>>
  BY DEF DisableWalked, Returned, crtc, event, irq, supply, history,
         CommitAt, PmAt, IoctlAt, At
<1>2. CommitAt' = "reset" /\ UNCHANGED <<IoctlAt, PmAt>>
  BY ThreadMoves DEF IInv, DisableWalked, Returned
<1>3. CommitPhase'
  BY <1>1, <1>2, Seen DEF FInv, Phases, CommitPhase, PmPhase, IoctlPhase,
         CommitLabels, ArmSteps, DisarmSteps, Sections
<1>4. PmPhase'
  BY <1>1, <1>2, Seen DEF FInv, Phases, CommitPhase, PmPhase, IoctlPhase,
         CommitLabels, ArmSteps, DisarmSteps, Sections
<1>5. IoctlPhase'
  BY <1>1, <1>2, Seen DEF FInv, Phases, CommitPhase, PmPhase, IoctlPhase,
         CommitLabels, ArmSteps, DisarmSteps, Sections
<1>6. ~torn' => NothingLeft'
  BY <1>1, <1>2, Seen DEF FInv, Phases, CommitPhase, PmPhase, IoctlPhase,
         CommitLabels, ArmSteps, DisarmSteps, Sections, Settled,
         NothingLeft, Walked, Listed, InHand, On, Off, Down
<1>7. ~torn' => Walked'
  BY <1>1, <1>2, Seen DEF FInv, Phases, CommitPhase, PmPhase, IoctlPhase,
         CommitLabels, ArmSteps, DisarmSteps, Sections, Settled,
         NothingLeft, Walked, Listed, InHand, On, Off, Down
<1>8. ~torn' => Listed'
  BY <1>1, <1>2, Seen DEF FInv, Phases, CommitPhase, PmPhase, IoctlPhase,
         CommitLabels, ArmSteps, DisarmSteps, Sections, Settled,
         NothingLeft, Walked, Listed, InHand, On, Off, Down
<1>9. ~torn' => InHand'
  BY <1>1, <1>2, Seen DEF FInv, Phases, CommitPhase, PmPhase, IoctlPhase,
         CommitLabels, ArmSteps, DisarmSteps, Sections, Settled,
         NothingLeft, Walked, Listed, InHand, On, Off, Down
<1> QED BY <1>3, <1>4, <1>5, <1>6, <1>7, <1>8, <1>9 DEF FInv, Phases, Settled

LEMMA CrtcResetFollows ==
  ASSUME IInv, FInv, CrtcReset
  PROVE  FInv'
<1>1. /\ CommitAt = "reset"
      /\ power_event' = FALSE
      /\ mixers' = FALSE
      /\ crtc_lock' = "free"
      /\ UNCHANGED <<enabled, lit, node, state, callback, orphans, refs,
                     power, torn>>
  BY DEF CrtcReset, At, event, irq, supply, history, CommitAt, PmAt, IoctlAt
<1>2. CommitAt' = "modeset" /\ UNCHANGED <<IoctlAt, PmAt>>
  BY ThreadMoves DEF IInv, CrtcReset, At
<1>3. CommitPhase'
  BY <1>1, <1>2, Seen DEF FInv, Phases, CommitPhase, PmPhase, IoctlPhase,
         CommitLabels, ArmSteps, DisarmSteps, Sections
<1>4. PmPhase'
  BY <1>1, <1>2, Seen DEF FInv, Phases, CommitPhase, PmPhase, IoctlPhase,
         CommitLabels, ArmSteps, DisarmSteps, Sections
<1>5. IoctlPhase'
  BY <1>1, <1>2, Seen DEF FInv, Phases, CommitPhase, PmPhase, IoctlPhase,
         CommitLabels, ArmSteps, DisarmSteps, Sections
<1>6. ~torn' => NothingLeft'
  BY <1>1, <1>2, Seen DEF FInv, Phases, CommitPhase, PmPhase, IoctlPhase,
         CommitLabels, ArmSteps, DisarmSteps, Sections, Settled,
         NothingLeft, Walked, Listed, InHand, On, Off, Down
<1>7. ~torn' => Walked'
  BY <1>1, <1>2, Seen DEF FInv, Phases, CommitPhase, PmPhase, IoctlPhase,
         CommitLabels, ArmSteps, DisarmSteps, Sections, Settled,
         NothingLeft, Walked, Listed, InHand, On, Off, Down
<1>8. ~torn' => Listed'
  BY <1>1, <1>2, Seen DEF FInv, Phases, CommitPhase, PmPhase, IoctlPhase,
         CommitLabels, ArmSteps, DisarmSteps, Sections, Settled,
         NothingLeft, Walked, Listed, InHand, On, Off, Down
<1>9. ~torn' => InHand'
  BY <1>1, <1>2, Seen DEF FInv, Phases, CommitPhase, PmPhase, IoctlPhase,
         CommitLabels, ArmSteps, DisarmSteps, Sections, Settled,
         NothingLeft, Walked, Listed, InHand, On, Off, Down
<1> QED BY <1>3, <1>4, <1>5, <1>6, <1>7, <1>8, <1>9 DEF FInv, Phases, Settled

LEMMA ModesetFollows ==
  ASSUME IInv, FInv, Modeset
  PROVE  FInv'
<1>1. CASE enabled' = FALSE /\ Goto("commit", "end")
  <2>1. /\ CommitAt = "modeset"
        /\ enabled' = FALSE
        /\ UNCHANGED <<lit, mixers, power_event, node, state, callback,
                       orphans, crtc_lock, refs, power, torn>>
    BY <1>1 DEF Modeset, At, event, irq, supply, history, CommitAt, PmAt,
           IoctlAt
  <2>2. CommitAt' = "end" /\ UNCHANGED <<IoctlAt, PmAt>>
    BY <1>1, ThreadMoves DEF IInv, Modeset, At
  <2>3. CommitPhase'
    BY <2>1, <2>2, Seen DEF FInv, Phases, CommitPhase, PmPhase, IoctlPhase,
           CommitLabels, ArmSteps, DisarmSteps, Sections
  <2>4. PmPhase'
    BY <2>1, <2>2, Seen DEF FInv, Phases, CommitPhase, PmPhase, IoctlPhase,
           CommitLabels, ArmSteps, DisarmSteps, Sections
  <2>5. IoctlPhase'
    BY <2>1, <2>2, Seen DEF FInv, Phases, CommitPhase, PmPhase, IoctlPhase,
           CommitLabels, ArmSteps, DisarmSteps, Sections
  <2>6. ~torn' => NothingLeft'
    BY <2>1, <2>2, Seen DEF FInv, Phases, CommitPhase, PmPhase, IoctlPhase,
           CommitLabels, ArmSteps, DisarmSteps, Sections, Settled,
           NothingLeft, Walked, Listed, InHand, On, Off, Down
  <2>7. ~torn' => Walked'
    BY <2>1, <2>2, Seen DEF FInv, Phases, CommitPhase, PmPhase, IoctlPhase,
           CommitLabels, ArmSteps, DisarmSteps, Sections, Settled,
           NothingLeft, Walked, Listed, InHand, On, Off, Down
  <2>8. ~torn' => Listed'
    BY <2>1, <2>2, Seen DEF FInv, Phases, CommitPhase, PmPhase, IoctlPhase,
           CommitLabels, ArmSteps, DisarmSteps, Sections, Settled,
           NothingLeft, Walked, Listed, InHand, On, Off, Down
  <2>9. ~torn' => InHand'
    BY <2>1, <2>2, Seen DEF FInv, Phases, CommitPhase, PmPhase, IoctlPhase,
           CommitLabels, ArmSteps, DisarmSteps, Sections, Settled,
           NothingLeft, Walked, Listed, InHand, On, Off, Down
  <2> QED
    BY <2>3, <2>4, <2>5, <2>6, <2>7, <2>8, <2>9 DEF FInv, Phases, Settled
<1>2. CASE enabled' = enabled /\ Goto("commit", "end")
  <2>1. /\ CommitAt = "modeset"
        /\ UNCHANGED <<enabled, lit, mixers, power_event, node, state,
                       callback, orphans, crtc_lock, refs, power, torn>>
    BY <1>2 DEF Modeset, At, event, irq, supply, history, CommitAt, PmAt,
           IoctlAt
  <2>2. CommitAt' = "end" /\ UNCHANGED <<IoctlAt, PmAt>>
    BY <1>2, ThreadMoves DEF IInv, Modeset, At
  <2>3. CommitPhase'
    BY <2>1, <2>2, Seen DEF FInv, Phases, CommitPhase, PmPhase, IoctlPhase,
           CommitLabels, ArmSteps, DisarmSteps, Sections
  <2>4. PmPhase'
    BY <2>1, <2>2, Seen DEF FInv, Phases, CommitPhase, PmPhase, IoctlPhase,
           CommitLabels, ArmSteps, DisarmSteps, Sections
  <2>5. IoctlPhase'
    BY <2>1, <2>2, Seen DEF FInv, Phases, CommitPhase, PmPhase, IoctlPhase,
           CommitLabels, ArmSteps, DisarmSteps, Sections
  <2>6. ~torn' => NothingLeft'
    BY <2>1, <2>2, Seen DEF FInv, Phases, CommitPhase, PmPhase, IoctlPhase,
           CommitLabels, ArmSteps, DisarmSteps, Sections, Settled,
           NothingLeft, Walked, Listed, InHand, On, Off, Down
  <2>7. ~torn' => Walked'
    BY <2>1, <2>2, Seen DEF FInv, Phases, CommitPhase, PmPhase, IoctlPhase,
           CommitLabels, ArmSteps, DisarmSteps, Sections, Settled,
           NothingLeft, Walked, Listed, InHand, On, Off, Down
  <2>8. ~torn' => Listed'
    BY <2>1, <2>2, Seen DEF FInv, Phases, CommitPhase, PmPhase, IoctlPhase,
           CommitLabels, ArmSteps, DisarmSteps, Sections, Settled,
           NothingLeft, Walked, Listed, InHand, On, Off, Down
  <2>9. ~torn' => InHand'
    BY <2>1, <2>2, Seen DEF FInv, Phases, CommitPhase, PmPhase, IoctlPhase,
           CommitLabels, ArmSteps, DisarmSteps, Sections, Settled,
           NothingLeft, Walked, Listed, InHand, On, Off, Down
  <2> QED
    BY <2>3, <2>4, <2>5, <2>6, <2>7, <2>8, <2>9 DEF FInv, Phases, Settled
<1>3. CASE enabled' = enabled /\ Goto("commit", "mixers")
  <2>1. /\ CommitAt = "modeset"
        /\ UNCHANGED <<enabled, lit, mixers, power_event, node, state,
                       callback, orphans, crtc_lock, refs, power, torn>>
    BY <1>3 DEF Modeset, At, event, irq, supply, history, CommitAt, PmAt,
           IoctlAt
  <2>2. CommitAt' = "mixers" /\ UNCHANGED <<IoctlAt, PmAt>>
    BY <1>3, ThreadMoves DEF IInv, Modeset, At
  <2>3. CommitPhase'
    BY <2>1, <2>2, Seen DEF FInv, Phases, CommitPhase, PmPhase, IoctlPhase,
           CommitLabels, ArmSteps, DisarmSteps, Sections
  <2>4. PmPhase'
    BY <2>1, <2>2, Seen DEF FInv, Phases, CommitPhase, PmPhase, IoctlPhase,
           CommitLabels, ArmSteps, DisarmSteps, Sections
  <2>5. IoctlPhase'
    BY <2>1, <2>2, Seen DEF FInv, Phases, CommitPhase, PmPhase, IoctlPhase,
           CommitLabels, ArmSteps, DisarmSteps, Sections
  <2>6. ~torn' => NothingLeft'
    BY <2>1, <2>2, Seen DEF FInv, Phases, CommitPhase, PmPhase, IoctlPhase,
           CommitLabels, ArmSteps, DisarmSteps, Sections, Settled,
           NothingLeft, Walked, Listed, InHand, On, Off, Down
  <2>7. ~torn' => Walked'
    BY <2>1, <2>2, Seen DEF FInv, Phases, CommitPhase, PmPhase, IoctlPhase,
           CommitLabels, ArmSteps, DisarmSteps, Sections, Settled,
           NothingLeft, Walked, Listed, InHand, On, Off, Down
  <2>8. ~torn' => Listed'
    BY <2>1, <2>2, Seen DEF FInv, Phases, CommitPhase, PmPhase, IoctlPhase,
           CommitLabels, ArmSteps, DisarmSteps, Sections, Settled,
           NothingLeft, Walked, Listed, InHand, On, Off, Down
  <2>9. ~torn' => InHand'
    BY <2>1, <2>2, Seen DEF FInv, Phases, CommitPhase, PmPhase, IoctlPhase,
           CommitLabels, ArmSteps, DisarmSteps, Sections, Settled,
           NothingLeft, Walked, Listed, InHand, On, Off, Down
  <2> QED
    BY <2>3, <2>4, <2>5, <2>6, <2>7, <2>8, <2>9 DEF FInv, Phases, Settled
<1> QED BY <1>1, <1>2, <1>3 DEF Modeset

LEMMA SetupMixersFollows ==
  ASSUME IInv, FInv, SetupMixers
  PROVE  FInv'
<1>1. /\ CommitAt = "mixers"
      /\ crtc_lock = "free"
      /\ mixers' = TRUE
      /\ UNCHANGED <<enabled, lit, power_event, node, state, callback,
                     orphans, crtc_lock, refs, power, torn>>
  BY DEF SetupMixers, At, event, irq, supply, history, CommitAt, PmAt, IoctlAt
<1>2. CommitAt' = "apply" /\ UNCHANGED <<IoctlAt, PmAt>>
  BY ThreadMoves DEF IInv, SetupMixers, At
<1>3. CommitPhase'
  BY <1>1, <1>2, Seen DEF FInv, Phases, CommitPhase, PmPhase, IoctlPhase,
         CommitLabels, ArmSteps, DisarmSteps, Sections
<1>4. PmPhase'
  BY <1>1, <1>2, Seen DEF FInv, Phases, CommitPhase, PmPhase, IoctlPhase,
         CommitLabels, ArmSteps, DisarmSteps, Sections
<1>5. IoctlPhase'
  BY <1>1, <1>2, Seen DEF FInv, Phases, CommitPhase, PmPhase, IoctlPhase,
         CommitLabels, ArmSteps, DisarmSteps, Sections
<1>6. ~torn' => NothingLeft'
  BY <1>1, <1>2, Seen DEF FInv, Phases, CommitPhase, PmPhase, IoctlPhase,
         CommitLabels, ArmSteps, DisarmSteps, Sections, Settled,
         NothingLeft, Walked, Listed, InHand, On, Off, Down
<1>7. ~torn' => Walked'
  BY <1>1, <1>2, Seen DEF FInv, Phases, CommitPhase, PmPhase, IoctlPhase,
         CommitLabels, ArmSteps, DisarmSteps, Sections, Settled,
         NothingLeft, Walked, Listed, InHand, On, Off, Down
<1>8. ~torn' => Listed'
  BY <1>1, <1>2, Seen DEF FInv, Phases, CommitPhase, PmPhase, IoctlPhase,
         CommitLabels, ArmSteps, DisarmSteps, Sections, Settled,
         NothingLeft, Walked, Listed, InHand, On, Off, Down
<1>9. ~torn' => InHand'
  BY <1>1, <1>2, Seen DEF FInv, Phases, CommitPhase, PmPhase, IoctlPhase,
         CommitLabels, ArmSteps, DisarmSteps, Sections, Settled,
         NothingLeft, Walked, Listed, InHand, On, Off, Down
<1> QED BY <1>3, <1>4, <1>5, <1>6, <1>7, <1>8, <1>9 DEF FInv, Phases, Settled

LEMMA ApplyNothingFollows ==
  ASSUME IInv, FInv, ApplyNothing
  PROVE  FInv'
<1>1. /\ CommitAt = "apply"
      /\ UNCHANGED <<enabled, lit, mixers, power_event, node, state,
                     callback, orphans, crtc_lock, refs, power, torn>>
  BY DEF ApplyNothing, At, Applied, crtc, event, irq, supply, history,
         CommitAt, PmAt, IoctlAt
<1>2. /\ CommitAt' = (IF lit THEN "end" ELSE "enable crtc")
      /\ UNCHANGED <<IoctlAt, PmAt>>
  BY ThreadMoves DEF IInv, ApplyNothing, At, Applied
<1>3. CommitPhase'
  BY <1>1, <1>2, Seen DEF FInv, Phases, CommitPhase, PmPhase, IoctlPhase,
         CommitLabels, ArmSteps, DisarmSteps, Sections
<1>4. PmPhase'
  BY <1>1, <1>2, Seen DEF FInv, Phases, CommitPhase, PmPhase, IoctlPhase,
         CommitLabels, ArmSteps, DisarmSteps, Sections
<1>5. IoctlPhase'
  BY <1>1, <1>2, Seen DEF FInv, Phases, CommitPhase, PmPhase, IoctlPhase,
         CommitLabels, ArmSteps, DisarmSteps, Sections
<1>6. ~torn' => NothingLeft'
  BY <1>1, <1>2, Seen DEF FInv, Phases, CommitPhase, PmPhase, IoctlPhase,
         CommitLabels, ArmSteps, DisarmSteps, Sections, Settled,
         NothingLeft, Walked, Listed, InHand, On, Off, Down
<1>7. ~torn' => Walked'
  BY <1>1, <1>2, Seen DEF FInv, Phases, CommitPhase, PmPhase, IoctlPhase,
         CommitLabels, ArmSteps, DisarmSteps, Sections, Settled,
         NothingLeft, Walked, Listed, InHand, On, Off, Down
<1>8. ~torn' => Listed'
  BY <1>1, <1>2, Seen DEF FInv, Phases, CommitPhase, PmPhase, IoctlPhase,
         CommitLabels, ArmSteps, DisarmSteps, Sections, Settled,
         NothingLeft, Walked, Listed, InHand, On, Off, Down
<1>9. ~torn' => InHand'
  BY <1>1, <1>2, Seen DEF FInv, Phases, CommitPhase, PmPhase, IoctlPhase,
         CommitLabels, ArmSteps, DisarmSteps, Sections, Settled,
         NothingLeft, Walked, Listed, InHand, On, Off, Down
<1> QED BY <1>3, <1>4, <1>5, <1>6, <1>7, <1>8, <1>9 DEF FInv, Phases, Settled

LEMMA ApplyHistIrqFollows ==
  ASSUME IInv, FInv, ApplyHistIrq
  PROVE  FInv'
<1>1. /\ CommitAt = "apply"
      /\ node = "listed" /\ state = "DISABLED"
      /\ UNCHANGED <<enabled, lit, mixers, power_event, node, state,
                     callback, orphans, crtc_lock, refs, power, torn>>
  BY DEF ApplyHistIrq, At, crtc, event, irq, supply, history, CommitAt,
         PmAt, IoctlAt
<1>2. CommitAt' = "enable" /\ UNCHANGED <<IoctlAt, PmAt>>
  BY ThreadMoves DEF IInv, ApplyHistIrq, At
<1>3. CommitPhase'
  BY <1>1, <1>2, Seen DEF FInv, Phases, CommitPhase, PmPhase, IoctlPhase,
         CommitLabels, ArmSteps, DisarmSteps, Sections
<1>4. PmPhase'
  BY <1>1, <1>2, Seen DEF FInv, Phases, CommitPhase, PmPhase, IoctlPhase,
         CommitLabels, ArmSteps, DisarmSteps, Sections
<1>5. IoctlPhase'
  BY <1>1, <1>2, Seen DEF FInv, Phases, CommitPhase, PmPhase, IoctlPhase,
         CommitLabels, ArmSteps, DisarmSteps, Sections
<1>6. ~torn' => NothingLeft'
  BY <1>1, <1>2, Seen DEF FInv, Phases, CommitPhase, PmPhase, IoctlPhase,
         CommitLabels, ArmSteps, DisarmSteps, Sections, Settled,
         NothingLeft, Walked, Listed, InHand, On, Off, Down
<1>7. ~torn' => Walked'
  BY <1>1, <1>2, Seen DEF FInv, Phases, CommitPhase, PmPhase, IoctlPhase,
         CommitLabels, ArmSteps, DisarmSteps, Sections, Settled,
         NothingLeft, Walked, Listed, InHand, On, Off, Down
<1>8. ~torn' => Listed'
  BY <1>1, <1>2, Seen DEF FInv, Phases, CommitPhase, PmPhase, IoctlPhase,
         CommitLabels, ArmSteps, DisarmSteps, Sections, Settled,
         NothingLeft, Walked, Listed, InHand, On, Off, Down
<1>9. ~torn' => InHand'
  BY <1>1, <1>2, Seen DEF FInv, Phases, CommitPhase, PmPhase, IoctlPhase,
         CommitLabels, ArmSteps, DisarmSteps, Sections, Settled,
         NothingLeft, Walked, Listed, InHand, On, Off, Down
<1> QED BY <1>3, <1>4, <1>5, <1>6, <1>7, <1>8, <1>9 DEF FInv, Phases, Settled

LEMMA AppliedHistIrqFollows ==
  ASSUME IInv, FInv, AppliedHistIrq
  PROVE  FInv'
<1>1. /\ CommitAt = "done"
      /\ crtc_lock # "commit" /\ (lit => power_event)
      /\ UNCHANGED <<enabled, lit, mixers, power_event, node, state,
                     callback, orphans, crtc_lock, refs, power, torn>>
  BY DEF AppliedHistIrq, At, Applied, crtc, event, irq, supply, history,
         CommitAt, PmAt, IoctlAt
<1>2. /\ CommitAt' = (IF lit THEN "end" ELSE "enable crtc")
      /\ UNCHANGED <<IoctlAt, PmAt>>
  BY ThreadMoves DEF IInv, AppliedHistIrq, At, Applied
<1>3. CommitPhase'
  BY <1>1, <1>2, Seen DEF FInv, Phases, CommitPhase, PmPhase, IoctlPhase,
         CommitLabels, ArmSteps, DisarmSteps, Sections
<1>4. PmPhase'
  BY <1>1, <1>2, Seen DEF FInv, Phases, CommitPhase, PmPhase, IoctlPhase,
         CommitLabels, ArmSteps, DisarmSteps, Sections
<1>5. IoctlPhase'
  BY <1>1, <1>2, Seen DEF FInv, Phases, CommitPhase, PmPhase, IoctlPhase,
         CommitLabels, ArmSteps, DisarmSteps, Sections
<1>6. ~torn' => NothingLeft'
  BY <1>1, <1>2, Seen DEF FInv, Phases, CommitPhase, PmPhase, IoctlPhase,
         CommitLabels, ArmSteps, DisarmSteps, Sections, Settled,
         NothingLeft, Walked, Listed, InHand, On, Off, Down
<1>7. ~torn' => Walked'
  BY <1>1, <1>2, Seen DEF FInv, Phases, CommitPhase, PmPhase, IoctlPhase,
         CommitLabels, ArmSteps, DisarmSteps, Sections, Settled,
         NothingLeft, Walked, Listed, InHand, On, Off, Down
<1>8. ~torn' => Listed'
  BY <1>1, <1>2, Seen DEF FInv, Phases, CommitPhase, PmPhase, IoctlPhase,
         CommitLabels, ArmSteps, DisarmSteps, Sections, Settled,
         NothingLeft, Walked, Listed, InHand, On, Off, Down
<1>9. ~torn' => InHand'
  BY <1>1, <1>2, Seen DEF FInv, Phases, CommitPhase, PmPhase, IoctlPhase,
         CommitLabels, ArmSteps, DisarmSteps, Sections, Settled,
         NothingLeft, Walked, Listed, InHand, On, Off, Down
<1> QED BY <1>3, <1>4, <1>5, <1>6, <1>7, <1>8, <1>9 DEF FInv, Phases, Settled

LEMMA CrtcEnableFollows ==
  ASSUME IInv, FInv, CrtcEnable
  PROVE  FInv'
<1>1. /\ CommitAt = "enable crtc"
      /\ crtc_lock = "free"
      /\ lit' = TRUE
      /\ UNCHANGED <<enabled, mixers, power_event, node, state, callback,
                     orphans, crtc_lock, refs, power, torn>>
  BY DEF CrtcEnable, At, crtc, event, irq, supply, history, CommitAt, PmAt,
         IoctlAt
<1>2. CommitAt' = "walk on" /\ UNCHANGED <<IoctlAt, PmAt>>
  BY ThreadMoves DEF IInv, CrtcEnable, At
<1>3. CommitPhase'
  BY <1>1, <1>2, Seen DEF FInv, Phases, CommitPhase, PmPhase, IoctlPhase,
         CommitLabels, ArmSteps, DisarmSteps, Sections
<1>4. PmPhase'
  BY <1>1, <1>2, Seen DEF FInv, Phases, CommitPhase, PmPhase, IoctlPhase,
         CommitLabels, ArmSteps, DisarmSteps, Sections
<1>5. IoctlPhase'
  BY <1>1, <1>2, Seen DEF FInv, Phases, CommitPhase, PmPhase, IoctlPhase,
         CommitLabels, ArmSteps, DisarmSteps, Sections
<1>6. ~torn' => NothingLeft'
  BY <1>1, <1>2, Seen DEF FInv, Phases, CommitPhase, PmPhase, IoctlPhase,
         CommitLabels, ArmSteps, DisarmSteps, Sections, Settled,
         NothingLeft, Walked, Listed, InHand, On, Off, Down
<1>7. ~torn' => Walked'
  BY <1>1, <1>2, Seen DEF FInv, Phases, CommitPhase, PmPhase, IoctlPhase,
         CommitLabels, ArmSteps, DisarmSteps, Sections, Settled,
         NothingLeft, Walked, Listed, InHand, On, Off, Down
<1>8. ~torn' => Listed'
  BY <1>1, <1>2, Seen DEF FInv, Phases, CommitPhase, PmPhase, IoctlPhase,
         CommitLabels, ArmSteps, DisarmSteps, Sections, Settled,
         NothingLeft, Walked, Listed, InHand, On, Off, Down
<1>9. ~torn' => InHand'
  BY <1>1, <1>2, Seen DEF FInv, Phases, CommitPhase, PmPhase, IoctlPhase,
         CommitLabels, ArmSteps, DisarmSteps, Sections, Settled,
         NothingLeft, Walked, Listed, InHand, On, Off, Down
<1> QED BY <1>3, <1>4, <1>5, <1>6, <1>7, <1>8, <1>9 DEF FInv, Phases, Settled

LEMMA EnableWalkFollows ==
  ASSUME IInv, FInv, EnableWalk
  PROVE  FInv'
<1>1. /\ CommitAt = "walk on"
      /\ torn' = (torn \/ IoctlAt = "en add"
                     \/ (IoctlAt = "failed" /\ crtc_lock # "ioctl"))
      /\ UNCHANGED <<enabled, lit, mixers, power_event, node, state,
                     callback, orphans, crtc_lock, refs, power>>
  BY DEF EnableWalk, At, crtc, event, irq, supply, CommitAt, PmAt, IoctlAt
<1>2. /\ CommitAt' = (IF node = "listed" THEN "register" ELSE "power event")
      /\ UNCHANGED <<IoctlAt, PmAt>>
  BY ThreadMoves DEF IInv, EnableWalk, At
<1>3. CommitPhase'
  BY <1>1, <1>2, Seen DEF FInv, Phases, CommitPhase, PmPhase, IoctlPhase,
         CommitLabels, ArmSteps, DisarmSteps, Sections
<1>4. PmPhase'
  BY <1>1, <1>2, Seen DEF FInv, Phases, CommitPhase, PmPhase, IoctlPhase,
         CommitLabels, ArmSteps, DisarmSteps, Sections
<1>5. IoctlPhase'
  BY <1>1, <1>2, Seen DEF FInv, Phases, CommitPhase, PmPhase, IoctlPhase,
         CommitLabels, ArmSteps, DisarmSteps, Sections
<1>6. ~torn' => NothingLeft'
  BY <1>1, <1>2, Seen DEF FInv, Phases, CommitPhase, PmPhase, IoctlPhase,
         CommitLabels, ArmSteps, DisarmSteps, Sections, Settled,
         NothingLeft, Walked, Listed, InHand, On, Off, Down
<1>7. ~torn' => Walked'
  BY <1>1, <1>2, Seen DEF FInv, Phases, CommitPhase, PmPhase, IoctlPhase,
         CommitLabels, ArmSteps, DisarmSteps, Sections, Settled,
         NothingLeft, Walked, Listed, InHand, On, Off, Down
<1>8. ~torn' => Listed'
  BY <1>1, <1>2, Seen DEF FInv, Phases, CommitPhase, PmPhase, IoctlPhase,
         CommitLabels, ArmSteps, DisarmSteps, Sections, Settled,
         NothingLeft, Walked, Listed, InHand, On, Off, Down
<1>9. ~torn' => InHand'
  BY <1>1, <1>2, Seen DEF FInv, Phases, CommitPhase, PmPhase, IoctlPhase,
         CommitLabels, ArmSteps, DisarmSteps, Sections, Settled,
         NothingLeft, Walked, Listed, InHand, On, Off, Down
<1> QED BY <1>3, <1>4, <1>5, <1>6, <1>7, <1>8, <1>9 DEF FInv, Phases, Settled

LEMMA EnableWalkedFollows ==
  ASSUME IInv, FInv, EnableWalked
  PROVE  FInv'
<1>1. /\ CommitAt \in {"done", "failed"}
      /\ lit /\ ~power_event
      /\ UNCHANGED <<enabled, lit, mixers, power_event, node, state,
                     callback, orphans, crtc_lock, refs, power, torn>>
  BY DEF EnableWalked, Returned, crtc, event, irq, supply, history,
         CommitAt, PmAt, IoctlAt, At
<1>2. CommitAt' = "power event" /\ UNCHANGED <<IoctlAt, PmAt>>
  BY ThreadMoves DEF IInv, EnableWalked, Returned
<1>3. CommitPhase'
  BY <1>1, <1>2, Seen DEF FInv, Phases, CommitPhase, PmPhase, IoctlPhase,
         CommitLabels, ArmSteps, DisarmSteps, Sections
<1>4. PmPhase'
  BY <1>1, <1>2, Seen DEF FInv, Phases, CommitPhase, PmPhase, IoctlPhase,
         CommitLabels, ArmSteps, DisarmSteps, Sections
<1>5. IoctlPhase'
  BY <1>1, <1>2, Seen DEF FInv, Phases, CommitPhase, PmPhase, IoctlPhase,
         CommitLabels, ArmSteps, DisarmSteps, Sections
<1>6. ~torn' => NothingLeft'
  BY <1>1, <1>2, Seen DEF FInv, Phases, CommitPhase, PmPhase, IoctlPhase,
         CommitLabels, ArmSteps, DisarmSteps, Sections, Settled,
         NothingLeft, Walked, Listed, InHand, On, Off, Down
<1>7. ~torn' => Walked'
  BY <1>1, <1>2, Seen DEF FInv, Phases, CommitPhase, PmPhase, IoctlPhase,
         CommitLabels, ArmSteps, DisarmSteps, Sections, Settled,
         NothingLeft, Walked, Listed, InHand, On, Off, Down
<1>8. ~torn' => Listed'
  BY <1>1, <1>2, Seen DEF FInv, Phases, CommitPhase, PmPhase, IoctlPhase,
         CommitLabels, ArmSteps, DisarmSteps, Sections, Settled,
         NothingLeft, Walked, Listed, InHand, On, Off, Down
<1>9. ~torn' => InHand'
  BY <1>1, <1>2, Seen DEF FInv, Phases, CommitPhase, PmPhase, IoctlPhase,
         CommitLabels, ArmSteps, DisarmSteps, Sections, Settled,
         NothingLeft, Walked, Listed, InHand, On, Off, Down
<1> QED BY <1>3, <1>4, <1>5, <1>6, <1>7, <1>8, <1>9 DEF FInv, Phases, Settled

LEMMA PowerEventFollows ==
  ASSUME IInv, FInv, PowerEvent
  PROVE  FInv'
<1>1. /\ CommitAt = "power event"
      /\ power_event' = TRUE
      /\ UNCHANGED <<enabled, lit, mixers, node, state, callback, orphans,
                     crtc_lock, refs, power, torn>>
  BY DEF PowerEvent, At, event, irq, supply, history, CommitAt, PmAt, IoctlAt
<1>2. CommitAt' = "end" /\ UNCHANGED <<IoctlAt, PmAt>>
  BY ThreadMoves DEF IInv, PowerEvent, At
<1>3. CommitPhase'
  BY <1>1, <1>2, Seen DEF FInv, Phases, CommitPhase, PmPhase, IoctlPhase,
         CommitLabels, ArmSteps, DisarmSteps, Sections
<1>4. PmPhase'
  BY <1>1, <1>2, Seen DEF FInv, Phases, CommitPhase, PmPhase, IoctlPhase,
         CommitLabels, ArmSteps, DisarmSteps, Sections
<1>5. IoctlPhase'
  BY <1>1, <1>2, Seen DEF FInv, Phases, CommitPhase, PmPhase, IoctlPhase,
         CommitLabels, ArmSteps, DisarmSteps, Sections
<1>6. ~torn' => NothingLeft'
  BY <1>1, <1>2, Seen DEF FInv, Phases, CommitPhase, PmPhase, IoctlPhase,
         CommitLabels, ArmSteps, DisarmSteps, Sections, Settled,
         NothingLeft, Walked, Listed, InHand, On, Off, Down
<1>7. ~torn' => Walked'
  BY <1>1, <1>2, Seen DEF FInv, Phases, CommitPhase, PmPhase, IoctlPhase,
         CommitLabels, ArmSteps, DisarmSteps, Sections, Settled,
         NothingLeft, Walked, Listed, InHand, On, Off, Down
<1>8. ~torn' => Listed'
  BY <1>1, <1>2, Seen DEF FInv, Phases, CommitPhase, PmPhase, IoctlPhase,
         CommitLabels, ArmSteps, DisarmSteps, Sections, Settled,
         NothingLeft, Walked, Listed, InHand, On, Off, Down
<1>9. ~torn' => InHand'
  BY <1>1, <1>2, Seen DEF FInv, Phases, CommitPhase, PmPhase, IoctlPhase,
         CommitLabels, ArmSteps, DisarmSteps, Sections, Settled,
         NothingLeft, Walked, Listed, InHand, On, Off, Down
<1> QED BY <1>3, <1>4, <1>5, <1>6, <1>7, <1>8, <1>9 DEF FInv, Phases, Settled

LEMMA CommitEndFollows ==
  ASSUME IInv, FInv, CommitEnd
  PROVE  FInv'
<1>1. /\ CommitAt = "end"
      /\ refs' = ((refs \ {"commit"}) \union (IF lit THEN {"display"} ELSE {}))
      /\ UNCHANGED <<enabled, lit, mixers, power_event, node, state,
                     callback, orphans, crtc_lock, power, torn>>
  BY DEF CommitEnd, At, crtc, event, irq, history, CommitAt, PmAt, IoctlAt
<1>2. CommitAt' = "idle" /\ UNCHANGED <<IoctlAt, PmAt>>
  BY ThreadMoves DEF IInv, CommitEnd, At
<1>3. CommitPhase'
  BY <1>1, <1>2, Seen DEF FInv, Phases, CommitPhase, PmPhase, IoctlPhase,
         CommitLabels, ArmSteps, DisarmSteps, Sections
<1>4. PmPhase'
  BY <1>1, <1>2, Seen DEF FInv, Phases, CommitPhase, PmPhase, IoctlPhase,
         CommitLabels, ArmSteps, DisarmSteps, Sections
<1>5. IoctlPhase'
  BY <1>1, <1>2, Seen DEF FInv, Phases, CommitPhase, PmPhase, IoctlPhase,
         CommitLabels, ArmSteps, DisarmSteps, Sections
<1>6. ~torn' => NothingLeft'
  BY <1>1, <1>2, Seen DEF FInv, Phases, CommitPhase, PmPhase, IoctlPhase,
         CommitLabels, ArmSteps, DisarmSteps, Sections, Settled,
         NothingLeft, Walked, Listed, InHand, On, Off, Down
<1>7. ~torn' => Walked'
  BY <1>1, <1>2, Seen DEF FInv, Phases, CommitPhase, PmPhase, IoctlPhase,
         CommitLabels, ArmSteps, DisarmSteps, Sections, Settled,
         NothingLeft, Walked, Listed, InHand, On, Off, Down
<1>8. ~torn' => Listed'
  BY <1>1, <1>2, Seen DEF FInv, Phases, CommitPhase, PmPhase, IoctlPhase,
         CommitLabels, ArmSteps, DisarmSteps, Sections, Settled,
         NothingLeft, Walked, Listed, InHand, On, Off, Down
<1>9. ~torn' => InHand'
  BY <1>1, <1>2, Seen DEF FInv, Phases, CommitPhase, PmPhase, IoctlPhase,
         CommitLabels, ArmSteps, DisarmSteps, Sections, Settled,
         NothingLeft, Walked, Listed, InHand, On, Off, Down
<1> QED BY <1>3, <1>4, <1>5, <1>6, <1>7, <1>8, <1>9 DEF FInv, Phases, Settled

-----------------------------------------------------------------------------
LEMMA InitFollows ==
  ASSUME Init
  PROVE  FInv
<1>1. CommitAt = "idle" /\ PmAt = "idle" /\ IoctlAt = "idle"
  BY DEF Init, CommitAt, PmAt, IoctlAt, Masters, Threads
<1>2. /\ enabled = FALSE /\ lit = FALSE /\ mixers = FALSE
      /\ power_event = FALSE /\ node = "none" /\ callback = FALSE
      /\ orphans = 0 /\ crtc_lock = "free" /\ power = "off"
  BY DEF Init
<1>3. Phases
  BY <1>1, <1>2 DEF Phases, CommitPhase, PmPhase, IoctlPhase, CommitLabels,
     ArmSteps, DisarmSteps, Sections
<1>4. NothingLeft /\ Walked /\ Listed /\ InHand
  BY <1>1, <1>2 DEF NothingLeft, Walked, Listed, InHand
<1> QED BY <1>3, <1>4 DEF FInv, Settled

LEMMA NextFollows ==
  ASSUME IInv, FInv, [Next]_vars
  PROVE  FInv'
<1>1. CASE Worker
  BY <1>1, NotifyFollows, NotifyWriteFollows, QuietFollows DEF Worker
<1>2. CASE Ioctl
  BY <1>2, InterruptFollows, EnableGrantedFollows, EnableDoneFollows,
     EnableAddFollows, DisableCheckFollows, DisableGrantedFollows,
     DisableDoneFollows, DisableFailedFollows, GetRefusedFollows
     DEF Ioctl, Threads
<1>3. CASE Pm
  BY <1>3, InterruptFollows, SwitchFollows, PowerLockFollows,
     PowerWalkFollows, PowerWalkedFollows, SwitchedFollows DEF Pm, Threads
<1>4. CASE Commit
  BY <1>4, InterruptFollows, FlipFollows, CrtcDisableFollows, TurnOnFollows,
     DisableWalkFollows, DisableWalkedFollows, CrtcResetFollows,
     ModesetFollows, SetupMixersFollows, ApplyNothingFollows,
     ApplyHistIrqFollows, AppliedHistIrqFollows, CrtcEnableFollows,
     EnableWalkFollows, EnableWalkedFollows, PowerEventFollows,
     CommitEndFollows
     DEF Commit, Threads
<1>5. CASE UNCHANGED vars
  <2>1. Unseen
    BY <1>5 DEF vars, crtc, event, supply, history, Unseen, CommitAt, PmAt,
       IoctlAt
  <2> QED BY <2>1, UnseenFollows
<1> QED
  BY <1>1, <1>2, <1>3, <1>4, <1>5, QuietFollows, EventEnableFollows,
     EventDisableFollows, CommitStartFollows DEF Next

(* Where each of the three threads is says what it has done to the CRTC,   *)
(* the power and the event, and, unless a registration has overlapped a    *)
(* modeset, the event is at every step as the walks over the list have     *)
(* left it.                                                                *)
THEOREM EventFollows == Spec => [](IInv /\ FInv)
<1>1. Init => IInv /\ FInv
  BY InitInv, InitFollows
<1>2. IInv /\ FInv /\ [Next]_vars => IInv' /\ FInv'
  BY NextInv, NextFollows
<1> QED BY <1>1, <1>2, PTL DEF Spec

(* Between commits and power switches a listed histogram event is armed,   *)
(* or disarmed by its own worker, exactly when its CRTC is lit and         *)
(* powered, and a deregistered one leaves neither callback nor count       *)
(* behind, unless a (de)registration has overlapped a modeset in one of    *)
(* the ways torn names (sde_color_processing.c, sde_crtc.c).               *)
THEOREM CrtcFollowed == Spec => []FollowsCrtc
<1>1. ASSUME IInv, FInv
      PROVE  FollowsCrtc
  <2>1. SUFFICES ASSUME ~torn, CommitAt = "idle", PmAt = "idle"
                 PROVE  /\ node = "listed" =>
                             IF lit /\ power = "on"
                             THEN callback /\ state \in {"ENABLED", "DISABLED"}
                             ELSE ~callback /\ state = "NOINIT" /\ count = 0
                        /\ node = "none" =>
                             ~callback /\ count = 0 /\ orphans = 0
    BY DEF FollowsCrtc, At, CommitAt, PmAt
  <2>2. NothingLeft /\ Listed
    BY <1>1, <2>1 DEF FInv, Settled
  <2>3. power \in {"on", "off"} /\ (lit <=> power_event)
    BY <1>1, <2>1 DEF FInv, Phases, CommitPhase, PmPhase
  <2>4. node # "held" => IoctlAt = "idle"
    BY <1>1, Seen
  <2>5. node # "held" /\ state = "NOINIT" => count = 0
    <3>1. SUFFICES ASSUME node # "held", state = "NOINIT"
                   PROVE  count = 0
      OBVIOUS
    <3>2. \A a \in Threads : pc[a] \notin {"mask on", "write on", "mask off"}
      BY <2>1, <2>4, <3>1 DEF Threads, CommitAt, PmAt, IoctlAt
    <3>3. ~Owned
      BY <3>1, <3>2 DEF Owned
    <3>4. orphans = 0
      BY <2>2 DEF NothingLeft
    <3> QED BY <1>1, <3>3, <3>4 DEF IInv, Counts
  <2>6. node = "listed" => IF lit /\ power = "on" THEN On ELSE Off
    BY <2>1, <2>2, <2>3 DEF Listed, Down
  <2>7. node = "none" => ~callback /\ state = "NOINIT" /\ orphans = 0
    BY <1>1, <2>2, Seen DEF NothingLeft
  <2>8. node \in {"none", "listed", "held"}
    BY <1>1, Types DEF IInv, EventType
  <2> QED BY <2>5, <2>6, <2>7, <2>8 DEF On, Off
<1> QED BY <1>1, EventFollows, PTL

(* A counted interrupt has the callback of its event to run: the callback  *)
(* of a freed node stands in for it only where a deregistration has        *)
(* overlapped a modeset or been refused the power (sde_core_irq.c:49).     *)
THEOREM NeverSilent == Spec => []NoSilentIrq
<1>1. ASSUME IInv, FInv
      PROVE  NoSilentIrq
  <2>1. count > 0 => callback \/ orphans > 0
    BY <1>1, CountedCalled
  <2>2. ~torn => orphans = 0
    BY <1>1 DEF FInv, Settled, NothingLeft
  <2>3. torn \in BOOLEAN
    BY <1>1, Types DEF IInv, RestType
  <2> QED BY <2>1, <2>2, <2>3 DEF NoSilentIrq
<1> QED BY <1>1, EventFollows, PTL

=============================================================================
