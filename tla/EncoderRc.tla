----------------------------- MODULE EncoderRc -----------------------------
(***************************************************************************)
(* Resource control of one virtual encoder (msm/sde/sde_encoder.c): the    *)
(* OFF / PRE_OFF / ON / MODESET / IDLE machine under rc_lock that votes    *)
(* for clocks, interrupts, CPU latency and the RSC, and the threads that   *)
(* drive it:                                                               *)
(*   - the display thread of the CRTC, one kthread worker that runs        *)
(*     commits, the delayed off work and the early wakeup works in turn;   *)
(*   - the event thread, the worker that runs frame events and the         *)
(*     kickoff an ESD failure asks for;                                    *)
(*   - the reporters of a dead panel: the connector's status work and the  *)
(*     panel's ESD interrupt thread;                                       *)
(*   - system suspend, which asks for idle itself.                         *)
(* A resource control event runs under rc_lock from end to end, so it is   *)
(* one action, but for the command-mode idle entry: it flushes the event   *)
(* thread with the lock held.                                              *)
(***************************************************************************)
EXTENDS Integers, Sequences, FiniteSets

CONSTANTS
  StatusWork,   \* the connector's ESD status work, or None
  EsdIrq,       \* the panel's ESD interrupt thread, or None
  Primaries,    \* may the display be SDE_CONNECTOR_PRIMARY, and may it not?
  Modes,        \* panel modes the display can run in
  DmsModes,     \* panel modes in which the user asks for seamless DMS
  Faulty,       \* may a vote for power fail?
  None          \* no thread

Reporters == {StatusWork, EsdIrq} \ {None}
Disp == "disp"
Suspend == "suspend"

ASSUME ModesAssumption ==
  /\ Modes \subseteq {"cmd", "vid"}
  /\ DmsModes \subseteq Modes
ASSUME ThreadsAssumption ==
  /\ Reporters \cap {Disp, Suspend} = {}
  /\ None \notin {Disp, Suspend}
ASSUME FlagsAssumption == Primaries \subseteq BOOLEAN /\ Faulty \in BOOLEAN

VARIABLES
  primary,        \* is the display SDE_CONNECTOR_PRIMARY?
  mode,           \* disp_info.curr_panel_mode
  active,         \* the CRTC is enabled
  rc_state,       \* sde_enc->rc_state
  rc_lock,        \* holder of sde_enc->rc_lock while it sleeps, or None
  clk,            \* the encoder's votes for the MDP and the DSI clocks
  irq,            \* sde_encoder_irq_control(true) minus (false)
  qos,            \* CPU latency requests added and not removed
  rsc,            \* the RSC client is asked for an active state
  timer,          \* delayed_off_work is pending
  idle_pc,        \* sde_enc->idle_pc_enabled
  frame_pending,  \* sde_crtc->frame_pending
  in_flight,      \* pending_kickoff_cnt: frames triggered and not yet ended
  late,           \* who has written a frame off and not sent its event yet
  kickoff,        \* sde_crtc->kickoff_in_progress
  disp,           \* what the display thread is doing
  suspend,        \* what system suspend is doing
  queue,          \* the works queued on the event thread
  reporter,       \* what each reporter of a dead panel is doing
  status_check,   \* the connector's esd_status_check
  esd_pending,    \* panel->esd_recovery_pending
  panel_dead,     \* sde_conn->panel_dead
  delay_kickoff   \* sde_enc->delay_kickoff

votes == <<clk, irq, qos, rsc>>
rc == <<rc_state, votes>>
frames == <<frame_pending, in_flight, late, kickoff>>
esd == <<reporter, status_check, esd_pending, panel_dead, delay_kickoff>>
crtc == <<primary, mode, active, idle_pc>>
vars == <<crtc, rc, rc_lock, timer, frames, disp, suspend, queue, esd>>


(* A queued work is a frame event, the ESD kickoff, or the marker by which *)
(* a flusher of the worker learns that everything before it has run.       *)
Works == {"frame", "esd", Disp, Suspend}
Queued(w) == \E n \in 1 .. Len(queue) : queue[n] = w

DispSteps == {"idle", "commit", "prepare", "kickoff", "launch", "launch_failed",
              "commit_done",
              "pre_modeset", "post_modeset", "reinit", "enable",
              "flush_events", "flush", "drain", "kickoff_off",
              "pre_stop", "pre_stop_rc", "stop", "off"}

Init ==
  /\ primary \in Primaries
  /\ mode \in Modes
  /\ active = FALSE
  /\ idle_pc = TRUE
  /\ rc_state = "OFF"
  /\ clk = 0
  /\ irq = 0
  /\ qos = 0
  /\ rsc = FALSE
  /\ rc_lock = None
  /\ timer = FALSE
  /\ frame_pending = 0
  /\ in_flight = 0
  /\ late = {}
  /\ kickoff = FALSE
  /\ disp = "idle"
  /\ suspend = "idle"
  /\ queue = <<>>
  /\ reporter = [r \in Reporters \union {Disp} |-> "idle"]
  /\ status_check = FALSE
  /\ esd_pending = FALSE
  /\ panel_dead = FALSE
  /\ delay_kickoff = FALSE

-----------------------------------------------------------------------------
(* Resource control events.  Each is a predicate on rc, rc_lock and timer; *)
(* the actions below say which thread runs it.                             *)

(* _sde_encoder_resource_control_helper.  A vote for power that fails half *)
(* way is withdrawn before the helper returns.                             *)
PowerUp ==
  /\ clk' = clk + 1
  /\ irq' = irq + 1
  /\ qos' = qos + 1
PowerDown ==
  /\ clk' = clk - 1
  /\ irq' = irq - 1
  /\ qos' = 0

(* _sde_encoder_rc_restart_delayed returns early during ESD handling.      *)
RestartTimer == timer' = (timer \/ ~delay_kickoff)

(* Mutant of RcKickoff: an idle encoder is taken for one that is on.       *)
RcKickoffIdleIsOn ==
  /\ rc_lock = None
  /\ RestartTimer
  /\ \/ rc_state # "OFF" /\ UNCHANGED rc
     \/ rc_state = "OFF" /\ PowerUp /\ rsc' = TRUE /\ rc_state' = "ON"

(* _sde_encoder_rc_kickoff.  In PRE_OFF and MODESET it logs an error and   *)
(* reports success; the off work is restarted on every path.               *)
RcKickoff ==
  /\ rc_lock = None
  /\ RestartTimer
  /\ \/ /\ rc_state \in {"ON", "PRE_OFF", "MODESET"}
        /\ UNCHANGED rc
     \/ /\ rc_state = "IDLE" /\ mode = "vid"
        /\ irq' = irq + 1
        /\ qos' = qos + 1
        /\ rc_state' = "ON"
        /\ UNCHANGED <<clk, rsc>>
     \/ /\ rc_state = "OFF" \/ (rc_state = "IDLE" /\ mode = "cmd")
        /\ PowerUp
        /\ rsc' = TRUE
        /\ rc_state' = "ON"
RcKickoffFails ==
  /\ rc_lock = None
  /\ RestartTimer
  /\ rc_state = "OFF" \/ (rc_state = "IDLE" /\ mode = "cmd")
  /\ Faulty
  /\ UNCHANGED rc

(* Mutant of RcPreStop: the interrupts of an idle video panel stay off.    *)
RcPreStopIrqsLeftOff ==
  /\ rc_lock = None
  /\ IF rc_state = "OFF" \/ (rc_state = "IDLE" /\ mode = "cmd")
       THEN UNCHANGED rc
       ELSE rsc' = FALSE /\ rc_state' = "PRE_OFF" /\ UNCHANGED <<clk, irq, qos>>

(* _sde_encoder_rc_pre_stop, after the off work was cancelled.             *)
RcPreStop ==
  /\ rc_lock = None
  /\ IF rc_state = "OFF" \/ (rc_state = "IDLE" /\ mode = "cmd")
       THEN UNCHANGED rc
       ELSE /\ irq' = IF rc_state = "IDLE" THEN irq + 1 ELSE irq
            /\ rsc' = FALSE
            /\ rc_state' = "PRE_OFF"
            /\ UNCHANGED <<clk, qos>>

(* Mutants of RcStop: power is dropped from IDLE too; IDLE is left as it is.*)
RcStopDropsTwice ==
  /\ rc_lock = None
  /\ IF rc_state \in {"PRE_OFF", "IDLE"}
       THEN PowerDown /\ rc_state' = "OFF" /\ UNCHANGED rsc
       ELSE UNCHANGED rc
RcStopIgnoresIdle ==
  /\ rc_lock = None
  /\ IF rc_state = "PRE_OFF"
       THEN PowerDown /\ rc_state' = "OFF" /\ UNCHANGED rsc
       ELSE UNCHANGED rc

(* _sde_encoder_rc_stop.                                                   *)
RcStop ==
  /\ rc_lock = None
  /\ CASE rc_state = "PRE_OFF" ->
              PowerDown /\ rc_state' = "OFF" /\ UNCHANGED rsc
       [] rc_state = "IDLE" -> rc_state' = "OFF" /\ UNCHANGED votes
       [] OTHER -> UNCHANGED rc

(* _sde_encoder_rc_pre_modeset.  It powers up from every state but OFF and *)
(* ON, and may fail to.                                                    *)
RcPreModesetFails ==
  /\ rc_lock = None
  /\ Faulty
  /\ rc_state \notin {"OFF", "ON"}
  /\ UNCHANGED rc
RcPreModeset ==
  /\ rc_lock = None
  /\ IF rc_state = "OFF"
       THEN UNCHANGED rc
       ELSE /\ IF rc_state = "ON"
                 THEN UNCHANGED <<clk, irq, rsc>>
                 ELSE /\ clk' = clk + 1
                      /\ irq' = irq + 1
                      /\ rsc' = TRUE
            /\ qos' = 0
            /\ rc_state' = "MODESET"

(* _sde_encoder_rc_post_modeset.                                           *)
RcPostModeset ==
  /\ rc_lock = None
  /\ IF rc_state = "MODESET"
       THEN /\ rsc' = TRUE
            /\ qos' = qos + 1
            /\ rc_state' = "ON"
            /\ UNCHANGED <<clk, irq>>
       ELSE UNCHANGED rc

(* _sde_encoder_rc_idle up to its decision: skip (at once, if the CRTC is  *)
(* off), skip and try again, enter idle (a video panel), or keep rc_lock,  *)
(* flush the event thread, and enter idle then.                            *)
MayIdle == active /\ ~panel_dead /\ rc_state = "ON"
(* Mutants of Busy: only the commit in progress counts; zero counts too.   *)
BusyWithKickoff == kickoff
BusyAtZero == frame_pending >= 0 \/ kickoff
Busy == frame_pending > 0 \/ kickoff
RcIdleSkipped ==
  /\ ~idle_pc \/ ~active \/ (rc_lock = None /\ (~MayIdle \/ Busy))
  /\ UNCHANGED <<rc, rc_lock, queue>>
RcIdleRestarts == idle_pc /\ MayIdle /\ ~delay_kickoff
RcIdleVideo ==
  /\ rc_lock = None
  /\ idle_pc /\ MayIdle /\ ~Busy /\ mode = "vid"
  /\ irq' = irq - 1
  /\ qos' = 0
  /\ rc_state' = "IDLE"
  /\ UNCHANGED <<clk, rsc, rc_lock, queue>>
RcIdleDecided(t) ==
  /\ rc_lock = None
  /\ idle_pc /\ MayIdle /\ ~Busy /\ mode = "cmd"
  /\ rc_lock' = t
  /\ UNCHANGED <<rc, queue>>
RcIdleFlush(t) ==
  /\ rc_lock = t
  /\ queue' = Append(queue, t)
RcIdleFlushed(t) ==
  /\ rc_lock = t
  /\ ~Queued(t)
  /\ PowerDown
  /\ rsc' = FALSE
  /\ rc_state' = "IDLE"
  /\ rc_lock' = None

(* _sde_encoder_rc_early_wakeup.  It sets the timer itself.                *)
RcEarlyWakeup ==
  \/ /\ \/ ~idle_pc \/ ~active
        \/ rc_lock = None /\ rc_state \notin {"ON", "IDLE"}
     /\ UNCHANGED <<rc, timer>>
  \/ /\ rc_lock = None /\ idle_pc /\ active /\ rc_state = "ON"
     /\ timer' = (timer \/ frame_pending = 0)
     /\ UNCHANGED rc
  \/ /\ rc_lock = None /\ idle_pc /\ active /\ rc_state = "IDLE"
     /\ PowerUp
     /\ rsc' = TRUE
     /\ rc_state' = "ON"
     /\ timer' = TRUE
  \/ /\ rc_lock = None /\ idle_pc /\ active /\ rc_state = "IDLE"
     /\ Faulty
     /\ UNCHANGED <<rc, timer>>

-----------------------------------------------------------------------------
(* The display thread: a commit on an active CRTC.                         *)

(* A new commit is queued under the modeset locks, which suspend holds.    *)
MayCommit == disp = "idle" /\ suspend = "idle"

(* sde_crtc_commit_kickoff.  Powering the panel enabled its status work.   *)
StartCommit ==
  /\ \/ MayCommit /\ active
     \/ disp = "commit"
  /\ kickoff' = TRUE
  /\ status_check' = (StatusWork # None)
  /\ disp' = "prepare"
  /\ UNCHANGED <<crtc, rc, rc_lock, timer, frame_pending, in_flight, late,
                 suspend, queue, reporter, esd_pending, panel_dead,
                 delay_kickoff>>

(* The display thread waits for the frames it has triggered: before the    *)
(* next kickoff, at the end of a commit, and in virt_disable.  Before a    *)
(* posted-start kickoff a command panel does not wait, and at the end of   *)
(* the commit it lets one frame overlap the next commit.  A frame that does*)
(* not end in time is written off, and the waiter sends its frame event.   *)
(* Of a command panel the suspending thread waits for the transfer as well,*)
(* and so does the reporter of a dead panel once its work has run.         *)
Waits == {"prepare", "commit_done", "drain"}
AfterWait ==
  CASE disp = "prepare" -> "kickoff"
    [] disp = "commit_done" -> "idle"
    [] disp = "drain" -> IF primary THEN "pre_stop" ELSE "kickoff_off"
MayLeaveInFlight ==
  CASE disp = "prepare" -> IF mode = "cmd" THEN 1 ELSE 0
    [] disp = "commit_done" -> IF mode = "cmd" THEN 1 ELSE 0
    [] disp = "drain" -> 0
WaitEnds ==
  /\ disp \in Waits
  /\ in_flight <= MayLeaveInFlight
  /\ reporter[Disp] = "idle" /\ Disp \notin late
  /\ disp' = AfterWait
  /\ UNCHANGED <<crtc, rc, rc_lock, timer, frames, suspend, queue, esd>>

(* The display thread and suspend never wait at the same time: Disp stands *)
(* for the one that does.                                                  *)
FrameWaiter == disp \in Waits \/ (suspend = "wait" /\ mode = "cmd")
FlushedReporter(r) == reporter[r] = "flush" /\ ~Queued("esd") /\ mode = "cmd"
Waiting(w) == IF w = Disp THEN FrameWaiter /\ reporter[Disp] = "idle"
                          ELSE FlushedReporter(w)

(* The waiter takes the frame off the count first ...                      *)
WaitTimeout(w) ==
  /\ Waiting(w)
  /\ w \notin late
  /\ in_flight > 0
  /\ in_flight' = in_flight - 1
  /\ late' = late \union {w}
  /\ UNCHANGED <<crtc, rc, rc_lock, timer, frame_pending, kickoff, disp,
                 suspend, queue, esd>>

(* Mutant of TimeoutReported: no event for the frame written off.          *)
TimeoutSilent(w) ==
  /\ w \in late
  /\ w = Disp => reporter[Disp] = "idle"
  /\ late' = late \ {w}
  /\ UNCHANGED <<crtc, rc, rc_lock, timer, frame_pending, in_flight, kickoff,
                 disp, suspend, queue, esd>>

(* ... asks whether the panel is dead (Detect, for a command panel), which *)
(* may take long, and sends the frame event then.  It sends it whether the *)
(* panel answers or not.  The pending_kickoff_cnt = 0 of a kickoff whose   *)
(* wait has failed changes nothing: at most one frame was in flight.       *)
TimeoutReported(w) ==
  /\ w \in late
  /\ w = Disp => reporter[Disp] = "idle"
  /\ late' = late \ {w}
  /\ queue' = Append(queue, "frame")
  /\ UNCHANGED <<crtc, rc, rc_lock, timer, frame_pending, in_flight, kickoff,
                 disp, suspend, esd>>

(* RC KICKOFF at the end of prepare_for_kickoff, in virt_enable, and in    *)
(* virt_disable of a display that is not primary.  prepare_for_kickoff     *)
(* reports that it failed; the frame is triggered all the same.            *)
DispKickoff ==
  /\ \/ disp = "kickoff" /\ RcKickoff /\ disp' = "launch"
     \/ disp = "kickoff" /\ RcKickoffFails /\ disp' = "launch_failed"
     \/ disp = "enable" /\ (RcKickoff \/ RcKickoffFails) /\ disp' = "commit"
     \/ disp = "kickoff_off" /\ (RcKickoff \/ RcKickoffFails) /\ disp' = "pre_stop"
  /\ UNCHANGED <<crtc, rc_lock, frames, suspend, queue, esd>>

(* The user's idle_pc property takes effect, the events of earlier frames  *)
(* are flushed, and the frame is counted and triggered.                    *)
Launch ==
  /\ disp \in {"launch", "launch_failed"}
  /\ ~Queued("frame")
  /\ idle_pc' \in BOOLEAN
  /\ frame_pending' = frame_pending + 1
  /\ in_flight' = in_flight + 1
  /\ kickoff' = FALSE
  /\ disp' = "commit_done"
  /\ UNCHANGED <<primary, mode, active, rc, rc_lock, timer, late, suspend,
                 queue, esd>>

(* A seamless mode switch: virt_mode_set cancels the off work, moves the   *)
(* resource control through MODESET, and virt_enable and the commit follow.*)
StartModeset ==
  /\ MayCommit
  /\ active
  /\ mode \in DmsModes
  /\ timer' = FALSE
  /\ disp' = "pre_modeset"
  /\ UNCHANGED <<crtc, rc, rc_lock, frames, suspend, queue, esd>>
PreModeset ==
  /\ disp = "pre_modeset"
  /\ \/ RcPreModeset /\ disp' = "post_modeset"
     \/ RcPreModesetFails /\ disp' = "enable"
  /\ UNCHANGED <<crtc, rc_lock, timer, frames, suspend, queue, esd>>
PostModeset ==
  /\ disp = "post_modeset"
  /\ RcPostModeset
  /\ disp' = "enable"
  /\ UNCHANGED <<crtc, rc_lock, timer, frames, suspend, queue, esd>>

(* Power on, with the panel in a mode of the user's choice.  virt_mode_set,*)
(* which cancels the off work, only runs when the mode has changed.        *)
StartEnable ==
  /\ MayCommit
  /\ ~active
  /\ active' = TRUE
  /\ mode' \in Modes
  /\ timer' \in {timer, FALSE}
  /\ mode' # mode => ~timer'
  /\ esd_pending' = FALSE
  /\ disp' = "reinit"
  /\ UNCHANGED <<primary, idle_pc, rc, rc_lock, frames, suspend, queue, reporter,
                 status_check, panel_dead, delay_kickoff>>
(* virt_enable initialises delayed_off_work afresh.                        *)
Reinit ==
  /\ disp = "reinit"
  /\ timer' = FALSE
  /\ disp' = "enable"
  /\ UNCHANGED <<crtc, rc, rc_lock, frames, suspend, queue, esd>>

(* Power off.  The status work is cancelled first (and waited for).        *)
StartDisable ==
  /\ MayCommit
  /\ active
  /\ StatusWork # None => reporter[StatusWork] = "idle"
  /\ status_check' = FALSE
  /\ disp' = "drain"
  /\ UNCHANGED <<crtc, rc, rc_lock, timer, frames, suspend, queue, reporter,
                 esd_pending, panel_dead, delay_kickoff>>
(* Mutant of PreStopCancel: the off work stays pending.                    *)
PreStopNoCancel ==
  /\ disp = "pre_stop"
  /\ disp' = "pre_stop_rc"
  /\ UNCHANGED <<crtc, rc, rc_lock, timer, frames, suspend, queue, esd>>
PreStopCancel ==
  /\ disp = "pre_stop"
  /\ timer' = FALSE
  /\ disp' = "pre_stop_rc"
  /\ UNCHANGED <<crtc, rc, rc_lock, frames, suspend, queue, esd>>
PreStop ==
  /\ disp = "pre_stop_rc"
  /\ RcPreStop
  /\ disp' = "stop"
  /\ UNCHANGED <<crtc, rc_lock, timer, frames, suspend, queue, esd>>
Stop ==
  /\ disp = "stop"
  /\ RcStop
  /\ disp' = "off"
  /\ UNCHANGED <<crtc, rc_lock, timer, frames, suspend, queue, esd>>
(* The panel's bridge is disabled for good, then sde_crtc_disable flushes  *)
(* the event thread and writes off what is still pending.                  *)
CrtcOff ==
  /\ disp = "off"
  /\ queue = <<>>
  /\ active' = FALSE
  /\ idle_pc' = TRUE
  /\ frame_pending' = 0
  /\ panel_dead' = FALSE
  /\ disp' = "idle"
  /\ UNCHANGED <<primary, mode, rc, rc_lock, timer, in_flight, late, kickoff,
                 suspend, queue, reporter, status_check, esd_pending,
                 delay_kickoff>>

(* The works the display thread runs between commits: the off work, when   *)
(* its timer has expired, and the two early wakeup works, which only a     *)
(* command mode panel queues.                                              *)
OffWork ==
  /\ disp = "idle"
  /\ timer
  /\ \/ RcIdleSkipped /\ timer' = RcIdleRestarts /\ UNCHANGED disp
     \/ RcIdleVideo /\ timer' = FALSE /\ UNCHANGED disp
     \/ RcIdleDecided(Disp) /\ timer' = FALSE /\ disp' = "flush_events"
  /\ UNCHANGED <<crtc, frames, suspend, esd>>
OffWorkFlush ==
  /\ disp = "flush_events"
  /\ RcIdleFlush(Disp)
  /\ disp' = "flush"
  /\ UNCHANGED <<crtc, rc, rc_lock, timer, frames, suspend, esd>>
OffWorkFlushed ==
  /\ disp = "flush"
  /\ RcIdleFlushed(Disp)
  /\ disp' = "idle"
  /\ UNCHANGED <<crtc, timer, frames, suspend, queue, esd>>
EarlyWakeup ==
  /\ disp = "idle"
  /\ mode = "cmd"
  /\ RcEarlyWakeup
  /\ UNCHANGED <<crtc, rc_lock, frames, disp, suspend, queue, esd>>

-----------------------------------------------------------------------------
(* Frame-done interrupts and the event thread.                             *)

(* The interrupt of a frame only comes while the encoder's are enabled.    *)
FrameDone ==
  /\ in_flight > 0
  /\ irq > 0
  /\ in_flight' = in_flight - 1
  /\ queue' = Append(queue, "frame")
  /\ UNCHANGED <<crtc, rc, rc_lock, timer, frame_pending, late, kickoff, disp,
                 suspend, esd>>

FrameWork ==
  /\ queue # <<>> /\ Head(queue) = "frame"
  /\ queue' = Tail(queue)
  /\ frame_pending' = IF frame_pending > 0 THEN frame_pending - 1 ELSE 0
  /\ UNCHANGED <<crtc, rc, rc_lock, timer, in_flight, late, kickoff, disp,
                 suspend, esd>>

(* sde_encoder_esd_trigger_work_handler.                                   *)
EsdWork ==
  /\ queue # <<>> /\ Head(queue) = "esd"
  /\ queue' = Tail(queue)
  /\ RcKickoff \/ RcKickoffFails
  /\ UNCHANGED <<crtc, rc_lock, frames, disp, suspend, esd>>

FlushMarker ==
  /\ queue # <<>> /\ Head(queue) \in {Disp, Suspend}
  /\ queue' = Tail(queue)
  /\ UNCHANGED <<crtc, rc, rc_lock, timer, frames, disp, suspend, esd>>

-----------------------------------------------------------------------------
(* A panel that stops answering.                                           *)

(* A check, or the interrupt, finds the panel dead.  Under the panel lock  *)
(* it is the first to do so since the last power on.                       *)
Detect(r) ==
  /\ reporter[r] = "idle"
  /\ active
  /\ ~esd_pending
  /\ \/ r = StatusWork /\ status_check
     \/ r = EsdIrq /\ ~panel_dead
     \/ /\ r = Disp /\ FrameWaiter /\ mode = "cmd"
        /\ in_flight > 0 \/ Disp \in late
  /\ esd_pending' = TRUE
  /\ reporter' = [reporter EXCEPT ![r] = "found"]
  /\ UNCHANGED <<crtc, rc, rc_lock, timer, frames, disp, suspend, queue,
                 status_check, panel_dead, delay_kickoff>>

(* sde_connector_esd_status, which a waiter for a late frame calls (the    *)
(* display thread or suspend, never both), cancels the status work before  *)
(* it reports.                                                             *)
DispCancels ==
  /\ reporter[Disp] = "found"
  /\ StatusWork # None => reporter[StatusWork] = "idle"
  /\ status_check' = FALSE
  /\ reporter' = [reporter EXCEPT ![Disp] = "report"]
  /\ UNCHANGED <<crtc, rc, rc_lock, timer, frames, disp, suspend, queue,
                 esd_pending, panel_dead, delay_kickoff>>

(* _sde_connector_report_panel_dead reads the flag ...                     *)
CheckDead(r) ==
  /\ reporter[r] = IF r = Disp THEN "report" ELSE "found"
  /\ reporter' =
       [reporter EXCEPT ![r] = IF panel_dead THEN "idle" ELSE "notify"]
  /\ UNCHANGED <<crtc, rc, rc_lock, timer, frames, disp, suspend, queue,
                 status_check, esd_pending, panel_dead, delay_kickoff>>

(* ... and sets it, and notifies the encoder: the kickoff is delayed and   *)
(* the event thread asked to power up, unless the display thread reports   *)
(* or the encoder has already left its CRTC.                               *)
Notify(r) ==
  /\ reporter[r] = "notify"
  /\ panel_dead' = TRUE
  /\ IF r = Disp \/ ~active \/ disp = "off"
       THEN /\ reporter' = [reporter EXCEPT ![r] = "idle"]
            /\ UNCHANGED <<delay_kickoff, queue>>
       ELSE /\ reporter' = [reporter EXCEPT ![r] = "flush"]
            /\ delay_kickoff' = TRUE
            /\ queue' = IF Queued("esd") THEN queue ELSE Append(queue, "esd")
  /\ UNCHANGED <<crtc, rc, rc_lock, timer, frames, disp, suspend,
                 status_check, esd_pending>>

(* The reporter waits for that work, then (for a bounded time) for the     *)
(* transfer in progress.                                                   *)
EsdFlushed(r) ==
  /\ reporter[r] = "flush"
  /\ ~Queued("esd")
  /\ r \notin late
  /\ delay_kickoff' = FALSE
  /\ reporter' = [reporter EXCEPT ![r] = "idle"]
  /\ UNCHANGED <<crtc, rc, rc_lock, timer, frames, disp, suspend, queue,
                 status_check, esd_pending, panel_dead>>

-----------------------------------------------------------------------------
(* System suspend: _sde_kms_pm_suspend_idle_helper.  It holds the modeset  *)
(* locks, flushes the display thread, waits for the last transfer, flushes *)
(* the event thread and asks for idle.                                     *)

SuspendEnter ==
  /\ suspend = "idle"
  /\ disp = "idle"
  /\ suspend' = "wait"
  /\ UNCHANGED <<crtc, rc, rc_lock, timer, frames, disp, queue, esd>>
SuspendWait ==
  /\ suspend = "wait"
  /\ reporter[Disp] = "idle" /\ Disp \notin late
  /\ \/ in_flight = 0 /\ suspend' = "request" /\ queue' = Append(queue, Suspend)
     \/ suspend' = "idle" /\ UNCHANGED queue
  /\ UNCHANGED <<crtc, rc, rc_lock, timer, frames, disp, esd>>
SuspendRequest ==
  /\ suspend = "request"
  /\ ~Queued(Suspend)
  /\ \/ RcIdleSkipped /\ timer' = (timer \/ RcIdleRestarts) /\ suspend' = "idle"
     \/ RcIdleVideo /\ UNCHANGED timer /\ suspend' = "idle"
     \/ RcIdleDecided(Suspend) /\ UNCHANGED timer /\ suspend' = "flush_events"
  /\ UNCHANGED <<crtc, frames, disp, esd>>
SuspendFlush ==
  /\ suspend = "flush_events"
  /\ RcIdleFlush(Suspend)
  /\ suspend' = "flush"
  /\ UNCHANGED <<crtc, rc, rc_lock, timer, frames, disp, esd>>
SuspendFlushed ==
  /\ suspend = "flush"
  /\ RcIdleFlushed(Suspend)
  /\ suspend' = "idle"
  /\ UNCHANGED <<crtc, timer, frames, disp, queue, esd>>

-----------------------------------------------------------------------------
(* What users start, and what the driver then does by itself.              *)
UserStep ==
  \/ disp = "idle" /\ StartCommit
  \/ StartModeset
  \/ StartEnable
  \/ StartDisable
  \/ EarlyWakeup
  \/ SuspendEnter

CommitStep ==
  \/ disp = "commit" /\ StartCommit
  \/ WaitEnds
  \/ DispKickoff
  \/ Launch
  \/ PreModeset
  \/ PostModeset
  \/ Reinit
  \/ PreStopCancel
  \/ PreStop
  \/ Stop
  \/ CrtcOff

EventStep == FrameWork \/ EsdWork \/ FlushMarker
ReportStep(r) == CheckDead(r) \/ Notify(r) \/ EsdFlushed(r)
WaitStep(w) == WaitTimeout(w) \/ TimeoutReported(w)
SuspendStep == SuspendWait \/ SuspendRequest \/ SuspendFlush \/ SuspendFlushed

Next ==
  \/ UserStep
  \/ CommitStep
  \/ OffWork \/ OffWorkFlush \/ OffWorkFlushed
  \/ FrameDone
  \/ EventStep
  \/ DispCancels
  \/ \E r \in DOMAIN reporter : Detect(r) \/ ReportStep(r) \/ WaitStep(r)
  \/ SuspendStep

Spec == Init /\ [][Next]_vars

(* The workers run what is queued, timers expire, frames that were started *)
(* with the interrupts on complete, waits time out, and the reporters keep *)
(* running.                                                                *)
Fairness ==
  /\ WF_vars(CommitStep)
  /\ WF_vars(OffWork)
  /\ WF_vars(OffWorkFlush \/ OffWorkFlushed)
  /\ WF_vars(FrameDone)
  /\ WF_vars(EventStep)
  /\ WF_vars(DispCancels)
  /\ \A r \in Reporters \union {Disp} :
       WF_vars(ReportStep(r)) /\ WF_vars(WaitStep(r))
  /\ WF_vars(SuspendStep)

FairSpec == Spec /\ Fairness

-----------------------------------------------------------------------------
(* Properties.                                                             *)

TypeOK ==
  /\ primary \in BOOLEAN
  /\ mode \in Modes
  /\ active \in BOOLEAN
  /\ rc_state \in {"OFF", "PRE_OFF", "ON", "MODESET", "IDLE"}
  /\ rc_lock \in {None, Disp, Suspend}
  /\ clk \in Nat
  /\ irq \in Nat
  /\ qos \in Nat
  /\ rsc \in BOOLEAN
  /\ timer \in BOOLEAN
  /\ idle_pc \in BOOLEAN
  /\ frame_pending \in Nat
  /\ in_flight \in Nat
  /\ late \subseteq Reporters \union {Disp}
  /\ kickoff \in BOOLEAN
  /\ disp \in DispSteps
  /\ suspend \in {"idle", "wait", "request", "flush_events", "flush"}
  /\ queue \in Seq(Works)
  /\ reporter \in [Reporters \union {Disp} ->
                    {"idle", "found", "report", "notify", "flush"}]
  /\ status_check \in BOOLEAN
  /\ esd_pending \in BOOLEAN
  /\ panel_dead \in BOOLEAN
  /\ delay_kickoff \in BOOLEAN

(* However the events of the threads interleave and whichever votes fail,  *)
(* the encoder holds exactly the votes its state stands for: one for the   *)
(* clocks and the interrupts while it is on, none when it is off, the      *)
(* clocks alone for an idle video panel.  The three stop, modeset and idle *)
(* paths and their error paths all have to agree on this.                  *)
ClocksOn ==
  \/ rc_state \in {"PRE_OFF", "ON", "MODESET"}
  \/ rc_state = "IDLE" /\ mode = "vid"
IrqsOn == rc_state \in {"PRE_OFF", "ON", "MODESET"}
VotesMatchState ==
  /\ clk = IF ClocksOn THEN 1 ELSE 0
  /\ irq = IF IrqsOn THEN 1 ELSE 0
  /\ qos <= 1
  /\ qos = 1 => rc_state \in {"PRE_OFF", "ON"}
  /\ rsc <=> \/ rc_state \in {"ON", "MODESET"}
             \/ rc_state = "IDLE" /\ mode = "vid"

(* The encoder never enters idle under a frame: neither one that hardware  *)
(* is still sending nor one that a commit is about to start, although the  *)
(* decision is taken before the event thread is flushed.                   *)
NoIdleUnderFrame ==
  [][rc_state = "ON" /\ rc_state' = "IDLE" => in_flight = 0 /\ ~kickoff]_vars

(* frame_pending counts the frames in flight, those written off whose      *)
(* event is still to be sent, and the frame events queued on the event     *)
(* thread: no event is lost, counted twice, or left behind.  However       *)
(* commits overlap, no more than two are outstanding, and one more for each*)
(* reporter of a dead panel, which may hold an event back over a launch:   *)
(* nothing else keeps the CRTC's eight frame events from running out.      *)
FramesQueued == Cardinality({n \in 1 .. Len(queue) : queue[n] = "frame"})
FramePendingExact ==
  /\ frame_pending = in_flight + Cardinality(late) + FramesQueued
  /\ frame_pending <= 2 + Cardinality(Reporters)

(* virt_enable never initialises an off work that is still pending.        *)
NoReinitWhileArmed == disp = "reinit" => ~timer

(* A frame whose KICKOFF event did not fail is triggered with the resources*)
(* on, whatever the event thread, suspend and the off work did since.      *)
LaunchPowered == disp = "launch" => rc_state = "ON" /\ clk > 0 /\ irq > 0

(* A display whose CRTC is off holds no votes.                             *)
OffWhenInactive == ~active /\ disp = "idle" => rc_state = "OFF"

(* Left alone, an encoder with idle power collapse enabled goes idle.      *)
EventuallyIdle ==
  (<>[][~UserStep]_vars)
    => []<>(rc_state = "IDLE" \/ rc_state = "OFF" \/ ~idle_pc \/ panel_dead)

(* What the comments of the code promise and the code does not keep.       *)

(* STOP: "Resource state should be in OFF at the end of the event"         *)
(* (sde_encoder.c:110).                                                    *)
StopEndsOff == [][Stop => rc_state' = "OFF"]_vars

(* A thread that reports a failed panel gets through the wait for the      *)
(* power-up it asked for: sde_encoder.h:486 makes it wait on another thread*)
(* "because it requests the flush work on same thread".                    *)
EsdCompletes ==
  \A r \in Reporters : reporter[r] = "flush" ~> reporter[r] = "idle"
=============================================================================
