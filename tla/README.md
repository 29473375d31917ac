# TLA+ models of the SDE/MSM display driver

This directory is a verification development for the Qualcomm SDE display
driver in `src/` (the `display-drivers` tree with Xiaomi's additions): TLA+
modules translated from the C code, TLC configurations that model-check them,
and TLAPS proofs of what matters most, for every value of the constants.

Run from this directory:

    tlc -workers 2 -config FenceTimeline.cfg MCFenceTimeline
    tlapm FenceTimelineProofs.tla

`PROJECT.json` lists the runs, the mutants that show each property can fail,
the source lines each definition stands for, the findings and the hazards.

## 1. The system

A frame travels like this. An atomic ioctl creates release and retire fences
for the frame and *prepares* their timelines (`sde_fence.c`), waits until the
previous commit on the same CRTC has been handed over (`msm_atomic.c`), and
queues the commit on the CRTC's **display thread**. The display thread asks the
encoder's **resource control** for power (`sde_encoder.c`), which votes for the
MDP clocks (runtime PM) and, through the connector, for the **DSI clocks**
(`dsi_clk_manager.c`), enables interrupts and asks the RSC for an active state.
It counts the frame as pending, triggers it and waits for the previous one.
Interrupts report the frame to the **event thread** of the CRTC, which counts
it off and signals the fences. When no commit comes for a while, a delayed work
on the display thread takes the power away again. Beside this, a status work
and an interrupt thread watch whether the panel still answers, and system
suspend, touch input and the user's idle hints interfere.

| component | state it keeps | operations | interacts with |
|---|---|---|---|
| fence timeline (`sde/sde_fence.c`) | `commit_count`, `done_count`, list of fences, `kref` | create, prepare, signal, signal error, reset timeline, release, deinit | ioctls, event thread, CRTC disable, user space polling and closing |
| resource control (`sde/sde_encoder.c`) | `rc_state`, `rc_lock`, `delayed_off_work`, the votes | KICKOFF, PRE_STOP, STOP, PRE/POST_MODESET, ENTER_IDLE, EARLY_WAKEUP | display thread, event thread, suspend, RSC, DSI clocks |
| frame accounting (`sde/sde_crtc.c`, `sde/sde_encoder_phys_*.c`) | `frame_pending`, `kickoff_in_progress`, pending kickoff counters, pool of 8 frame events | commit kickoff, waits, done/timeout callbacks, event work, disable | interrupts, event thread, fences |
| panel health (`sde/sde_connector.c`, `mi_disp/mi_sde_connector.c`) | `panel_dead`, `esd_recovery_pending`, `esd_status_check`, `delay_kickoff` | status work, ESD interrupt thread, check in the display thread | resource control, DSI clocks, user space |
| DSI clock manager (`dsi/dsi_clk_manager.c`) | refcount and vote of each client, the manager's clock states | request ON/OFF for core and link clocks, forced link update | encoder, panel power sequence, status check, error recovery works, controller and PHY power |
| DSI display (`dsi/dsi_display.c`) | power and mode of the panel | prepare, enable, pre_disable, disable, unprepare, recovery works | clock manager, controller, panel |
| atomic dispatch (`msm_atomic.c`) | `pending_crtcs`, `pending_planes`, commit works | commit, dispatch, complete | ioctls, display threads |
| suspend (`sde/sde_kms.c`) | suspended state, suspend blocks | suspend, resume, idle request | modeset locks, display and event threads |
| RSC (`sde_rsc.c`) | state of each client, current state, `rsc_vsync_wait` | state update, vote, vsync wait | encoders, bandwidth code, hardware |
| resource manager (`sde/sde_rm.c`) | reservations of hardware blocks | reserve, next reservation, release | atomic check and commit |
| VM hand-over (`sde/sde_vm_*.c`) | who owns the hardware, lent memory and interrupts | lend, accept, release, reclaim | commits, the other VM's messages |
| core interrupts (`sde/sde_core_irq.c`) | enable counts, callback lists | enable, disable, register, dispatch | everyone with an interrupt |
| power handle (`sde_power_handle.c`), performance (`sde/sde_core_perf.c`) | bus, clock and regulator votes | state and bandwidth updates | kms, CRTCs |
| DisplayPort (`dp/`), MST, HDCP (`sde_hdcp_*.c`, `hdcp/`) | hot-plug and link state, authentication state | connect, attention, disconnect works, enable, disable | USB-PD, AUX, panel, trusted application |
| rotator (`rotator/`) | sessions, queues, timelines | queue, commit, done, timeout | its own hardware |

What makes them correct: the **timeline** never signals a buffer back while it
is scanned out and never forgets one that is finished; **resource control**
holds exactly the votes its state stands for, never takes power from under a
frame, and does give it back when nothing happens; **frame accounting** neither
loses nor doubles a frame when interrupts, timeouts and recovery race; **panel
recovery** always completes; the **clock manager** keeps every user's clocks on,
link under core and slave under master, and balances its counts; **dispatch**
never runs two commits on one CRTC or plane; the **RSC** honours the strongest
client and its waits end; the **resource manager** gives a block to one owner;
the **VMs** never own the hardware both; an **interrupt** is unmasked exactly
while its count is positive.

The hard behaviours are interleavings (locks that are dropped between a
decision and the action it allows; works, interrupts and ioctls on the same
object), partial failure (a walk over clocks or votes that stops half way),
ordering of votes and their removal, late and lost interrupts against
timeouts, and counters that wrap. The hazards in `PROJECT.json` give each at
its line.

## 2. Modules

| module | what it is |
|---|---|
| `FenceContract` | what a timeline promises its consumers |
| `FenceTimeline` | `sde_fence.c`, one action per critical section; refines `FenceContract` |
| `EncoderRc` | resource control, the display and event threads, panel death, suspend |
| `DsiClk` | the clock manager and the threads that vote through it |
| `CommitContract` | what an atomic commit promises of CRTCs and planes |
| `AtomicCommit` | `msm_atomic.c`: clients, modeset locks, display threads; refines `CommitContract` |
| `Rsc` | the state arbitration of `sde_rsc.c`, composed with the encoders' votes (`sde_encoder.c`) and the power handle's (`sde_power_handle.c`) |
| `HwOwnership` | what the hand-over between the two VMs promises |
| `CoreIrq` | `sde_core_irq.c`, `sde_hw_interrupts.c` and the histogram event of `sde_color_processing.c` that uses them |
| `VmHandover` | `sde_vm_*.c` on both sides of the hypervisor, with the check and the commits of `sde_kms.c`; refines `HwOwnership` |
| `FenceTimelineProofs`, `EncoderRcProofs`, `DsiClkProofs`, `AtomicCommitProofs`, `RscProofs`, `VmHandoverProofs`, `CoreIrqProofs` | the theorems about the module in their name |
| `CoreIrqCrtcProofs` | the theorems that the histogram interrupt follows its CRTC and is never without its callback, on top of `CoreIrqProofs` |
| `MCFenceTimeline`, `MCEncoderRc`, `MCAtomicCommit`, `MCRsc`, `MCVmHandover` | instances for TLC (`DsiClk` and `CoreIrq` have their values in the `.cfg`) |

### FenceTimeline

`commit_count` and `done_count` are kept unreduced; the code's comparisons
reduce them modulo `2 * Half` and read the difference as signed (`UInt`,
`SignedDiff`), so the wrap of the 32-bit counters is part of the model.
An ioctl is `IoctlEnter` (DRM's modeset lock), any number of fence creations
(`CreateRead` under `ctx->lock`, `CreateFd` or `CreateFdFails`, `ListAdd` under
`list_lock`), then `Prepare` or `IoctlLeave`. A signaler moves `done_count`
(`SignalCount`, `ResetTimeline`) and later walks the list (`TriggerEnter`,
`Visit` once per fence, `TriggerExit`). `Poll` and `Close` are user space.
`Visit` may take the fences in any order: list order is not relied on.

The hw-fence paths are left out (no hardware fence is registered).
`Start` is the number of commits before observation begins: any value, since the
state in which every fence has come and gone is the initial one shifted.

### EncoderRc

An event of `sde_encoder_resource_control` runs under `rc_lock` from end to end
and is one action, except the idle entry of a command panel, which sleeps with
the lock held (`RcIdleDecided`, `RcIdleFlush`, `RcIdleFlushed`). `clk`, `irq`,
`qos`, `rsc` count the votes; a failing power-up (constant `Faulty`) leaves them
as they were, as the helper's error paths do. `Primaries` says whether the
display may be the primary one, a secondary one, or either.

The display thread is one kthread worker: `disp` says where it is, and nothing
else it runs starts until it is `"idle"`. `queue` is the event thread's worker;
`FrameWork`, `EsdWork` and `FlushMarker` consume it in order. A commit is
`StartCommit` (`kickoff_in_progress`), the wait for earlier frames (`WaitEnds`, or
`WaitTimeout` and `TimeoutReported`), `DispKickoff`, `Launch` (event flush, `frame_pending`, trigger),
and the wait at its end. `StartModeset`, `PreModeset`, `PostModeset` are the
seamless switch; `StartEnable`, `Reinit` power on; `StartDisable` to `CrtcOff`
power off. `Detect`, `DispCancels`, `CheckDead`, `Notify`, `EsdFlushed` are the
reporters of a dead panel, with the unlocked window between reading and setting
`panel_dead`. `SuspendEnter` to `SuspendFlushed` is
`_sde_kms_pm_suspend_idle_helper`. A frame interrupt (`FrameDone`) comes only
while the encoder's interrupts are enabled, and any frame may instead be written
off by a waiter, also one whose interrupt was about to come. The waiters
(`Waiting`) are the display thread and, for a command panel, suspend and a
reporter whose work has run; the first two also check the panel themselves. A waiter
takes the frame off the count in one step and sends its event in another (`late` in
between), after the check of a command panel, which may sleep.

Writing a frame off decrements the frames in flight (`pending_kickoff_cnt`), so an
interrupt that comes after it finds nothing to count; module `FramePipeline` (planned)
will model the other counters. A video panel takes the same two steps, with nothing that
sleeps in between. A reporter that writes a frame off does not check the panel again: it
has found it dead.

### DsiClk

`Moves` lists what each thread asks for and where success and failure lead it:
the encoder gives up its request when refused, the panel sequence takes core,
then link, and drops them one by one (`BringUp`, and for either kind of panel
`CmdPanelMoves` or `VideoPanelMoves`), the status check and the recovery works
borrow the panel's vote and ignore the result. A command panel parks its vote at the
end of `dsi_display_post_enable`, which the bridge calls also when the panel has
failed: it then gives up a vote it does not hold. A seamless switch (DMS) takes core and
link again from there; a switch between command and video mode (POMS) asks for the same
and is not told apart. A panel whose switch fails in `dsi_display_enable` is taken
down like one that was never up. `Enter` is `dsi_clk_req_state` up
to the recheck, `Plan` is the walk `dsi_recheck_clk_state` and
`dsi_update_clk_state` derive from the union of the votes, and each step of the
walk is one action with its failure beside it. `MaxFaults` bounds the failures
in one behaviour. `ForceUpdate` is the rate change that toggles both link clocks
outside the reference counts. `dsi_mngr_clk_mutex` keeps walks apart (`caller`).

### AtomicCommit

`pc[c]` follows a client through `msm_atomic_commit`: `Check` (the ioctl takes
the modeset locks of the state's objects, checks it against the current state
and hands fences out), `Prepare` (`commit_init` and the two masks),
`LockConnection` / `LockInterrupted` / `Backoff` (the `connection_mutex` loop),
`Reserve` or `WaitInterrupted` (`start_atomic`), `Swap` (the swap and
`prepare_fence`), `Dispatch` (a work on the thread of the first CRTC, or in the
caller for a state without one) and `Flush` (a blocking caller).
`complete_commit` is `ThreadProgram` or `SyncProgram`: it reads the state that is
current *then*, which is why the masks matter. `commit_destroy` and the freeing
are `ThreadDestroy` or `SyncDestroy`. `sw` and `hw` count the updates of an object
committed and programmed; `seen` is the `sw` a client checked against.

External: the modeset locks, DRM core's wait-die mutexes, modelled from their use.
A deadlock inside the check restarts the check in DRM core and is not seen here;
`connection_mutex` is taken inside the commit, so `Backoff` is the code's own.
In `CommitContract` an update of a set of objects is committed whole, on objects
that are not in flight, and applied whole; the refinement maps `flight` to the
objects of commits that have been swapped and not programmed (`Updates`).

### Rsc

`Update` is `sde_rsc_client_state_update` under `client_lock`: `SwitchToIdle`,
`SwitchToClk` and `SwitchToShow` (CMD and VID) with their early returns, `Enabled`,
`Changed` and `Kept` the resource references around them. `SwitchToClk` may sleep
for `rsc_vsync_wait` with the lock held (`holder`), to end with `WaitOver` or
`WaitTimesOut`. An encoder takes a power reference (`GetPower`), votes (`Ask`), and
when told to wait for a vblank reads the count (`ReadRefcount`) and takes it back
after the wait, vblank or not (`VblankDone`). The power handle's vote brackets
every encoder's (`PowerOn`, `PowerOff`, and `"undo"` when clocks fail after the
vote). Runtime PM is reduced to that bracket. External: the RSC hardware, which may
refuse to enter and to leave its collapse.

### VmHandover

`mem` and `irq` are the hypervisor's book of where the register memory and each
interrupt line are; `handle` and `n_irq_lent` are what a VM believes. A hand-over
job runs under `vm_res_lock` (`holder`, `job`), one hypervisor call per action, each
with its failure: `LendMem`, `NotifyMem`, `LendIrq`; `AcceptMem`, `AcceptIrq`;
`ReleaseIrq`, `ReleaseMem`; `ReclaimMem`, `ReclaimIrq`. The notification of a lent
parcel travels in `notices` (`MemLent`) and may be late. A VM's client checks
states (`Check`, where an ACQUIRE takes the hardware), the check may fail later
(`CheckFails`) or be a test (`NotCommitted`), or the state is swapped in (`Swap`) and
the worker completes it (`Frame` to `Release`). `Visit` is what comes to the hardware
beside the commits: backlight, early wakeup, events, debugfs.

`damaged` records the VMs of which a hand-over step failed for good: some
properties exclude them by name. `Eager` lets user space of the trusted VM ask for
the hardware before its RELEASE is complete; `TwoFailures` lets the notification of a
release fail after a line could not be given back (the VM then believes it still owns
what it gave back).

### CoreIrq

The interrupt core serves everyone; the module follows the user whose life is the
hardest, the histogram event of a CRTC. `Interrupt(a)` is `sde_cp_hist_interrupt`, run
by an ioctl, a commit or runtime PM: `Register`, `Enable`, `MaskOn`, `WriteOn`, and back
`Disarm`, `MaskOff`, `WriteOff`, `Unregister`. The mask is read in one action and
written in another (`seen`), so that an update outside `irq_lock` shows: the worker's
(`Notify`, `NotifyWrite`) is one. `PeerRead` and `PeerWrite` are the interrupt of another
CRTC in the same register. `Fire` and `Deliver` are the interrupt handler, which queues
an event from a pool; the worker disarms, reads the histogram with a power reference
(`ReadGet`, `Read`) and gives the event back.

`EventEnable` to `GetRefused` are the ioctl's two calls, `Switch` to `Switched` runtime PM
with the power event of the CRTC, and `CommitStart` to `CommitEnd` a commit: a flip that may
arm the event again, `CrtcDisable` to `CrtcReset`, and `TurnOn` or `SetupMixers` to
`PowerEvent`. `spin_lock` is the CRTC's: it is held over a whole walk of the event list,
`crtc_lock` over a disable, a power event and a registration, and a deregistration holds
neither while it disarms. A node that is freed with its callback registered is counted in
`orphans`.

External: the interrupt lines, runtime PM and DRM core's `enabled` flag. A reference taken
while the power is off is granted after a resume, or refused.

## 3. Runs

| run | checks | bounds |
|---|---|---|
| `FenceTimeline` | six properties, one of them liveness | 2 ioctls, 2 signalers, 2 fences, offsets 1 and 2, 3 commits, counters of range 10 starting at 8, window 2 |
| `EncoderRc` | eight properties, one of them liveness | primary or secondary display, both panel modes, failing votes, status work |
| `EncoderRcEsdHang` | violation of `EsdCompletes` | primary display, status work, fair |
| `EncoderRcStopEsd` | violation of `StopEndsOff` | primary display, ESD interrupt thread |
| `DsiClk` | four properties, deadlock | split command mode display, 2 faults |
| `DsiClkRetry` | violation of `SuccessMeansOn` | 1 fault |
| `AtomicCommit` | six properties: refinement and liveness among them | 2 clients, 2 CRTCs, 1 plane, 3 commits, 1 backoff; flips, modesets, whole-device commits, states without a CRTC |
| `AtomicCommitBackoff` | violation of `FencesProtected` | 3 clients, 2 CRTCs, no plane |
| `Rsc` | six properties, one of them liveness, deadlock | primary and 2 external encoders, power handle, versions 2, 3 and 4 |
| `VmHandover` | five properties, refinement among them, deadlock | 2 interrupt lines, 3 parcels |
| `VmHandoverEager` | violation of `HwOnlyWhileGranted` | 2 lines, 1 parcel, eager user space |
| `CoreIrq` | five properties, one of them liveness, deadlock | a pool of 2 events, 1 leaked callback |

Why the bounds are enough. *Fences*: two threads of each kind give every pair of
overlapping critical sections; with the counters starting two short of their
range, three commits cross the wrap in the middle of the run; two fences let
one be due while the other is in the making. The
offsets are those of command and video mode (`sde_crtc.c:6736-6744`). *Encoder*:
the state space is finite without any bound: the code's own waits bound the
frames, the locks the rest. *Clocks*: reference counts are bounded by the
threads; two faults let one hit the recovery from another. *Commits*: three
commits are one running, one waiting and one backing off or behind; two CRTCs and a
plane they share are the smallest device on which works of two threads can
collide. *RSC*: no bound, the state space is finite; two external encoders give one
that leaves while another stays, and the three versions take every branch on
`rsc->version`. *VMs*: one line may be gone while the other is on its way; three
parcels let a late notice of the first meet the acceptance of the second, and be
followed by a third. *Interrupts*: a pool of two is empty when one event is queued and
another in the worker's hands, as the pool of sixteen is after more of the same; one
leaked callback can fire beside a registered one.

Deadlock is not checked in the fence runs, where everything may have been closed
and deinitialised; in the encoder runs, where the driver really can stop (see the
findings); and in the commit runs, which end when `MaxCommits` is used up.

What the properties say:

- Fences. `NoEarlySignal`, `NoMissedSignal`: no fence signals before its commit
  completes (so no extra signal ever pushes the timeline past the commits); a listed,
  due fence always has a signaler on its way. `KrefExact`: the context dies with its
  last user. `ImplementsContract`: all steps are steps of `FenceContract`.
  `EventuallySignaled`: a linked fence whose commit completed does signal.
- Encoder. `VotesMatchState`: it holds exactly the votes of its state.
  `OffWhenInactive`: none when the CRTC is off. `NoIdleUnderFrame`: idle is
  never entered under a frame in flight or in preparation. `LaunchPowered`: a
  frame is triggered with everything on. `FramePendingExact`:
  no frame is lost or doubled, written off or not, and at most two and one per reporter
  are outstanding, so the pool of eight frame events cannot run out. `EventuallyIdle`: an encoder left alone does go idle.
  `NoReinitWhileArmed`: `virt_enable` does not re-initialise a pending work.
- Clocks. `ClocksOrdered`: the slave's clock never runs without the master's, also
  after faults, and until the first fault no link clock without the core clocks.
  `ClocksFollowUsers`: until the first fault a thread between ON and OFF has every
  clock, and nothing runs when nobody uses it. `CountsBalanced`: no clock is enabled
  twice or disabled once too often.
- Commits. `LiveWhileUsed`: an `msm_commit` is freed once, by whoever used it last.
  `PendingExact`: the masks are those of the commits between the wait and
  `commit_destroy`, and no two of these share an object. `ValidUntilBackoff`: what a
  client checked is what it commits on, unless `connection_mutex` was backed off
  from. `ImplementsContract`: every commit is whole, on objects the hardware has
  caught up with, and reaches the hardware. `CommitsReturn`: no ioctl waits for ever.
- RSC. `StateFollowsVotes`: after a successful update the state is the one all the
  votes together ask for, although each update looks only at some.
  `NoCollapseUnderDisplay`: the arbitration for IDLE skips the encoders' CLK votes,
  and the hardware still never collapses under one. `PoweredWhileActive`: the
  resource references follow the hardware through refusals. `VsyncWaitExact`: from
  version 3 on nobody takes back another encoder's count (before, the primary display
  can: a new configuration makes it wait without counting). `VsyncWaitEnds`.
- VMs. `BelievesWhatItHolds`: a VM never takes itself for the owner of what the
  other has, not even in the middle of a job. `HwOnlyWhileGranted`: commits and
  visitors are at the hardware only while their VM has it. `AlwaysAWay`: no sequence
  of requests leaves a VM where every check refuses (unless a step failed).
  `ImplementsOwnership`: one owner, and nobody gives the memory away under a user.
- Interrupts. `MaskMatchesCount`: between updates the interrupt is unmasked exactly
  while its count is positive. `NoSilentIrq`: a counted interrupt has the callback of its event; a freed event's serves
  it only where a deregistration overlapped a modeset.
  `FollowsCrtc`: between commits and power switches a listed event is armed (or disarmed
  by its own worker) when its CRTC is lit and powered, and not otherwise, and a
  deregistered one leaves nothing behind. `HistReported`: an armed event of a lit display
  is reported or disarmed. Two history variables name the overlaps in which the code does
  not keep this: `collided`, the worker's update of the mask without `irq_lock` and a
  peer's under it; `torn`, a call that a modeset walk of the event list passes by. Each
  clause of either is needed: without it TLC finds the property violated.

Fairness. `FenceTimeline`: strong fairness for taking `list_lock`, whose holders
are in kernel code that never blocks, weak fairness for the rest of the walk;
nothing is assumed of ioctls or user space. `EncoderRc`: weak fairness for the
worker threads (a kthread worker runs what is queued), expired timers, the
reporters once started, suspend once started, and frame interrupts while they are
enabled. Users' commits, wakeups and panel deaths are not fair; `EventuallyIdle`
is about what happens once users stop. A missing interrupt needs no assumption:
the wait's timeout covers it. `AtomicCommit`: weak fairness for clients inside the
ioctl and for the display threads, strong fairness for `connection_mutex`, whose
waiters DRM queues; signals and backoffs are never forced. `Rsc`: weak fairness for
the end of a vblank wait, which has a timeout, and for the thread it wakes. `CoreIrq`:
weak fairness for the interrupt handler's end, the peer, the worker, runtime PM and a
commit that has begun; strong fairness for the end of a frame, because a display lit again
and again shows one, and for taking the interrupt, because waiters for `irq_lock` queue.
Nothing is assumed of ioctls, nor of when commits come.

## 4. Findings

Five runs end in a counterexample against a comment of the code; each is a
finding in `PROJECT.json`.

1. `EncoderRcEsdHang`: idle entry waits, with `rc_lock` held, for an event
   thread on which the ESD power-up waits for `rc_lock`.
2. `EncoderRcStopEsd`: an ESD interrupt between PRE_STOP and STOP leaves the
   encoder on.
3. `DsiClkRetry`: a failed ON leaves its vote; the retry reports success.
4. `AtomicCommitBackoff`: after `-EDEADLK` on `connection_mutex` the commit drops
   all its locks, and goes on without a new check with a state another client may
   have overtaken.
5. `VmHandoverEager`: an ACQUIRE that is checked while the VM's own RELEASE is on its
   way takes the hardware for owned, and commits after it is gone.

Seen while modelling, without a run of their own: the error event marks the fences of
*later* commits too (`sde_fence.c:968`, against `sde_fence.h:56`); the overlaps named by
`collided` and `torn` in `CoreIrq`; seamless DMS on an idle *video*
panel takes a second clock vote (`sde_encoder.c:2211`; `DmsModes` excludes it); the
error path of `dsi_display_prepare` may start link clocks and stop the core clocks
under them (`ClocksOrdered` asks for this only until the first fault); after a
failed lend, or an ACQUIRE whose check fails late, the primary VM's CRTC says RELEASE
while it owns the hardware, and every later request is refused (`AlwaysAWay`
excludes such VMs); the result of the RSC's resource enable is not looked at; an ESD
interrupt thread that has written a frame off may send its event after the display has
been powered off, which clears `frame_pending`, and on again: the event takes a frame
of the new session off the count, and idle can be entered under it
(`FramePendingExact` and `NoIdleUnderFrame` fail with `EsdIrq`); the bridge lets
`dsi_display_post_enable` drop the vote of a command panel whose bring-up failed.

The passing runs state the conditions under which the rest holds: `DmsModes`
restricted to command panels, no ESD interrupt thread, `Eager` and `TwoFailures`
off (`TwoFailures`: the notification of a release fails after a line could not be given
back, in that release or an earlier one), properties of the clocks up to the first fault.

## 5. Proofs

`FenceTimelineProofs` proves, for any finite or infinite sets of threads and
fences and any counter width, that `IndInv` is invariant and hence `TypeOK`,
`DoneNeverAhead`, `NoEarlySignal` and `NoMissedSignal`, and that the timeline
implements `FenceContract`. The assumptions are those of the module: offsets are
at least one (both callers add one), outstanding commits and offsets stay below
half the counter range (`Window`), `None` is no thread or fence. The safety
properties alone are not inductive. `IndInv` adds what makes them so: the modeset
lock keeps an ioctl's trigger value ahead of the timeline (`IoctlInv`), a walker
owns `list_lock` and has only listed fences before it (`WalkInv`), a fence the
driver holds is near the counters (`FenceInv`, `CountInv`). The key lemmas reduce
the code's signed comparison of wrapped counters to comparison of plain numbers
within the window; then each action is checked against each conjunct. The
counters are unreduced precisely so that this can be said. `KrefExact` has an
invariant of its own: the fences alive and the walks of the list are finitely many at
any time, whatever the sets of fences and threads, and `kref` is their number and one
for the driver (`RefInv`); each action adds or removes one element of one of the sets.

`EncoderRcProofs` proves `VotesMatchState` and `TypeOK` when seamless DMS is only
asked for on command panels (`DmsModes \subseteq {"cmd"}`, without which they
fail), for any thread names, with or without reporters and faults; and
`OffWhenInactive` and `NoReinitWhileArmed` when in addition there is no ESD
interrupt thread (finding 2). The strengthening ties the votes to the state
exactly, says that a held `rc_lock` means state ON and a command panel, and
lists for each step of the display thread the resource control states it can be
found in: that is where PRE_STOP, STOP and the modeset pair are shown to agree.

Of the frames the module proves more, without an ESD interrupt thread but whatever the
modes and faults. `FramesCounted` adds to `FramePendingExact` how many frames the waits of
the display thread have left in flight (at most one when it launches the next, none when it
goes on to stop) and which waiters may be late with an event. `LockOwned` and `NoFrameInside` follow the idle entry of a command panel through
its sleep with `rc_lock`: no frame is in flight and no kickoff under way from the decision
to the entry, hence `NoIdleUnderFrame`. `LaunchPowered` needs the votes as well
(`OnAtLaunch`: the state is ON where a frame is triggered) and is proved under
`DmsModes \subseteq {"cmd"}`.

`DsiClkProofs` proves `TypeOK`, `ClocksOrdered`, `ClocksFollowUsers` and the action
property `CountsBalanced` for one controller or two, either kind of panel and any number of
failing steps. A request is cut off in the middle of a plan, so the invariant is about
the steps still to take: the plan is seen as the set of them, sorted so that the slave
stops first and starts last and link clocks stay inside core clocks (`Sorted`). The
parts of `IInv`: the one call inside `dsi_mngr_clk_mutex` and its plan (`Call`); that
nobody borrows the panel's vote while the panel is not initialised (`Borrowed`), so that
a vote given up in vain is nobody else's; the
slave's enable count is never ahead of the master's, and behind it only where a step
of the plan says so (`SlaveBehind`), which survives failures; and while nothing has
failed (`Calm`) the counts are the votes of the threads, each clock is on or off as the
recorded state says up to the steps still to take, and supplies, core and link nest.
For each request the plan is shown to lead from the recorded state to the voted one.

`AtomicCommitProofs` proves, for any finite set of clients and any CRTCs, planes,
requests and bounds, that `IInv` is invariant, and from it `TypeOK`,
`LiveWhileUsed`, `PendingExact`, `ValidUntilBackoff`, that the hardware is never
more than one update behind (`HardwareOneBehind`), and that the commits implement
the safety part of `CommitContract` (`Implements`). The parts of `IInv`: no two
clients have the same `msm_commit` (`UniqueInv`), which carries the masks of their
request (`ClientInv`); a work is queued once, and while its client still has the
commit that client waits (`QueueInv`, `WorkInv`); reserved commits own their objects
(`PendInv`); an object lags by exactly the update in flight (`LagInv`); and before
the first backoff a client holds the locks of everything it checked (`LockInv`). Each
action has a lemma that it keeps `IInv` and what it is to the contract: a swap
(`Launches`), a programming (`Lands`) or neither (`FlightKept`). The one idea behind
all of it is that the pending masks replace the modeset locks once these are dropped:
`LockInv` hands over to `PendInv` at `Reserve`.

`RscProofs` proves, for any finite set of external encoders and any set of hardware
versions, `TypeOK`, `StateFollowsVotes`, `NoCollapseUnderDisplay`,
`PoweredWhileActive` and `VsyncWaitExact`. The votes of encoders are only cast with
the power handle's vote in force (`PowerInv`): this is what makes the arbitration
for IDLE, which skips them, right; `HwInv` ties the programmed state to the current
one; `CountInv` counts the waits.

`VmHandoverProofs` proves, for any number of interrupt lines and parcels, `TypeOK`,
`BelievesWhatItHolds`, `HwOnlyWhileGranted`, `AlwaysAWay` and the refinement of
`HwOwnership` (`Implements`). `IInv` ties the hypervisor's book to what each VM has
written down: a handle of the primary VM and a count of the trusted one are exact
(`Memory`, `Lines`), a notice on its way is newer than anything the trusted VM holds
(`Notices`), each step of a hand-over may rely on the ones before (`PrimaryJob`,
`TrustedJob`), and the request of a VM goes with its ownership while its threads are
where they are (`Local`, `AtRest`). Two assumptions: the notification of a release does
not fail once a line could not be given back, after which the trusted VM would keep a
handle and a count for memory it has given back (`~TwoFailures`; all theorems); and user
space asks for the hardware only after its RELEASE is complete (`~Eager`; the last three,
see finding 5).

`CoreIrqProofs` proves `TypeOK` and `MaskMatchesCount` for any pool and any number of
leaked callbacks. What makes it possible is `Locks`: although the callers of
`sde_cp_hist_interrupt` hold different locks, or none, at most one of them is inside
at a time, and none while the worker disarms (`NeverTwoInside`). Count, state of the
event and mask can then be read off the label of the one actor at work (`States`,
`Counts`, `Masks`), and every action is checked from that actor's point of view.

`CoreIrqCrtcProofs` proves `FollowsCrtc` and `NoSilentIrq`. `Phases` says what the commit, runtime PM and
the ioctl have done so far, by where they are; `Settled`, that outside the overlaps of
`torn` the event is at every step as the last walk of the event list has left it, and
with it its callback. The
eight steps of `sde_cp_hist_interrupt` are summed up in two (`ArmStep`, `DisarmStep`),
and there is a lemma for every other action.

Every invariant and every action property of the passing runs is the subject of a theorem, under
the assumptions above. Only model-checked: liveness (`EventuallySignaled`,
`EventuallyIdle`, `CommitsReturn`, `VsyncWaitEnds`, `HistReported`, and the fairness in
`CommitContract`), which is out of the prover's reach; and that the
violation runs find what they find.

## 6. What is not modelled

Within the modelled parts: hw-fences; autorefresh, POMS, CWB, continuous splash,
uidle, and the VM's interrupt control of the encoder; EARLY_GATE of the clock
manager (no caller asks for it), rates, prepare counts, ULPS and clamps beyond
the possibility that they fail; client registration and teardown; what
`complete_commit` writes, implicit fences and state allocation of a commit; the RSC's
bandwidth votes, timers, clone mode and register sequences, and a resource enable
that fails; the VMs' message queue, init and deinit, and the client callbacks; of the
interrupt core the virtual irq domain, preinstall and uninstall, calls with a list of
interrupts, the users other than the histogram, and a commit that only drops `enabled`
from a CRTC that is inactive already; the return of the encoder's vsync wait when the
primary CRTC does not exist (`sde_encoder.c:1564`; a CRTC lives as long as the device).
The VMs' lines are known by number, where the trusted VM sorts its own by label.

Left out for good: register layers, catalogs, PLL and PHY tables, color processing
payloads, parsers of panel data (data, not behaviour); MST (DRM core's
helper does the work and is not in the repository); debugfs and event logs.

## 7. Plan

Done, checked and proved: fence timeline, resource control, DSI clock manager, atomic
commit, RSC, VM hand-over, core interrupts.

Next, in order of importance:

1. `FramePipeline`: `pending_kickoff_cnt` and `pending_retire_fence_cnt` of the
   physical encoders, ping-pong, write-pointer and ctl-start interrupts, their
   timeouts and the hardware reset, the pool of frame events, and fence signalling
   per frame. Abstract specification: each kickoff is reported exactly once. It
   would discharge the frame assumptions of `EncoderRc` and drive `FenceTimeline`.
2. `Reservation`: `sde_rm.c`, one owner per block through test-only checks.
3. `DpHotplug`, `RotatorQueue`, `Hdcp2x`.

Theorems to come: those of each new module; and one for each condition the present
ones carry, that says exactly how far the property fails without it (video panels
switched seamlessly, an ESD interrupt between PRE_STOP and STOP, a release that fails
twice). Runs will be merged where two ask one question, so that each new module gets one.
