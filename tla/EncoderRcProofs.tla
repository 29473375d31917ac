--------------------------- MODULE EncoderRcProofs ---------------------------
(***************************************************************************)
(* Proofs about EncoderRc, for every choice of reporters, display kind,    *)
(* panel modes and failing votes: the encoder's votes follow its state as  *)
(* long as no video panel is switched seamlessly, and without a panel ESD  *)
(* interrupt a display whose CRTC is off is off.  Frames are counted       *)
(* exactly and none is caught by the idle entry, whatever the constants;   *)
(* one is launched with everything on while the votes follow the state.    *)
(***************************************************************************)
EXTENDS EncoderRc, FiniteSetTheorems, TLAPS

States == {"OFF", "PRE_OFF", "ON", "MODESET", "IDLE"}
FlushSteps == {"flush_events", "flush"}

(* The ranges of the variables that resource control decides on.           *)
RcTypes ==
  /\ mode \in Modes
  /\ rc_state \in States
  /\ rc_lock \in {None, Disp, Suspend}
  /\ clk \in Int
  /\ irq \in Int
  /\ qos \in Int
  /\ disp \in DispSteps
  /\ suspend \in {"idle", "wait", "request", "flush_events", "flush"}

(* rc_lock is held over a sleep only by a thread that enters idle, and the *)
(* state it read stays as it is: no event gets in between.                 *)
LockHeld ==
  /\ rc_lock = Disp <=> disp \in FlushSteps
  /\ rc_lock = Suspend <=> suspend \in FlushSteps
  /\ rc_lock # None => rc_state = "ON" /\ mode = "cmd" /\ active

(* The transient states belong to one step of the display thread each, and *)
(* a display that is off, or about to be, is not idle.                     *)
StatesOfSteps ==
  /\ rc_state = "PRE_OFF" => disp = "stop"
  /\ rc_state = "MODESET" => disp = "post_modeset"
  /\ disp = "pre_modeset" => mode = "cmd"
  /\ disp = "stop" /\ rc_state = "IDLE" => mode = "cmd"
  /\ rc_state = "IDLE" => active /\ disp # "off"
  /\ suspend # "idle" => disp = "idle" \/ disp \in FlushSteps

(* VotesMatchState with its qos clause as a range.                         *)
VotesExact ==
  /\ clk = IF ClocksOn THEN 1 ELSE 0
  /\ irq = IF IrqsOn THEN 1 ELSE 0
  /\ qos \in {0, 1}
  /\ qos = 1 => rc_state \in {"PRE_OFF", "ON"}
  /\ rsc <=> \/ rc_state \in {"ON", "MODESET"}
             \/ rc_state = "IDLE" /\ mode = "vid"

RcInv == RcTypes /\ LockHeld /\ StatesOfSteps /\ VotesExact

(* Every initial state satisfies RcInv: an encoder starts off, with no vote*)
(* and no thread in resource control.                                      *)
LEMMA InitRc == Init => RcInv
<1> SUFFICES ASSUME Init PROVE RcInv
  OBVIOUS
<1> USE ThreadsAssumption, ModesAssumption DEF Init
<1>1. RcTypes
  <2>2. mode \in Modes /\ rc_state \in States /\ disp \in DispSteps
    BY DEF States, DispSteps
  <2>3. suspend \in {"idle", "wait", "request", "flush_events", "flush"}
    OBVIOUS
  <2>4. /\ clk \in Int /\ irq \in Int /\ qos \in Int
        /\ rc_lock \in {None, Disp, Suspend}
    OBVIOUS
  <2> QED
    BY <2>2, <2>3, <2>4 DEF RcTypes
<1>2. LockHeld
  BY DEF LockHeld, FlushSteps, Disp, Suspend
<1>3. StatesOfSteps
  BY DEF StatesOfSteps, FlushSteps
<1>4. VotesExact
  BY DEF VotesExact, ClocksOn, IrqsOn
<1> QED
  BY <1>1, <1>2, <1>3, <1>4 DEF RcInv

(* KICKOFF either leaves the state or powers up from OFF or IDLE: the      *)
(* votes are those of the state it ends in.                                *)
LEMMA KickoffKeepsVotes ==
  ASSUME RcInv, RcKickoff \/ RcKickoffFails, UNCHANGED mode
  PROVE  VotesExact' /\ rc_state' \in {rc_state, "ON"}
  BY DEF RcInv, RcTypes, States, VotesExact, ClocksOn, IrqsOn, RcKickoff,
     RcKickoffFails, PowerUp, rc, votes

(* PRE_STOP turns the interrupts of an idle video panel back on and gives  *)
(* up the RSC; an idle command mode panel has no vote to give up.          *)
LEMMA PreStopKeepsVotes ==
  ASSUME RcInv, RcPreStop, UNCHANGED mode, disp = "pre_stop_rc"
  PROVE  /\ VotesExact'
         /\ rc_state' \in {"OFF", "PRE_OFF", "IDLE"}
         /\ rc_state' = "IDLE" => mode = "cmd" /\ UNCHANGED rc_state
<1> USE ModesAssumption
  DEF RcInv, RcTypes, StatesOfSteps, States, VotesExact, ClocksOn, IrqsOn,
      RcPreStop, rc, votes
<1>1. CASE rc_state = "OFF" \/ (rc_state = "IDLE" /\ mode = "cmd")
  BY <1>1
<1>2. CASE rc_state = "IDLE" /\ mode = "vid"
  BY <1>2
<1>3. CASE rc_state = "ON"
  BY <1>3
<1> QED
  BY <1>1, <1>2, <1>3

(* STOP drops clocks, interrupts and latency request of an encoder that    *)
(* PRE_STOP prepared, and nothing from IDLE; ON, which it refuses, keeps   *)
(* its votes.                                                              *)
LEMMA StopKeepsVotes ==
  ASSUME RcInv, RcStop, UNCHANGED mode, disp = "stop"
  PROVE  VotesExact' /\ rc_state' \in {"OFF", "ON"}
<1> USE DEF RcInv, RcTypes, StatesOfSteps, States, VotesExact, ClocksOn,
   IrqsOn, RcStop, PowerDown, rc, votes
<1>1. CASE rc_state = "PRE_OFF"
  BY <1>1
<1>2. CASE rc_state = "IDLE"
  BY <1>2
<1>3. CASE rc_state \in {"OFF", "ON", "MODESET"}
  BY <1>3
<1> QED
  BY <1>1, <1>2, <1>3

(* PRE_MODESET, for a command mode panel, powers up what is idle and takes *)
(* the latency request away; what is off stays off.                        *)
LEMMA PreModesetKeepsVotes ==
  ASSUME RcInv, RcPreModeset, UNCHANGED mode, disp = "pre_modeset"
  PROVE  VotesExact' /\ rc_state' \in {"OFF", "MODESET"}
<1> USE DEF RcInv, RcTypes, StatesOfSteps, States, VotesExact, ClocksOn,
   IrqsOn, RcPreModeset, rc, votes
<1>1. CASE rc_state = "OFF"
  BY <1>1
<1>2. CASE rc_state = "ON"
  BY <1>2
<1>3. CASE rc_state = "IDLE"
  BY <1>3
<1> QED
  BY <1>1, <1>2, <1>3

(* POST_MODESET goes back to ON and takes the latency request again.       *)
LEMMA PostModesetKeepsVotes ==
  ASSUME RcInv, RcPostModeset, UNCHANGED mode, disp = "post_modeset"
  PROVE  VotesExact' /\ rc_state' \in {"ON", rc_state} \ {"MODESET"}
<1> USE DEF RcInv, RcTypes, StatesOfSteps, States, VotesExact, ClocksOn,
   IrqsOn, RcPostModeset, rc, votes
<1>1. CASE rc_state = "MODESET"
  BY <1>1
<1>2. CASE rc_state # "MODESET"
  BY <1>2
<1> QED
  BY <1>1, <1>2

(* The idle entry of a video panel drops interrupts and latency request,   *)
(* and keeps clocks and RSC.                                               *)
LEMMA IdleVideoKeepsVotes ==
  ASSUME RcInv, RcIdleVideo, UNCHANGED mode
  PROVE  /\ VotesExact'
         /\ rc_state' = "IDLE" /\ active
         /\ rc_lock' = rc_lock /\ rc_lock = None
<1> USE DEF RcInv, RcTypes, StatesOfSteps, States, VotesExact, ClocksOn,
   IrqsOn, RcIdleVideo, MayIdle
<1>1. rc_state = "ON" /\ mode = "vid"
  OBVIOUS
<1> QED
  BY <1>1

(* The idle entry of a command mode panel, once the event thread is        *)
(* flushed, drops every vote of an encoder that is still on: rc_lock was   *)
(* held since the decision.                                                *)
LEMMA IdleFlushedKeepsVotes ==
  ASSUME RcInv, NEW t \in {Disp, Suspend}, RcIdleFlushed(t), UNCHANGED mode
  PROVE  /\ VotesExact'
         /\ rc_state = "ON" /\ rc_state' = "IDLE"
         /\ rc_lock = t /\ rc_lock' = None
         /\ active
<1> USE DEF RcInv, RcTypes, LockHeld, States, VotesExact, ClocksOn, IrqsOn,
   RcIdleFlushed, PowerDown
<1>1. rc_state = "ON" /\ mode = "cmd" /\ active
  BY ThreadsAssumption
<1> QED
  BY <1>1

(* EARLY_WAKEUP powers up an idle encoder and leaves any other alone.      *)
LEMMA EarlyWakeupKeepsVotes ==
  ASSUME RcInv, RcEarlyWakeup, UNCHANGED mode, mode = "cmd"
  PROVE  /\ VotesExact'
         /\ rc_state' \in {rc_state, "ON"}
         /\ rc_lock # None => UNCHANGED rc_state
<1> USE DEF RcInv, RcTypes, States, VotesExact, ClocksOn, IrqsOn,
   RcEarlyWakeup, PowerUp, rc, votes
<1>1. CASE UNCHANGED rc
  BY <1>1
<1>2. CASE /\ rc_lock = None /\ rc_state = "IDLE"
           /\ PowerUp /\ rsc' = TRUE /\ rc_state' = "ON"
  BY <1>2
<1> QED
  BY <1>1, <1>2

(* A step of another thread that resource control does not see.            *)
LEMMA Unmoved ==
  ASSUME RcInv, UNCHANGED <<mode, active, rc, rc_lock, disp, suspend>>
  PROVE  RcInv'
  BY DEF RcInv, RcTypes, LockHeld, StatesOfSteps, VotesExact, ClocksOn, IrqsOn,
     rc, votes

(* A step of the display thread outside resource control: the votes stay,  *)
(* so RcInv only needs the new step not to be one a state is tied to.      *)
LEMMA DispMoves ==
  ASSUME RcInv, UNCHANGED <<mode, rc, rc_lock, suspend>>,
         disp \notin {"stop", "post_modeset"} \union FlushSteps,
         disp' \in DispSteps,
         disp' \notin {"pre_modeset", "stop", "off"} \union FlushSteps,
         suspend = "idle" \/ disp' = disp,
         active => active'
  PROVE  RcInv'
<1>1. VotesExact'
  BY DEF RcInv, VotesExact, ClocksOn, IrqsOn, rc, votes
<1>2. RcTypes'
  BY DEF RcInv, RcTypes, rc, votes
<1>3. LockHeld'
  BY DEF RcInv, LockHeld, RcTypes, rc, votes
<1>4. StatesOfSteps'
  BY DEF RcInv, StatesOfSteps, RcTypes, rc, votes
<1> QED
  BY <1>1, <1>2, <1>3, <1>4 DEF RcInv

(* Every step of a user, of the driver or of a reporter keeps RcInv.       *)
LEMMA StepRc ==
  ASSUME DmsModes \subseteq {"cmd"}
  PROVE  RcInv /\ [Next]_vars => RcInv'
<1> SUFFICES ASSUME RcInv, [Next]_vars PROVE RcInv'
  OBVIOUS
<1> USE DEF crtc
<1>1. CASE StartCommit
  BY <1>1, DispMoves
    DEF StartCommit, RcInv, RcTypes, StatesOfSteps, DispSteps, FlushSteps,
        MayCommit, Waits, AfterWait, rc, votes
<1>2. CASE WaitEnds
  BY <1>2, DispMoves
    DEF WaitEnds, RcInv, RcTypes, StatesOfSteps, DispSteps, FlushSteps,
        MayCommit, Waits, AfterWait, rc, votes
<1>3. CASE Launch
  BY <1>3, DispMoves
    DEF Launch, RcInv, RcTypes, StatesOfSteps, DispSteps, FlushSteps,
        MayCommit, Waits, AfterWait, rc, votes
<1>4. CASE Reinit
  BY <1>4, DispMoves
    DEF Reinit, RcInv, RcTypes, StatesOfSteps, DispSteps, FlushSteps,
        MayCommit, Waits, AfterWait, rc, votes
<1>5. CASE StartDisable
  BY <1>5, DispMoves
    DEF StartDisable, RcInv, RcTypes, StatesOfSteps, DispSteps, FlushSteps,
        MayCommit, Waits, AfterWait, rc, votes
<1>6. CASE PreStopCancel
  BY <1>6, DispMoves
    DEF PreStopCancel, RcInv, RcTypes, StatesOfSteps, DispSteps, FlushSteps,
        MayCommit, Waits, AfterWait, rc, votes
<1>7. CASE DispKickoff
  <2>0. RcInv
    OBVIOUS
  <2>1. VotesExact' /\ rc_state' \in {rc_state, "ON"}
    BY <1>7, KickoffKeepsVotes DEF DispKickoff
  <2>2. RcTypes'
    BY <2>0, <2>1, <1>7
      DEF DispKickoff, RcInv, RcTypes, VotesExact, DispSteps, States, RcKickoff,
          RcKickoffFails
  <2>3. LockHeld'
    BY <2>0, <2>1, <1>7, ThreadsAssumption
      DEF DispKickoff, RcInv, RcTypes, LockHeld, FlushSteps, Disp, Suspend,
          RcKickoff, RcKickoffFails
  <2>4. StatesOfSteps'
    BY <2>0, <2>1, <1>7
      DEF DispKickoff, RcInv, RcTypes, LockHeld, StatesOfSteps, States,
          FlushSteps, DispSteps, RcKickoff, RcKickoffFails
  <2> QED
    BY <2>1, <2>2, <2>3, <2>4 DEF RcInv
<1>8. CASE PreStop
  <2>0. RcInv
    OBVIOUS
  <2>1. /\ VotesExact'
        /\ rc_state' \in {"OFF", "PRE_OFF", "IDLE"}
        /\ rc_state' = "IDLE" => mode = "cmd" /\ UNCHANGED rc_state
    BY <1>8, PreStopKeepsVotes DEF PreStop
  <2>2. RcTypes'
    BY <2>0, <2>1, <1>8
      DEF PreStop, RcInv, RcTypes, VotesExact, DispSteps, States, RcPreStop
  <2>3. LockHeld'
    BY <2>0, <2>1, <1>8, ThreadsAssumption
      DEF PreStop, RcInv, RcTypes, LockHeld, FlushSteps, Disp, Suspend,
          RcPreStop
  <2>4. StatesOfSteps'
    BY <2>0, <2>1, <1>8
      DEF PreStop, RcInv, RcTypes, LockHeld, StatesOfSteps, States, FlushSteps,
          DispSteps, RcPreStop
  <2> QED
    BY <2>1, <2>2, <2>3, <2>4 DEF RcInv
<1>9. CASE Stop
  <2>0. RcInv
    OBVIOUS
  <2>1. VotesExact' /\ rc_state' \in {"OFF", "ON"}
    BY <1>9, StopKeepsVotes DEF Stop
  <2>2. RcTypes'
    BY <2>0, <2>1, <1>9
      DEF Stop, RcInv, RcTypes, VotesExact, DispSteps, States, RcStop
  <2>3. LockHeld'
    BY <2>0, <2>1, <1>9, ThreadsAssumption
      DEF Stop, RcInv, RcTypes, LockHeld, FlushSteps, Disp, Suspend, RcStop
  <2>4. StatesOfSteps'
    BY <2>0, <2>1, <1>9
      DEF Stop, RcInv, RcTypes, LockHeld, StatesOfSteps, States, FlushSteps,
          DispSteps, RcStop
  <2> QED
    BY <2>1, <2>2, <2>3, <2>4 DEF RcInv
<1>10. CASE StartModeset
  <2>0. RcInv
    OBVIOUS
  <2>1. VotesExact'
    BY <1>10 DEF StartModeset, RcInv, VotesExact, ClocksOn, IrqsOn, rc, votes
  <2>2. RcTypes'
    BY <2>0, <2>1, <1>10
      DEF StartModeset, RcInv, RcTypes, VotesExact, DispSteps, States,
          MayCommit, rc, votes
  <2>3. LockHeld'
    BY <2>0, <2>1, <1>10, ThreadsAssumption
      DEF StartModeset, RcInv, RcTypes, LockHeld, FlushSteps, Disp, Suspend,
          MayCommit, rc, votes
  <2>4. StatesOfSteps'
    BY <2>0, <2>1, <1>10
      DEF StartModeset, RcInv, RcTypes, LockHeld, StatesOfSteps, States,
          FlushSteps, DispSteps, MayCommit, rc, votes
  <2> QED
    BY <2>1, <2>2, <2>3, <2>4 DEF RcInv
<1>11. CASE StartEnable
  <2>0. RcInv
    OBVIOUS
  <2>1. VotesExact'
    BY <1>11 DEF StartEnable, RcInv, VotesExact, ClocksOn, IrqsOn, rc, votes,
       StatesOfSteps
  <2>2. RcTypes'
    BY <2>0, <2>1, <1>11
      DEF StartEnable, RcInv, RcTypes, VotesExact, DispSteps, States,
          MayCommit, rc, votes
  <2>3. LockHeld'
    BY <2>0, <2>1, <1>11, ThreadsAssumption
      DEF StartEnable, RcInv, RcTypes, LockHeld, FlushSteps, Disp, Suspend,
          MayCommit, rc, votes
  <2>4. StatesOfSteps'
    BY <2>0, <2>1, <1>11
      DEF StartEnable, RcInv, RcTypes, LockHeld, StatesOfSteps, States,
          FlushSteps, DispSteps, MayCommit, rc, votes
  <2> QED
    BY <2>1, <2>2, <2>3, <2>4 DEF RcInv
<1>12. CASE CrtcOff
  <2>0. RcInv
    OBVIOUS
  <2>1. VotesExact'
    BY <1>12 DEF CrtcOff, RcInv, VotesExact, ClocksOn, IrqsOn, rc, votes
  <2>2. RcTypes'
    BY <2>0, <2>1, <1>12
      DEF CrtcOff, RcInv, RcTypes, VotesExact, DispSteps, States, rc, votes
  <2>3. LockHeld'
    BY <2>0, <2>1, <1>12, ThreadsAssumption
      DEF CrtcOff, RcInv, RcTypes, LockHeld, StatesOfSteps, FlushSteps, Disp,
          Suspend, rc, votes
  <2>4. StatesOfSteps'
    BY <2>0, <2>1, <1>12
      DEF CrtcOff, RcInv, RcTypes, LockHeld, StatesOfSteps, States, FlushSteps,
          DispSteps, rc, votes
  <2> QED
    BY <2>1, <2>2, <2>3, <2>4 DEF RcInv
<1>13. CASE PostModeset
  <2>0. RcInv
    OBVIOUS
  <2>1. VotesExact' /\ rc_state' \in {"ON", rc_state} \ {"MODESET"}
    BY <1>13, PostModesetKeepsVotes DEF PostModeset
  <2>2. RcTypes'
    BY <2>0, <2>1, <1>13
      DEF PostModeset, RcInv, RcTypes, VotesExact, DispSteps, States,
          RcPostModeset
  <2>3. LockHeld'
    BY <2>0, <2>1, <1>13, ThreadsAssumption
      DEF PostModeset, RcInv, RcTypes, LockHeld, FlushSteps, Disp, Suspend,
          RcPostModeset
  <2>4. StatesOfSteps'
    BY <2>0, <2>1, <1>13
      DEF PostModeset, RcInv, RcTypes, LockHeld, StatesOfSteps, States,
          FlushSteps, DispSteps, RcPostModeset
  <2> QED
    BY <2>1, <2>2, <2>3, <2>4 DEF RcInv
<1>14. CASE EarlyWakeup
  <2>0. RcInv
    OBVIOUS
  <2>1. /\ VotesExact'
        /\ rc_state' \in {rc_state, "ON"}
        /\ rc_lock # None => UNCHANGED rc_state
    BY <1>14, EarlyWakeupKeepsVotes DEF EarlyWakeup
  <2>2. RcTypes'
    BY <2>0, <2>1, <1>14
      DEF EarlyWakeup, RcInv, RcTypes, VotesExact, DispSteps, States
  <2>3. LockHeld'
    BY <2>0, <2>1, <1>14, ThreadsAssumption
      DEF EarlyWakeup, RcInv, RcTypes, LockHeld, FlushSteps, Disp, Suspend
  <2>4. StatesOfSteps'
    BY <2>0, <2>1, <1>14
      DEF EarlyWakeup, RcInv, RcTypes, LockHeld, StatesOfSteps, States,
          FlushSteps, DispSteps
  <2> QED
    BY <2>1, <2>2, <2>3, <2>4 DEF RcInv
<1>15. CASE PreModeset
  <2>0. RcInv
    OBVIOUS
  <2>1. /\ VotesExact'
        /\ rc_state' = "MODESET" => disp' = "post_modeset"
        /\ rc_state' = "IDLE" => UNCHANGED rc_state
        /\ rc_state' # "PRE_OFF" /\ rc_state' \in States
        /\ rc_lock = None
    <3>1. CASE RcPreModeset /\ disp' = "post_modeset"
      BY <1>15, <3>1, PreModesetKeepsVotes DEF PreModeset, RcPreModeset, States
    <3>2. CASE RcPreModesetFails /\ disp' = "enable"
      BY <1>15, <3>2
        DEF PreModeset, RcPreModesetFails, RcInv, RcTypes, StatesOfSteps,
            VotesExact, ClocksOn, IrqsOn, rc, votes
    <3> QED
      BY <1>15, <3>1, <3>2 DEF PreModeset
  <2>2. RcTypes'
    BY <2>0, <2>1, <1>15
      DEF PreModeset, RcInv, RcTypes, VotesExact, DispSteps, States
  <2>3. LockHeld'
    BY <2>0, <2>1, <1>15, ThreadsAssumption
      DEF PreModeset, RcInv, RcTypes, LockHeld, FlushSteps, Disp, Suspend
  <2>4. StatesOfSteps'
    BY <2>0, <2>1, <1>15
      DEF PreModeset, RcInv, RcTypes, LockHeld, StatesOfSteps, States,
          FlushSteps, DispSteps
  <2> QED
    BY <2>1, <2>2, <2>3, <2>4 DEF RcInv
<1>16. CASE OffWork
  <2>1. CASE RcIdleSkipped /\ UNCHANGED disp
    <3>1. VotesExact'
      BY <1>16, <2>1
        DEF OffWork, RcInv, VotesExact, ClocksOn, IrqsOn, rc, votes,
            RcIdleSkipped
    <3>2. RcTypes'
      BY <3>1, <2>1, <1>16, ThreadsAssumption
        DEF OffWork, RcInv, RcTypes, LockHeld, StatesOfSteps, VotesExact,
            ClocksOn, IrqsOn, States, FlushSteps, DispSteps, Disp, Suspend, rc,
            votes, RcIdleSkipped
    <3>3. LockHeld'
      BY <3>1, <2>1, <1>16, ThreadsAssumption
        DEF OffWork, RcInv, RcTypes, LockHeld, StatesOfSteps, VotesExact,
            ClocksOn, IrqsOn, States, FlushSteps, DispSteps, Disp, Suspend, rc,
            votes, RcIdleSkipped
    <3>4. StatesOfSteps'
      BY <3>1, <2>1, <1>16, ThreadsAssumption
        DEF OffWork, RcInv, RcTypes, LockHeld, StatesOfSteps, VotesExact,
            ClocksOn, IrqsOn, States, FlushSteps, DispSteps, Disp, Suspend, rc,
            votes, RcIdleSkipped
    <3> QED
      BY <3>1, <3>2, <3>3, <3>4 DEF RcInv
  <2>2. CASE RcIdleVideo /\ UNCHANGED disp
    <3>1. /\ VotesExact'
          /\ rc_state' = "IDLE" /\ active
          /\ rc_lock' = rc_lock /\ rc_lock = None
      BY <1>16, <2>2, IdleVideoKeepsVotes DEF OffWork
    <3>2. RcTypes'
      BY <3>1, <2>2, <1>16, ThreadsAssumption
        DEF OffWork, RcInv, RcTypes, LockHeld, StatesOfSteps, VotesExact,
            ClocksOn, IrqsOn, States, FlushSteps, DispSteps, Disp, Suspend, rc,
            votes
    <3>3. LockHeld'
      BY <3>1, <2>2, <1>16, ThreadsAssumption
        DEF OffWork, RcInv, RcTypes, LockHeld, StatesOfSteps, VotesExact,
            ClocksOn, IrqsOn, States, FlushSteps, DispSteps, Disp, Suspend, rc,
            votes
    <3>4. StatesOfSteps'
      BY <3>1, <2>2, <1>16, ThreadsAssumption
        DEF OffWork, RcInv, RcTypes, LockHeld, StatesOfSteps, VotesExact,
            ClocksOn, IrqsOn, States, FlushSteps, DispSteps, Disp, Suspend, rc,
            votes
    <3> QED
      BY <3>1, <3>2, <3>3, <3>4 DEF RcInv
  <2>3. CASE RcIdleDecided(Disp) /\ disp' = "flush_events"
    <3>1. VotesExact'
      BY <1>16, <2>3
        DEF OffWork, RcInv, VotesExact, ClocksOn, IrqsOn, rc, votes,
            RcIdleDecided, MayIdle
    <3>2. RcTypes'
      BY <3>1, <2>3, <1>16, ThreadsAssumption
        DEF OffWork, RcInv, RcTypes, LockHeld, StatesOfSteps, VotesExact,
            ClocksOn, IrqsOn, States, FlushSteps, DispSteps, Disp, Suspend, rc,
            votes, RcIdleDecided, MayIdle
    <3>3. LockHeld'
      BY <3>1, <2>3, <1>16, ThreadsAssumption
        DEF OffWork, RcInv, RcTypes, LockHeld, StatesOfSteps, VotesExact,
            ClocksOn, IrqsOn, States, FlushSteps, DispSteps, Disp, Suspend, rc,
            votes, RcIdleDecided, MayIdle
    <3>4. StatesOfSteps'
      BY <3>1, <2>3, <1>16, ThreadsAssumption
        DEF OffWork, RcInv, RcTypes, LockHeld, StatesOfSteps, VotesExact,
            ClocksOn, IrqsOn, States, FlushSteps, DispSteps, Disp, Suspend, rc,
            votes, RcIdleDecided, MayIdle
    <3> QED
      BY <3>1, <3>2, <3>3, <3>4 DEF RcInv
  <2> QED
    BY <1>16, <2>1, <2>2, <2>3 DEF OffWork
<1>17. CASE SuspendRequest
  <2>1. CASE RcIdleSkipped /\ suspend' = "idle"
    <3>1. VotesExact'
      BY <1>17, <2>1
        DEF SuspendRequest, RcInv, VotesExact, ClocksOn, IrqsOn, rc, votes,
            RcIdleSkipped
    <3>2. RcTypes'
      BY <3>1, <2>1, <1>17, ThreadsAssumption
        DEF SuspendRequest, RcInv, RcTypes, LockHeld, StatesOfSteps,
            VotesExact, ClocksOn, IrqsOn, States, FlushSteps, DispSteps, Disp,
            Suspend, rc, votes, RcIdleSkipped
    <3>3. LockHeld'
      BY <3>1, <2>1, <1>17, ThreadsAssumption
        DEF SuspendRequest, RcInv, RcTypes, LockHeld, StatesOfSteps,
            VotesExact, ClocksOn, IrqsOn, States, FlushSteps, DispSteps, Disp,
            Suspend, rc, votes, RcIdleSkipped
    <3>4. StatesOfSteps'
      BY <3>1, <2>1, <1>17, ThreadsAssumption
        DEF SuspendRequest, RcInv, RcTypes, LockHeld, StatesOfSteps,
            VotesExact, ClocksOn, IrqsOn, States, FlushSteps, DispSteps, Disp,
            Suspend, rc, votes, RcIdleSkipped
    <3> QED
      BY <3>1, <3>2, <3>3, <3>4 DEF RcInv
  <2>2. CASE RcIdleVideo /\ suspend' = "idle"
    <3>1. /\ VotesExact'
          /\ rc_state' = "IDLE" /\ active
          /\ rc_lock' = rc_lock /\ rc_lock = None
      BY <1>17, <2>2, IdleVideoKeepsVotes DEF SuspendRequest
    <3>2. RcTypes'
      BY <3>1, <2>2, <1>17, ThreadsAssumption
        DEF SuspendRequest, RcInv, RcTypes, LockHeld, StatesOfSteps,
            VotesExact, ClocksOn, IrqsOn, States, FlushSteps, DispSteps, Disp,
            Suspend, rc, votes
    <3>3. LockHeld'
      BY <3>1, <2>2, <1>17, ThreadsAssumption
        DEF SuspendRequest, RcInv, RcTypes, LockHeld, StatesOfSteps,
            VotesExact, ClocksOn, IrqsOn, States, FlushSteps, DispSteps, Disp,
            Suspend, rc, votes
    <3>4. StatesOfSteps'
      BY <3>1, <2>2, <1>17, ThreadsAssumption
        DEF SuspendRequest, RcInv, RcTypes, LockHeld, StatesOfSteps,
            VotesExact, ClocksOn, IrqsOn, States, FlushSteps, DispSteps, Disp,
            Suspend, rc, votes
    <3> QED
      BY <3>1, <3>2, <3>3, <3>4 DEF RcInv
  <2>3. CASE RcIdleDecided(Suspend) /\ suspend' = "flush_events"
    <3>1. VotesExact'
      BY <1>17, <2>3
        DEF SuspendRequest, RcInv, VotesExact, ClocksOn, IrqsOn, rc, votes,
            RcIdleDecided, RcIdleRestarts, MayIdle
    <3>2. RcTypes'
      BY <3>1, <2>3, <1>17, ThreadsAssumption
        DEF SuspendRequest, RcInv, RcTypes, LockHeld, StatesOfSteps,
            VotesExact, ClocksOn, IrqsOn, States, FlushSteps, DispSteps, Disp,
            Suspend, rc, votes, RcIdleDecided, RcIdleRestarts, MayIdle
    <3>3. LockHeld'
      BY <3>1, <2>3, <1>17, ThreadsAssumption
        DEF SuspendRequest, RcInv, RcTypes, LockHeld, StatesOfSteps,
            VotesExact, ClocksOn, IrqsOn, States, FlushSteps, DispSteps, Disp,
            Suspend, rc, votes, RcIdleDecided, RcIdleRestarts, MayIdle
    <3>4. StatesOfSteps'
      BY <3>1, <2>3, <1>17, ThreadsAssumption
        DEF SuspendRequest, RcInv, RcTypes, LockHeld, StatesOfSteps,
            VotesExact, ClocksOn, IrqsOn, States, FlushSteps, DispSteps, Disp,
            Suspend, rc, votes, RcIdleDecided, RcIdleRestarts, MayIdle
    <3> QED
      BY <3>1, <3>2, <3>3, <3>4 DEF RcInv
  <2> QED
    BY <1>17, <2>1, <2>2, <2>3 DEF SuspendRequest
<1>18. CASE OffWorkFlush
  <2>1. VotesExact'
    BY <1>18 DEF OffWorkFlush, RcInv, VotesExact, ClocksOn, IrqsOn, rc, votes,
       RcIdleFlush
  <2>2. RcTypes'
    BY <1>18, <2>1, ThreadsAssumption
      DEF OffWorkFlush, RcInv, RcTypes, LockHeld, StatesOfSteps, VotesExact,
          ClocksOn, IrqsOn, States, FlushSteps, DispSteps, Disp, Suspend, rc,
          votes, RcIdleFlush
  <2>3. LockHeld'
    BY <1>18, <2>1, ThreadsAssumption
      DEF OffWorkFlush, RcInv, RcTypes, LockHeld, StatesOfSteps, VotesExact,
          ClocksOn, IrqsOn, States, FlushSteps, DispSteps, Disp, Suspend, rc,
          votes, RcIdleFlush
  <2>4. StatesOfSteps'
    BY <1>18, <2>1, ThreadsAssumption
      DEF OffWorkFlush, RcInv, RcTypes, LockHeld, StatesOfSteps, VotesExact,
          ClocksOn, IrqsOn, States, FlushSteps, DispSteps, Disp, Suspend, rc,
          votes, RcIdleFlush
  <2> QED
    BY <2>1, <2>2, <2>3, <2>4 DEF RcInv
<1>19. CASE OffWorkFlushed
  <2>1. /\ VotesExact'
        /\ rc_state = "ON" /\ rc_state' = "IDLE"
        /\ rc_lock = Disp /\ rc_lock' = None
        /\ active
    BY <1>19, IdleFlushedKeepsVotes DEF OffWorkFlushed
  <2>2. RcTypes'
    BY <1>19, <2>1, ThreadsAssumption
      DEF OffWorkFlushed, RcInv, RcTypes, LockHeld, StatesOfSteps, VotesExact,
          ClocksOn, IrqsOn, States, FlushSteps, DispSteps, Disp, Suspend, rc,
          votes
  <2>3. LockHeld'
    BY <1>19, <2>1, ThreadsAssumption
      DEF OffWorkFlushed, RcInv, RcTypes, LockHeld, StatesOfSteps, VotesExact,
          ClocksOn, IrqsOn, States, FlushSteps, DispSteps, Disp, Suspend, rc,
          votes
  <2>4. StatesOfSteps'
    BY <1>19, <2>1, ThreadsAssumption
      DEF OffWorkFlushed, RcInv, RcTypes, LockHeld, StatesOfSteps, VotesExact,
          ClocksOn, IrqsOn, States, FlushSteps, DispSteps, Disp, Suspend, rc,
          votes
  <2> QED
    BY <2>1, <2>2, <2>3, <2>4 DEF RcInv
<1>20. CASE SuspendEnter
  <2>1. VotesExact'
    BY <1>20 DEF SuspendEnter, RcInv, VotesExact, ClocksOn, IrqsOn, rc, votes
  <2>2. RcTypes'
    BY <1>20, <2>1, ThreadsAssumption
      DEF SuspendEnter, RcInv, RcTypes, LockHeld, StatesOfSteps, VotesExact,
          ClocksOn, IrqsOn, States, FlushSteps, DispSteps, Disp, Suspend, rc,
          votes
  <2>3. LockHeld'
    BY <1>20, <2>1, ThreadsAssumption
      DEF SuspendEnter, RcInv, RcTypes, LockHeld, StatesOfSteps, VotesExact,
          ClocksOn, IrqsOn, States, FlushSteps, DispSteps, Disp, Suspend, rc,
          votes
  <2>4. StatesOfSteps'
    BY <1>20, <2>1, ThreadsAssumption
      DEF SuspendEnter, RcInv, RcTypes, LockHeld, StatesOfSteps, VotesExact,
          ClocksOn, IrqsOn, States, FlushSteps, DispSteps, Disp, Suspend, rc,
          votes
  <2> QED
    BY <2>1, <2>2, <2>3, <2>4 DEF RcInv
<1>21. CASE SuspendWait
  <2>1. VotesExact'
    BY <1>21 DEF SuspendWait, RcInv, VotesExact, ClocksOn, IrqsOn, rc, votes
  <2>2. RcTypes'
    BY <1>21, <2>1, ThreadsAssumption
      DEF SuspendWait, RcInv, RcTypes, LockHeld, StatesOfSteps, VotesExact,
          ClocksOn, IrqsOn, States, FlushSteps, DispSteps, Disp, Suspend, rc,
          votes
  <2>3. LockHeld'
    BY <1>21, <2>1, ThreadsAssumption
      DEF SuspendWait, RcInv, RcTypes, LockHeld, StatesOfSteps, VotesExact,
          ClocksOn, IrqsOn, States, FlushSteps, DispSteps, Disp, Suspend, rc,
          votes
  <2>4. StatesOfSteps'
    BY <1>21, <2>1, ThreadsAssumption
      DEF SuspendWait, RcInv, RcTypes, LockHeld, StatesOfSteps, VotesExact,
          ClocksOn, IrqsOn, States, FlushSteps, DispSteps, Disp, Suspend, rc,
          votes
  <2> QED
    BY <2>1, <2>2, <2>3, <2>4 DEF RcInv
<1>22. CASE SuspendFlush
  <2>1. VotesExact'
    BY <1>22 DEF SuspendFlush, RcInv, VotesExact, ClocksOn, IrqsOn, rc, votes,
       RcIdleFlush
  <2>2. RcTypes'
    BY <1>22, <2>1, ThreadsAssumption
      DEF SuspendFlush, RcInv, RcTypes, LockHeld, StatesOfSteps, VotesExact,
          ClocksOn, IrqsOn, States, FlushSteps, DispSteps, Disp, Suspend, rc,
          votes, RcIdleFlush
  <2>3. LockHeld'
    BY <1>22, <2>1, ThreadsAssumption
      DEF SuspendFlush, RcInv, RcTypes, LockHeld, StatesOfSteps, VotesExact,
          ClocksOn, IrqsOn, States, FlushSteps, DispSteps, Disp, Suspend, rc,
          votes, RcIdleFlush
  <2>4. StatesOfSteps'
    BY <1>22, <2>1, ThreadsAssumption
      DEF SuspendFlush, RcInv, RcTypes, LockHeld, StatesOfSteps, VotesExact,
          ClocksOn, IrqsOn, States, FlushSteps, DispSteps, Disp, Suspend, rc,
          votes, RcIdleFlush
  <2> QED
    BY <2>1, <2>2, <2>3, <2>4 DEF RcInv
<1>23. CASE SuspendFlushed
  <2>1. /\ VotesExact'
        /\ rc_state = "ON" /\ rc_state' = "IDLE"
        /\ rc_lock = Suspend /\ rc_lock' = None
        /\ active
    BY <1>23, IdleFlushedKeepsVotes DEF SuspendFlushed
  <2>2. RcTypes'
    BY <1>23, <2>1, ThreadsAssumption
      DEF SuspendFlushed, RcInv, RcTypes, LockHeld, StatesOfSteps, VotesExact,
          ClocksOn, IrqsOn, States, FlushSteps, DispSteps, Disp, Suspend, rc,
          votes
  <2>3. LockHeld'
    BY <1>23, <2>1, ThreadsAssumption
      DEF SuspendFlushed, RcInv, RcTypes, LockHeld, StatesOfSteps, VotesExact,
          ClocksOn, IrqsOn, States, FlushSteps, DispSteps, Disp, Suspend, rc,
          votes
  <2>4. StatesOfSteps'
    BY <1>23, <2>1, ThreadsAssumption
      DEF SuspendFlushed, RcInv, RcTypes, LockHeld, StatesOfSteps, VotesExact,
          ClocksOn, IrqsOn, States, FlushSteps, DispSteps, Disp, Suspend, rc,
          votes
  <2> QED
    BY <2>1, <2>2, <2>3, <2>4 DEF RcInv
<1>24. CASE EsdWork
  <2>0. RcInv
    OBVIOUS
  <2>1. VotesExact' /\ rc_state' \in {rc_state, "ON"}
    BY <1>24, KickoffKeepsVotes DEF EsdWork, RcKickoff, RcKickoffFails
  <2>2. RcTypes'
    BY <2>0, <2>1, <1>24
      DEF EsdWork, RcInv, RcTypes, VotesExact, States, RcKickoff,
          RcKickoffFails
  <2>3. LockHeld'
    BY <2>0, <2>1, <1>24 DEF EsdWork, RcInv, RcTypes, LockHeld, RcKickoff,
         RcKickoffFails
  <2>4. StatesOfSteps'
    BY <2>0, <2>1, <1>24 DEF EsdWork, RcInv, RcTypes, StatesOfSteps,
         RcKickoff, RcKickoffFails
  <2> QED
    BY <2>1, <2>2, <2>3, <2>4 DEF RcInv
<1>25. ASSUME NEW w \in DOMAIN reporter, WaitStep(w)
       PROVE  RcInv'
  BY <1>25, Unmoved DEF WaitStep, WaitTimeout, TimeoutReported
<1>26. CASE FrameDone
  BY <1>26, Unmoved DEF FrameDone
<1>27. CASE FrameWork
  BY <1>27, Unmoved DEF FrameWork
<1>28. CASE FlushMarker
  BY <1>28, Unmoved DEF FlushMarker
<1>29. CASE DispCancels
  BY <1>29, Unmoved DEF DispCancels
<1>30. ASSUME NEW r \in DOMAIN reporter, Detect(r) \/ ReportStep(r)
       PROVE  RcInv'
  BY <1>30, Unmoved DEF Detect, ReportStep, CheckDead, Notify, EsdFlushed
<1>31. CASE UNCHANGED vars
  BY <1>31, Unmoved DEF vars
<1> QED
  BY <1>1, <1>2, <1>3, <1>4, <1>5, <1>6, <1>7, <1>8, <1>9, <1>10, <1>11, <1>12,
     <1>13, <1>14, <1>15, <1>16, <1>17, <1>18, <1>19, <1>20, <1>21, <1>22,
     <1>23, <1>24, <1>25, <1>26, <1>27, <1>28, <1>29, <1>30, <1>31
  DEF Next, UserStep, CommitStep, EventStep, SuspendStep

(* While no video panel is switched seamlessly, the clocks, interrupts, CPU*)
(* latency requests and the RSC are voted for exactly as rc_state says.    *)
THEOREM VotesFollowState ==
  ASSUME DmsModes \subseteq {"cmd"}
  PROVE  Spec => []VotesMatchState
<1>1. RcInv => VotesMatchState
  BY DEF RcInv, VotesExact, VotesMatchState
<1>2. RcInv /\ [Next]_vars => RcInv'
  BY StepRc
<1> QED
  BY <1>1, <1>2, InitRc, PTL DEF Spec

-----------------------------------------------------------------------------
(* Types.                                                                  *)

ReporterSteps == {"idle", "found", "report", "notify", "flush"}
DataTypes ==
  /\ frame_pending \in Nat
  /\ in_flight \in Nat
  /\ late \subseteq Reporters \union {Disp}
  /\ queue \in Seq(Works)
  /\ reporter \in [Reporters \union {Disp} -> ReporterSteps]

(* No step takes the frame counts below zero, queues anything but a work,  *)
(* or moves a reporter out of its steps.                                   *)
LEMMA StepData == DataTypes /\ [Next]_vars => DataTypes'
<1> SUFFICES ASSUME DataTypes, [Next]_vars PROVE DataTypes'
  OBVIOUS
<1> USE DEF DataTypes, frames, esd
<1>1. CASE \/ StartModeset \/ StartEnable \/ StartDisable \/ SuspendEnter
           \/ WaitEnds \/ DispKickoff \/ PreModeset \/ PostModeset
  BY <1>1 DEF StartModeset, StartEnable, StartDisable, SuspendEnter, WaitEnds,
     DispKickoff, PreModeset, PostModeset
<1>2. CASE \/ Reinit \/ PreStopCancel \/ PreStop \/ Stop
           \/ OffWorkFlushed \/ SuspendFlushed \/ StartCommit \/ EarlyWakeup
  BY <1>2 DEF Reinit, PreStopCancel, PreStop, Stop, OffWorkFlushed,
     SuspendFlushed, StartCommit, EarlyWakeup
<1>3. ASSUME NEW w \in DOMAIN reporter, WaitStep(w)
      PROVE  DataTypes'
  BY <1>3 DEF WaitStep, WaitTimeout, TimeoutReported, Works
<1>4. CASE Launch
  BY <1>4 DEF Launch
<1>5. CASE CrtcOff
  BY <1>5 DEF CrtcOff
<1>6. CASE FrameDone
  BY <1>6 DEF FrameDone, Works
<1>7. CASE FrameWork
  BY <1>7 DEF FrameWork
<1>8. CASE EsdWork
  BY <1>8 DEF EsdWork, RcKickoff, RcKickoffFails
<1>9. CASE FlushMarker
  BY <1>9 DEF FlushMarker
<1>10. CASE DispCancels
  BY <1>10 DEF DispCancels, ReporterSteps
<1>11. CASE SuspendWait
  BY <1>11 DEF SuspendWait, Works
<1>12. CASE OffWorkFlush
  BY <1>12 DEF OffWorkFlush, RcIdleFlush, Works
<1>13. CASE SuspendFlush
  BY <1>13 DEF SuspendFlush, RcIdleFlush, Works
<1>14. CASE OffWork
  BY <1>14 DEF OffWork, RcIdleSkipped, RcIdleVideo, RcIdleDecided
<1>15. CASE SuspendRequest
  BY <1>15 DEF SuspendRequest, RcIdleSkipped, RcIdleVideo, RcIdleDecided
<1>16. ASSUME NEW r \in DOMAIN reporter, Detect(r) \/ ReportStep(r)
       PROVE  DataTypes'
  BY <1>16 DEF Detect, ReportStep, CheckDead, Notify, EsdFlushed,
     ReporterSteps, Works
<1>17. CASE UNCHANGED vars
  BY <1>17 DEF vars
<1> QED
  BY <1>1, <1>2, <1>3, <1>4, <1>5, <1>6, <1>7, <1>8, <1>9, <1>10, <1>11, <1>12,
     <1>13, <1>14, <1>15, <1>16, <1>17
  DEF Next, UserStep, CommitStep, EventStep, SuspendStep

FlagTypes ==
  /\ primary \in BOOLEAN
  /\ active \in BOOLEAN /\ idle_pc \in BOOLEAN
  /\ rsc \in BOOLEAN
  /\ timer \in BOOLEAN
  /\ kickoff \in BOOLEAN
  /\ status_check \in BOOLEAN /\ esd_pending \in BOOLEAN
  /\ panel_dead \in BOOLEAN /\ delay_kickoff \in BOOLEAN

(* No step makes a flag anything but true or false.                        *)
LEMMA StepFlags == FlagTypes /\ [Next]_vars => FlagTypes'
<1> SUFFICES ASSUME FlagTypes, [Next]_vars PROVE FlagTypes'
  OBVIOUS
<1> USE DEF FlagTypes, crtc, rc, votes, frames, esd
<1>1. CASE StartCommit
  BY <1>1 DEF StartCommit
<1>2. CASE Launch
  BY <1>2 DEF Launch
<1>3. CASE StartModeset
  BY <1>3 DEF StartModeset
<1>4. CASE StartEnable
  BY <1>4 DEF StartEnable
<1>5. CASE Reinit
  BY <1>5 DEF Reinit
<1>6. CASE StartDisable
  BY <1>6 DEF StartDisable
<1>7. CASE PreStopCancel
  BY <1>7 DEF PreStopCancel
<1>8. CASE CrtcOff
  BY <1>8 DEF CrtcOff
<1>9. CASE DispKickoff
  BY <1>9 DEF DispKickoff, RcKickoff, RcKickoffFails, RestartTimer, PowerUp
<1>10. CASE EsdWork
  BY <1>10 DEF EsdWork, RcKickoff, RcKickoffFails, RestartTimer, PowerUp
<1>11. CASE PreModeset
  BY <1>11 DEF PreModeset, RcPreModeset, RcPreModesetFails
<1>12. CASE PostModeset
  BY <1>12 DEF PostModeset, RcPostModeset
<1>13. CASE PreStop
  BY <1>13 DEF PreStop, RcPreStop
<1>14. CASE Stop
  BY <1>14 DEF Stop, RcStop, PowerDown
<1>15. CASE EarlyWakeup
  BY <1>15 DEF EarlyWakeup, RcEarlyWakeup, PowerUp
<1>16. CASE OffWork
  BY <1>16 DEF OffWork, RcIdleSkipped, RcIdleVideo, RcIdleDecided,
     RcIdleRestarts, MayIdle
<1>17. CASE SuspendRequest
  BY <1>17 DEF SuspendRequest, RcIdleSkipped, RcIdleVideo, RcIdleDecided,
     RcIdleRestarts, MayIdle
<1>18. CASE OffWorkFlushed
  BY <1>18 DEF OffWorkFlushed, RcIdleFlushed
<1>19. CASE SuspendFlushed
  BY <1>19 DEF SuspendFlushed, RcIdleFlushed
<1>20. CASE DispCancels
  BY <1>20 DEF DispCancels
<1>21. CASE \/ SuspendEnter \/ SuspendWait \/ SuspendFlush \/ WaitEnds
            \/ OffWorkFlush \/ FrameDone \/ FrameWork \/ FlushMarker
  BY <1>21 DEF SuspendEnter, SuspendWait, SuspendFlush, WaitEnds,
     OffWorkFlush, FrameDone, FrameWork, FlushMarker
<1>22. ASSUME NEW r \in DOMAIN reporter,
              Detect(r) \/ ReportStep(r) \/ WaitStep(r)
       PROVE  FlagTypes'
  <2>1. CASE Detect(r)
    BY <2>1 DEF Detect
  <2>2. CASE CheckDead(r)
    BY <2>2 DEF CheckDead
  <2>3. CASE Notify(r)
    BY <2>3 DEF Notify
  <2>4. CASE EsdFlushed(r)
    BY <2>4 DEF EsdFlushed
  <2>5. CASE WaitStep(r)
    BY <2>5 DEF WaitStep, WaitTimeout, TimeoutReported
  <2> QED
    BY <1>22, <2>1, <2>2, <2>3, <2>4, <2>5 DEF ReportStep
<1>23. CASE UNCHANGED vars
  BY <1>23 DEF vars
<1> QED
  BY <1>1, <1>2, <1>3, <1>4, <1>5, <1>6, <1>7, <1>8, <1>9, <1>10, <1>11, <1>12,
     <1>13, <1>14, <1>15, <1>16, <1>17, <1>18, <1>19, <1>20, <1>21, <1>22, <1>23
  DEF Next, UserStep, CommitStep, EventStep, SuspendStep

(* Every variable keeps its type while no video panel is switched          *)
(* seamlessly: the votes are what could go below zero.                     *)
THEOREM TypeCorrect ==
  ASSUME DmsModes \subseteq {"cmd"}
  PROVE  Spec => []TypeOK
<1> DEFINE TypeInv == RcInv /\ DataTypes /\ FlagTypes
<1>1. Init => TypeInv
  <2> SUFFICES ASSUME Init PROVE TypeInv
    OBVIOUS
  <2>1. RcInv
    BY InitRc
  <2>2. DataTypes
    BY DEF Init, DataTypes, ReporterSteps
  <2>3. FlagTypes
    BY Zenon, FlagsAssumption DEF Init, FlagTypes
  <2> QED
    BY <2>1, <2>2, <2>3
<1>2. TypeInv /\ [Next]_vars => TypeInv'
  BY StepRc, StepData, StepFlags
<1>3. TypeInv => TypeOK
  <2> SUFFICES ASSUME TypeInv PROVE TypeOK
    OBVIOUS
  <2>1. clk \in Nat /\ irq \in Nat /\ qos \in Nat
    BY DEF RcInv, VotesExact
  <2> QED
    BY <2>1 DEF RcInv, RcTypes, DataTypes, FlagTypes, ReporterSteps, States,
       TypeOK
<1> QED
  BY <1>1, <1>2, <1>3, PTL DEF Spec

-----------------------------------------------------------------------------
(* A display that is off.                                                  *)

Stopped == {"pre_stop_rc", "stop", "off", "reinit"}
Disabling == {"drain", "kickoff_off", "pre_stop"} \union Stopped

(* The kickoff an ESD failure asks for is queued only while the status work*)
(* waits for it, and the status work is at rest from the moment the display*)
(* is being disabled: nothing powers the encoder up behind the display     *)
(* thread, whose STOP event then finds a state it can leave, and nothing   *)
(* schedules the off work after PRE_STOP has cancelled it.                 *)
OffInv ==
  /\ Queued("esd") => StatusWork # None /\ reporter[StatusWork] = "flush"
  /\ StatusWork # None /\ (disp \in Disabling \/ ~active)
       => reporter[StatusWork] = "idle" /\ status_check = FALSE
  /\ ~active => disp = "idle" /\ rc_state = "OFF"
  /\ disp = "stop" => rc_state \in {"OFF", "PRE_OFF", "IDLE"}
  /\ disp = "off" => rc_state = "OFF"
  /\ disp \in Stopped \/ ~active => timer = FALSE

(* A work appended to the event thread's queue is the only one that was    *)
(* not queued before.                                                      *)
LEMMA QueuedAppend ==
  ASSUME NEW w, NEW x, queue \in Seq(Works), queue' = Append(queue, w), w # x
  PROVE  Queued(x)' => Queued(x)
  BY DEF Queued

(* Taking the work at the head of the queue queues nothing.                *)
LEMMA QueuedTail ==
  ASSUME NEW x, queue \in Seq(Works), queue # <<>>, queue' = Tail(queue)
  PROVE  Queued(x)' => Queued(x)
<1> SUFFICES ASSUME NEW n \in 1 .. Len(Tail(queue)), Tail(queue)[n] = x
             PROVE  Queued(x)
  BY DEF Queued
<1>1. n + 1 \in 1 .. Len(queue) /\ queue[n + 1] = x
  OBVIOUS
<1> QED
  BY <1>1 DEF Queued

(* The work at the head of the queue is queued.                            *)
LEMMA QueuedHead ==
  ASSUME queue \in Seq(Works), queue # <<>>
  PROVE  Queued(Head(queue))
  BY DEF Queued

(* Every step keeps OffInv when the panel has no ESD interrupt thread,     *)
(* which nothing waits for.                                                *)
LEMMA StepOff ==
  ASSUME EsdIrq = None
  PROVE  RcInv /\ DataTypes /\ OffInv /\ [Next]_vars => OffInv'
<1> SUFFICES ASSUME RcInv, DataTypes, OffInv, [Next]_vars PROVE OffInv'
  OBVIOUS
<1>0. StatusWork # None => Reporters = {StatusWork} /\ StatusWork # Disp
  BY ThreadsAssumption DEF Reporters
<1> USE DEF OffInv, Disabling, Stopped, crtc, rc, votes, frames, esd
<1>1. CASE StartCommit
  BY <1>1, <1>0, ThreadsAssumption
    DEF StartCommit, RcInv, RcTypes, StatesOfSteps, LockHeld, FlushSteps,
        DispSteps, States, Queued, MayCommit
<1>2. CASE Launch
  BY <1>2, <1>0, ThreadsAssumption
    DEF Launch, RcInv, RcTypes, StatesOfSteps, LockHeld, FlushSteps, DispSteps,
        States, Queued, MayCommit
<1>3. CASE StartModeset
  BY <1>3, <1>0, ThreadsAssumption
    DEF StartModeset, RcInv, RcTypes, StatesOfSteps, LockHeld, FlushSteps,
        DispSteps, States, Queued, MayCommit
<1>4. CASE StartEnable
  BY <1>4, <1>0, ThreadsAssumption
    DEF StartEnable, RcInv, RcTypes, StatesOfSteps, LockHeld, FlushSteps,
        DispSteps, States, Queued, MayCommit
<1>5. CASE Reinit
  BY <1>5, <1>0, ThreadsAssumption
    DEF Reinit, RcInv, RcTypes, StatesOfSteps, LockHeld, FlushSteps, DispSteps,
        States, Queued, MayCommit
<1>6. CASE StartDisable
  BY <1>6, <1>0, ThreadsAssumption
    DEF StartDisable, RcInv, RcTypes, StatesOfSteps, LockHeld, FlushSteps,
        DispSteps, States, Queued, MayCommit
<1>7. CASE PreStopCancel
  BY <1>7, <1>0, ThreadsAssumption
    DEF PreStopCancel, RcInv, RcTypes, StatesOfSteps, LockHeld, FlushSteps,
        DispSteps, States, Queued, MayCommit
<1>8. CASE SuspendEnter
  BY <1>8, <1>0, ThreadsAssumption
    DEF SuspendEnter, RcInv, RcTypes, StatesOfSteps, LockHeld, FlushSteps,
        DispSteps, States, Queued, MayCommit
<1>9. CASE WaitEnds
  BY <1>9, <1>0, ThreadsAssumption
    DEF WaitEnds, RcInv, RcTypes, StatesOfSteps, LockHeld, FlushSteps,
        DispSteps, States, Queued, AfterWait, Waits
<1>10. CASE CrtcOff
  BY <1>10, <1>0, ThreadsAssumption
    DEF CrtcOff, RcInv, RcTypes, StatesOfSteps, LockHeld, FlushSteps,
        DispSteps, States, Queued
<1>11. CASE DispKickoff
  BY <1>11, <1>0, ThreadsAssumption
    DEF DispKickoff, RcInv, RcTypes, StatesOfSteps, LockHeld, FlushSteps,
        DispSteps, States, Queued, RcKickoff, RcKickoffFails, PowerUp
<1>12. CASE PreModeset
  BY <1>12, <1>0, ThreadsAssumption
    DEF PreModeset, RcInv, RcTypes, StatesOfSteps, LockHeld, FlushSteps,
        DispSteps, States, Queued, RcPreModeset, RcPreModesetFails
<1>13. CASE PostModeset
  BY <1>13, <1>0, ThreadsAssumption
    DEF PostModeset, RcInv, RcTypes, StatesOfSteps, LockHeld, FlushSteps,
        DispSteps, States, Queued, RcPostModeset
<1>14. CASE PreStop
  BY <1>14, <1>0, ThreadsAssumption
    DEF PreStop, RcInv, RcTypes, StatesOfSteps, LockHeld, FlushSteps,
        DispSteps, States, Queued, RcPreStop
<1>15. CASE Stop
  BY <1>15, <1>0, ThreadsAssumption
    DEF Stop, RcInv, RcTypes, StatesOfSteps, LockHeld, FlushSteps, DispSteps,
        States, Queued, RcStop, PowerDown
<1>16. CASE EarlyWakeup
  BY <1>16, <1>0, ThreadsAssumption
    DEF EarlyWakeup, RcInv, RcTypes, StatesOfSteps, LockHeld, FlushSteps,
        DispSteps, States, Queued, RcEarlyWakeup, PowerUp
<1>17. CASE OffWork
  BY <1>17, <1>0, ThreadsAssumption
    DEF OffWork, RcInv, RcTypes, StatesOfSteps, LockHeld, FlushSteps,
        DispSteps, States, Queued, RcIdleSkipped, RcIdleVideo, RcIdleDecided,
        MayIdle
<1>18. CASE SuspendRequest
  BY <1>18, <1>0, ThreadsAssumption
    DEF SuspendRequest, RcInv, RcTypes, StatesOfSteps, LockHeld, FlushSteps,
        DispSteps, States, Queued, RcIdleSkipped, RcIdleVideo, RcIdleDecided,
        RcIdleRestarts, MayIdle
<1>19. CASE OffWorkFlushed
  BY <1>19, <1>0, ThreadsAssumption
    DEF OffWorkFlushed, RcInv, RcTypes, StatesOfSteps, LockHeld, FlushSteps,
        DispSteps, States, Queued, RcIdleFlushed
<1>20. CASE SuspendFlushed
  BY <1>20, <1>0, ThreadsAssumption
    DEF SuspendFlushed, RcInv, RcTypes, StatesOfSteps, LockHeld, FlushSteps,
        DispSteps, States, Queued, RcIdleFlushed
<1>21. ASSUME NEW w \in DOMAIN reporter, WaitStep(w)
       PROVE  OffInv'
  <2>1. Queued("esd")' => Queued("esd")
    BY <1>21, QueuedAppend DEF WaitStep, WaitTimeout, TimeoutReported,
       DataTypes, Queued
  <2> QED
    BY <1>21, <2>1 DEF WaitStep, WaitTimeout, TimeoutReported
<1>22. CASE FrameDone
  <2>1. Queued("esd")' => Queued("esd")
    BY <1>22, QueuedAppend DEF FrameDone, DataTypes, Disp, Suspend, Queued
  <2> QED
    BY <1>22, <2>1
      DEF FrameDone, RcInv, RcTypes, StatesOfSteps, LockHeld, FlushSteps,
          DispSteps, States
<1>23. CASE SuspendWait
  <2>1. Queued("esd")' => Queued("esd")
    BY <1>23, QueuedAppend DEF SuspendWait, DataTypes, Disp, Suspend, Queued
  <2> QED
    BY <1>23, <2>1
      DEF SuspendWait, RcInv, RcTypes, StatesOfSteps, LockHeld, FlushSteps,
          DispSteps, States
<1>24. CASE OffWorkFlush
  <2>1. Queued("esd")' => Queued("esd")
    BY <1>24, QueuedAppend
      DEF OffWorkFlush, DataTypes, Disp, Suspend, Queued, RcIdleFlush
  <2> QED
    BY <1>24, <2>1
      DEF OffWorkFlush, RcInv, RcTypes, StatesOfSteps, LockHeld, FlushSteps,
          DispSteps, States, RcIdleFlush
<1>25. CASE SuspendFlush
  <2>1. Queued("esd")' => Queued("esd")
    BY <1>25, QueuedAppend
      DEF SuspendFlush, DataTypes, Disp, Suspend, Queued, RcIdleFlush
  <2> QED
    BY <1>25, <2>1
      DEF SuspendFlush, RcInv, RcTypes, StatesOfSteps, LockHeld, FlushSteps,
          DispSteps, States, RcIdleFlush
<1>26. CASE FrameWork
  <2>1. Queued("esd")' => Queued("esd")
    BY <1>26, QueuedTail DEF FrameWork, DataTypes
  <2> QED
    BY <1>26, <2>1 DEF FrameWork
<1>27. CASE FlushMarker
  <2>1. Queued("esd")' => Queued("esd")
    BY <1>27, QueuedTail DEF FlushMarker, DataTypes
  <2> QED
    BY <1>27, <2>1 DEF FlushMarker
<1>28. CASE EsdWork
  <2>1. Queued("esd") /\ (Queued("esd")' => Queued("esd"))
    BY <1>28, QueuedTail, QueuedHead DEF EsdWork, DataTypes
  <2>2. active /\ disp \notin Disabling
    BY <2>1
  <2> QED
    BY <1>28, <2>1, <2>2 DEF EsdWork, RcKickoff, RcKickoffFails
<1>29. CASE DispCancels
  BY <1>29, <1>0, ThreadsAssumption DEF DispCancels, DataTypes, Queued
<1>30. ASSUME NEW r \in DOMAIN reporter, Detect(r)
       PROVE  OffInv'
  BY <1>30, <1>0, ThreadsAssumption DEF Detect, DataTypes, Queued
<1>31. ASSUME NEW r \in DOMAIN reporter, CheckDead(r)
       PROVE  OffInv'
  BY <1>31, <1>0, ThreadsAssumption DEF CheckDead, DataTypes, Queued
<1>32. ASSUME NEW r \in DOMAIN reporter, Notify(r)
       PROVE  OffInv'
  <2>1. CASE r = Disp
    BY <1>32, <1>0, <2>1, ThreadsAssumption DEF Notify, DataTypes, Queued
  <2>2. CASE r # Disp
    <3>1. r = StatusWork /\ StatusWork # None
      BY <1>32, <2>2 DEF DataTypes, Reporters
    <3>2. reporter[StatusWork] = "notify"
      BY <1>32, <3>1 DEF Notify
    <3>3. active /\ disp \notin Disabling
      BY <3>1, <3>2
    <3>4. reporter'[StatusWork] = "flush"
      BY <1>32, <3>1, <3>3, <2>2 DEF Notify, DataTypes, Reporters
    <3> QED
      BY <1>32, <3>1, <3>3, <3>4 DEF Notify
  <2> QED
    BY <2>1, <2>2
<1>33. ASSUME NEW r \in DOMAIN reporter, EsdFlushed(r)
       PROVE  OffInv'
  BY <1>33, <1>0, ThreadsAssumption DEF EsdFlushed, DataTypes, Queued
<1>34. CASE UNCHANGED vars
  BY <1>34 DEF vars, Queued
<1> QED
  BY <1>1, <1>2, <1>3, <1>4, <1>5, <1>6, <1>7, <1>8, <1>9, <1>10, <1>11, <1>12,
     <1>13, <1>14, <1>15, <1>16, <1>17, <1>18, <1>19, <1>20, <1>21, <1>22,
     <1>23, <1>24, <1>25, <1>26, <1>27, <1>28, <1>29, <1>30, <1>31, <1>32,
     <1>33, <1>34
  DEF Next, UserStep, CommitStep, EventStep, SuspendStep, ReportStep

(* A display starts off, with an empty queue and no reporter at work.      *)
LEMMA OffInit == Init => RcInv /\ DataTypes /\ OffInv
<1> SUFFICES ASSUME Init PROVE RcInv /\ DataTypes /\ OffInv
  OBVIOUS
<1>1. RcInv
  BY InitRc
<1>2. DataTypes
  BY DEF Init, DataTypes, ReporterSteps
<1>3. OffInv
  BY DEF Init, OffInv, Queued, Disabling, Stopped, Reporters
<1> QED
  BY <1>1, <1>2, <1>3

(* A display whose CRTC is off has left the ON state and holds no vote,    *)
(* whatever its status work was doing when the disable began.              *)
THEOREM OffWhileInactive ==
  ASSUME DmsModes \subseteq {"cmd"}, EsdIrq = None
  PROVE  Spec => []OffWhenInactive
<1> DEFINE Inv == RcInv /\ DataTypes /\ OffInv
<1>1. Init => Inv
  BY OffInit
<1>2. Inv /\ [Next]_vars => Inv'
  BY StepRc, StepData, StepOff
<1>3. Inv => OffWhenInactive
  BY DEF OffInv, OffWhenInactive
<1> QED
  BY <1>1, <1>2, <1>3, PTL DEF Spec

(* virt_enable initialises the off work only when it is not pending: it was*)
(* cancelled by the disable before, and nothing has scheduled it since.    *)
THEOREM ReinitsAreSafe ==
  ASSUME DmsModes \subseteq {"cmd"}, EsdIrq = None
  PROVE  Spec => []NoReinitWhileArmed
<1> DEFINE Inv == RcInv /\ DataTypes /\ OffInv
<1>1. Init => Inv
  BY OffInit
<1>2. Inv /\ [Next]_vars => Inv'
  BY StepRc, StepData, StepOff
<1>3. Inv => NoReinitWhileArmed
  BY DEF OffInv, Stopped, NoReinitWhileArmed
<1> QED
  BY <1>1, <1>2, <1>3, PTL DEF Spec

-----------------------------------------------------------------------------
(* Frames.                                                                 *)

Launching == {"kickoff", "launch", "launch_failed"}
Drained == {"kickoff_off", "pre_stop", "pre_stop_rc", "stop", "off"}

(* Whoever has written a frame off is still in its wait until the event is *)
(* sent; the display thread and suspend keep out of each other's way; and  *)
(* the status work is at rest while the display is being disabled and while*)
(* it is off.                                                              *)
WaitersHeld ==
  /\ suspend # "idle" => disp \in {"idle"} \union FlushSteps
  /\ Disp \in late => disp \in Waits \/ suspend = "wait"
  /\ \A r \in late : r # Disp => reporter[r] = "flush"
StatusAtRest ==
  /\ ~active => disp = "idle"
  /\ StatusWork # None /\ (disp \in Disabling \/ ~active)
       => reporter[StatusWork] = "idle" /\ status_check = FALSE

(* A step that leaves the waiters alone.                                   *)
LEMMA StepWaiters == DataTypes /\ WaitersHeld /\ [Next]_vars => WaitersHeld'
<1> SUFFICES ASSUME DataTypes, WaitersHeld, [Next]_vars PROVE WaitersHeld'
  OBVIOUS
<1> USE DEF WaitersHeld, FlushSteps, Waits, crtc, rc, frames, esd
<1>1. CASE StartCommit \/ StartModeset \/ StartEnable \/ StartDisable
  BY <1>1 DEF StartCommit, StartModeset, StartEnable, StartDisable, MayCommit
<1>2. CASE Launch \/ Reinit \/ PreStopCancel \/ CrtcOff
  BY <1>2 DEF Launch, Reinit, PreStopCancel, CrtcOff
<1>3. CASE WaitEnds
  BY <1>3 DEF WaitEnds, AfterWait
<1>4. CASE DispKickoff \/ PreModeset \/ PostModeset \/ PreStop \/ Stop
  BY <1>4 DEF DispKickoff, PreModeset, PostModeset, PreStop, Stop
<1>5. CASE FrameDone \/ FrameWork \/ EsdWork \/ FlushMarker \/ EarlyWakeup
  BY <1>5 DEF FrameDone, FrameWork, EsdWork, FlushMarker, EarlyWakeup
<1>6. CASE SuspendEnter \/ SuspendWait \/ SuspendFlush \/ SuspendFlushed
  BY <1>6 DEF SuspendEnter, SuspendWait, SuspendFlush, SuspendFlushed
<1>7. CASE SuspendRequest
  BY <1>7 DEF SuspendRequest
<1>8. CASE OffWork \/ OffWorkFlush \/ OffWorkFlushed
  BY <1>8 DEF OffWork, OffWorkFlush, OffWorkFlushed
<1>9. CASE DispCancels
  BY <1>9 DEF DispCancels, DataTypes
<1>10. ASSUME NEW r \in DOMAIN reporter, Detect(r) \/ ReportStep(r)
       PROVE  WaitersHeld'
  BY <1>10 DEF Detect, ReportStep, CheckDead, Notify, EsdFlushed, DataTypes
<1>11. ASSUME NEW w \in DOMAIN reporter, WaitStep(w)
       PROVE  WaitersHeld'
  BY <1>11 DEF WaitStep, WaitTimeout, TimeoutReported, Waiting, FrameWaiter,
     FlushedReporter
<1>12. CASE UNCHANGED vars
  BY <1>12 DEF vars
<1> QED
  BY <1>1, <1>2, <1>3, <1>4, <1>5, <1>6, <1>7, <1>8, <1>9, <1>10, <1>11, <1>12
  DEF Next, UserStep, CommitStep, EventStep, SuspendStep

(* Nothing starts the status work between the disable and the next commit. *)
LEMMA StepAtRest ==
  ASSUME EsdIrq = None
  PROVE  DataTypes /\ StatusAtRest /\ [Next]_vars => StatusAtRest'
<1> SUFFICES ASSUME DataTypes, StatusAtRest, [Next]_vars PROVE StatusAtRest'
  OBVIOUS
<1>0. StatusWork # None => StatusWork # Disp
  BY ThreadsAssumption DEF Reporters
<1> USE DEF StatusAtRest, Disabling, Stopped, crtc, rc, frames, esd
<1>1. CASE StartCommit \/ StartModeset \/ StartEnable \/ StartDisable
  <2>1. CASE StartCommit
    BY <2>1 DEF StartCommit, MayCommit
  <2>2. CASE StartModeset
    BY <2>2 DEF StartModeset, MayCommit
  <2>3. CASE StartEnable
    BY <2>3 DEF StartEnable, MayCommit
  <2>4. CASE StartDisable
    BY <2>4 DEF StartDisable, MayCommit
  <2> QED
    BY <1>1, <2>1, <2>2, <2>3, <2>4
<1>2. CASE Launch \/ Reinit \/ PreStopCancel \/ CrtcOff
  BY <1>2 DEF Launch, Reinit, PreStopCancel, CrtcOff
<1>3. CASE WaitEnds
  BY <1>3 DEF WaitEnds, Waits, AfterWait
<1>4. CASE DispKickoff \/ PreModeset \/ PostModeset \/ PreStop \/ Stop
  BY <1>4 DEF DispKickoff, PreModeset, PostModeset, PreStop, Stop
<1>5. CASE FrameDone \/ FrameWork \/ EsdWork \/ FlushMarker \/ EarlyWakeup
  BY <1>5 DEF FrameDone, FrameWork, EsdWork, FlushMarker, EarlyWakeup
<1>6. CASE SuspendEnter \/ SuspendWait \/ SuspendFlush \/ SuspendFlushed
  BY <1>6 DEF SuspendEnter, SuspendWait, SuspendFlush, SuspendFlushed
<1>7. CASE SuspendRequest
  BY <1>7 DEF SuspendRequest
<1>8. CASE OffWork \/ OffWorkFlush \/ OffWorkFlushed
  BY <1>8 DEF OffWork, OffWorkFlush, OffWorkFlushed, RcIdleDecided, MayIdle
<1>9. CASE DispCancels
  BY <1>9, <1>0 DEF DispCancels, DataTypes
<1>10. ASSUME NEW r \in DOMAIN reporter, Detect(r) \/ ReportStep(r)
       PROVE  StatusAtRest'
  BY <1>10, <1>0 DEF Detect, ReportStep, CheckDead, Notify, EsdFlushed,
     DataTypes, Reporters
<1>11. ASSUME NEW w \in DOMAIN reporter, WaitStep(w)
       PROVE  StatusAtRest'
  BY <1>11 DEF WaitStep, WaitTimeout, TimeoutReported
<1>12. CASE UNCHANGED vars
  BY <1>12 DEF vars
<1> QED
  BY <1>1, <1>2, <1>3, <1>4, <1>5, <1>6, <1>7, <1>8, <1>9, <1>10, <1>11, <1>12
  DEF Next, UserStep, CommitStep, EventStep, SuspendStep

(* Once the display thread has drained its frames to stop, nobody holds an *)
(* event back; and at a launch at most each reporter holds one.            *)
LEMMA NobodyLate ==
  ASSUME EsdIrq = None, DataTypes, WaitersHeld, StatusAtRest, disp = "off"
  PROVE  late = {}
<1>1. Disp \notin late
  BY DEF WaitersHeld, Waits, FlushSteps
<1>2. ASSUME NEW r \in late PROVE FALSE
  <2>1. r = StatusWork /\ r # None /\ r # Disp
    BY <1>1, <1>2 DEF DataTypes, Reporters
  <2>2. reporter[r] = "flush" /\ reporter[r] = "idle"
    BY <2>1 DEF WaitersHeld, StatusAtRest, Disabling, Stopped
  <2> QED
    BY <2>2
<1> QED
  BY <1>2

LEMMA ReportersFinite ==
  IsFiniteSet(Reporters) /\ Cardinality(Reporters) \in Nat
<1>1. IsFiniteSet({StatusWork}) /\ IsFiniteSet({EsdIrq})
  BY FS_Singleton
<1>2. IsFiniteSet({StatusWork} \union {EsdIrq})
  BY <1>1, FS_Union
<1>3. Reporters \subseteq {StatusWork} \union {EsdIrq}
  BY DEF Reporters
<1> QED
  BY <1>2, <1>3, FS_Subset, FS_CardinalityType

LEMMA LateFinite ==
  ASSUME DataTypes
  PROVE  /\ IsFiniteSet(late) /\ Cardinality(late) \in Nat
         /\ Disp \notin late => Cardinality(late) <= Cardinality(Reporters)
<1>1. IsFiniteSet(Reporters \union {Disp})
  BY ReportersFinite, FS_AddElement
<1>2. IsFiniteSet(late) /\ Cardinality(late) \in Nat
  BY <1>1, FS_Subset, FS_CardinalityType DEF DataTypes
<1>3. ASSUME Disp \notin late
      PROVE  Cardinality(late) <= Cardinality(Reporters)
  <2>1. late \subseteq Reporters
    BY <1>3 DEF DataTypes
  <2> QED
    BY <2>1, ReportersFinite, FS_Subset
<1> QED
  BY <1>2, <1>3

(* Every pending frame is in flight, written off, or has its event queued; *)
(* the display thread's waits leave at most one in flight when it launches *)
(* the next, and none when it goes on to stop.                             *)
FramesCounted ==
  /\ FramePendingExact
  /\ disp \in Launching => in_flight <= 1
  /\ disp \in Drained => in_flight = 0

(* The event places of the queue, a finite set.                            *)
FramePlaces == {n \in 1 .. Len(queue) : queue[n] = "frame"}

LEMMA PlacesFinite ==
  ASSUME queue \in Seq(Works)
  PROVE  IsFiniteSet(FramePlaces) /\ FramesQueued \in Nat
         /\ FramesQueued = Cardinality(FramePlaces)
<1>1. IsFiniteSet(1 .. Len(queue))
  BY FS_Interval
<1>2. IsFiniteSet(FramePlaces)
  BY <1>1, FS_Subset DEF FramePlaces
<1> QED
  BY <1>2, FS_CardinalityType DEF FramePlaces, FramesQueued

(* No frame event is queued exactly when their number is zero.             *)
LEMMA NoneQueued ==
  ASSUME queue \in Seq(Works)
  PROVE  FramesQueued = 0 <=> ~Queued("frame")
<1>1. FramesQueued = 0 <=> FramePlaces = {}
  BY PlacesFinite, FS_EmptySet
<1> QED
  BY <1>1 DEF FramePlaces, Queued

(* Queueing a work adds one frame event if it is one, and none otherwise.  *)
LEMMA FramesAppended ==
  ASSUME queue \in Seq(Works), NEW w \in Works, queue' = Append(queue, w)
  PROVE  FramesQueued' = IF w = "frame" THEN FramesQueued + 1
                                        ELSE FramesQueued
<1> DEFINE last == Len(queue) + 1
<1>1. /\ Len(queue) \in Nat /\ Len(queue') = last /\ queue'[last] = w
      /\ \A n \in 1 .. Len(queue) : queue'[n] = queue[n]
  OBVIOUS
<1>2. \A n : n \in 1 .. last <=> n \in 1 .. Len(queue) \/ n = last
  BY <1>1
<1>3. last \notin FramePlaces
  BY <1>1 DEF FramePlaces
<1>4. FramesQueued' = Cardinality(FramePlaces')
  BY DEF FramePlaces, FramesQueued
<1> HIDE DEF last
<1>5. CASE w = "frame"
  <2>1. FramePlaces' = FramePlaces \union {last}
    BY <1>1, <1>2, <1>5 DEF FramePlaces
  <2> QED
    BY <1>3, <1>4, <1>5, <2>1, PlacesFinite, FS_AddElement
<1>6. CASE w # "frame"
  <2>1. FramePlaces' = FramePlaces
    BY <1>1, <1>2, <1>6 DEF FramePlaces
  <2> QED
    BY <1>4, <1>6, <2>1, PlacesFinite
<1> QED
  BY <1>5, <1>6

(* Running the work at the head takes one frame event away if it is one.   *)
LEMMA FramesTaken ==
  ASSUME queue \in Seq(Works), queue # <<>>, queue' = Tail(queue)
  PROVE  FramesQueued' = IF Head(queue) = "frame" THEN FramesQueued - 1
                                                  ELSE FramesQueued
<1> DEFINE later == FramePlaces \ {1}
           move == [n \in FramePlaces' |-> n + 1]
<1>1. /\ Len(queue) \in Nat /\ Len(queue) >= 1
      /\ Len(queue') = Len(queue) - 1
      /\ \A n \in 1 .. Len(queue') : queue'[n] = queue[n + 1]
      /\ Head(queue) = queue[1]
  OBVIOUS
<1>2. \A n \in FramePlaces' : n \in Nat /\ n + 1 \in later
  BY <1>1 DEF FramePlaces
<1>3. ASSUME NEW m \in later
      PROVE  m - 1 \in FramePlaces' /\ m = (m - 1) + 1
  <2>1. m \in 2 .. Len(queue) /\ queue[m] = "frame"
    BY <1>1 DEF FramePlaces
  <2>2. m - 1 \in 1 .. Len(queue') /\ (m - 1) + 1 = m
    BY <1>1, <2>1
  <2>3. queue'[m - 1] = "frame"
    BY <1>1, <2>1, <2>2
  <2> QED
    BY <2>2, <2>3 DEF FramePlaces
<1>4. IsFiniteSet(later) /\ Cardinality(later) =
        IF Head(queue) = "frame" THEN FramesQueued - 1 ELSE FramesQueued
  <2>1. 1 \in FramePlaces <=> Head(queue) = "frame"
    BY <1>1 DEF FramePlaces
  <2> QED
    BY <2>1, PlacesFinite, FS_RemoveElement
<1>5. ExistsBijection(FramePlaces', later)
  <2> HIDE DEF later
  <2>1. move \in [FramePlaces' -> later]
    BY <1>2
  <2>2. \A a, b \in FramePlaces' : move[a] = move[b] => a = b
    BY <1>2
  <2>3. \A m \in later : \E n \in FramePlaces' : move[n] = m
    BY <1>3
  <2>4. move \in Bijection(FramePlaces', later)
    BY <2>1, <2>2, <2>3 DEF Bijection, Injection, Surjection, IsInjective
  <2> QED
    BY <2>4 DEF ExistsBijection
<1>6. IsFiniteSet(FramePlaces')
  <2>1. queue' \in Seq(Works)
    OBVIOUS
  <2>2. (queue \in Seq(Works) => IsFiniteSet(FramePlaces))'
    BY PlacesFinite, PTL
  <2> QED
    BY <2>1, <2>2
<1>7. Cardinality(FramePlaces') = Cardinality(later)
  BY <1>5, <1>6, FS_Bijection
<1>8. FramesQueued' = Cardinality(FramePlaces')
  BY DEF FramePlaces, FramesQueued
<1> QED
  BY <1>4, <1>7, <1>8

(* What leaves the frames, the queue and the display thread's place alone. *)
LEMMA FramesUntouched ==
  ASSUME FramesCounted, UNCHANGED <<frame_pending, in_flight, late, queue>>,
         disp' \in Launching => disp \in Launching \/ in_flight <= 1,
         disp' \in Drained => disp \in Drained \/ in_flight = 0
  PROVE  FramesCounted'
BY DEF FramesCounted, FramePendingExact, FramesQueued

(* A work that is no frame event is queued, or taken.                      *)
LEMMA OtherQueued ==
  ASSUME FramesCounted, DataTypes, NEW w \in Works, w # "frame",
         queue' = Append(queue, w),
         UNCHANGED <<frame_pending, in_flight, late>>,
         disp' \notin Launching, disp' \notin Drained \/ disp' = disp
  PROVE  FramesCounted'
<1>1. FramesQueued' = FramesQueued
  BY FramesAppended DEF DataTypes
<1> QED
  BY <1>1 DEF FramesCounted, FramePendingExact

(* Every step counts: a frame that ends queues its event, one that is      *)
(* written off has it queued by its waiter later, and the event takes it   *)
(* off the count.                                                          *)
LEMMA StepFrames ==
  ASSUME EsdIrq = None
  PROVE  DataTypes /\ WaitersHeld /\ StatusAtRest /\ FramesCounted
           /\ [Next]_vars => FramesCounted'
<1> SUFFICES ASSUME DataTypes, WaitersHeld, StatusAtRest, FramesCounted,
                    [Next]_vars
             PROVE  FramesCounted'
  OBVIOUS
<1> USE DEF crtc, rc, frames, esd
<1> DEFINE nLate == Cardinality(late)
           most == 2 + Cardinality(Reporters)
<1>0. frame_pending \in Nat /\ in_flight \in Nat /\ queue \in Seq(Works)
  BY DEF DataTypes
<1>00. IsFiniteSet(late) /\ nLate \in Nat /\ most \in Nat
  BY LateFinite, ReportersFinite
<1>1. FramesQueued \in Nat /\ frame_pending = in_flight + nLate + FramesQueued
      /\ frame_pending <= most
  BY <1>0, PlacesFinite DEF FramesCounted, FramePendingExact
<1>2. CASE Launch
  <2>1. FramesQueued = 0 /\ FramesQueued' = FramesQueued
    BY <1>0, <1>2, NoneQueued DEF Launch, FramesQueued
  <2>2. disp \in Launching /\ disp' = "commit_done" /\ late' = late
        /\ frame_pending' = frame_pending + 1 /\ in_flight' = in_flight + 1
    BY <1>2 DEF Launch, Launching
  <2>3. in_flight <= 1
    BY <2>2 DEF FramesCounted
  <2>4. nLate <= Cardinality(Reporters)
    <3>1. Disp \notin late
      BY <2>2 DEF WaitersHeld, Launching, Waits, FlushSteps
    <3> QED
      BY <3>1, LateFinite
  <2>5. frame_pending' = in_flight' + nLate' + FramesQueued'
        /\ frame_pending' <= most
    BY <1>0, <1>00, <1>1, <2>1, <2>2, <2>3, <2>4, ReportersFinite
  <2> QED
    BY <2>2, <2>5 DEF FramesCounted, FramePendingExact, Launching, Drained
<1>3. CASE FrameDone
  <2>1. /\ in_flight > 0 /\ in_flight' = in_flight - 1
        /\ queue' = Append(queue, "frame")
        /\ UNCHANGED <<frame_pending, late, disp>>
    BY <1>3 DEF FrameDone
  <2>2. FramesQueued' = FramesQueued + 1
    BY <1>0, <2>1, FramesAppended DEF Works
  <2>3. frame_pending' = in_flight' + nLate' + FramesQueued'
        /\ frame_pending' <= most
    BY <1>0, <1>00, <1>1, <2>1, <2>2
  <2>4. disp' \in Launching => in_flight' <= 1
    BY <1>0, <2>1 DEF FramesCounted
  <2>5. disp' \notin Drained
    BY <1>0, <2>1 DEF FramesCounted
  <2> QED
    BY <2>3, <2>4, <2>5 DEF FramesCounted, FramePendingExact
<1>18. ASSUME NEW w \in DOMAIN reporter, WaitTimeout(w)
       PROVE  FramesCounted'
  <2>1. /\ in_flight > 0 /\ in_flight' = in_flight - 1
        /\ w \notin late /\ late' = late \union {w}
        /\ UNCHANGED <<frame_pending, disp, queue>>
    BY <1>18 DEF WaitTimeout
  <2>2. nLate' = nLate + 1
    BY <1>00, <2>1, FS_AddElement
  <2>3. FramesQueued' = FramesQueued
    BY <2>1 DEF FramesQueued
  <2>4. frame_pending' = in_flight' + nLate' + FramesQueued'
        /\ frame_pending' <= most
    BY <1>0, <1>00, <1>1, <2>1, <2>2, <2>3
  <2>5. disp' \in Launching => in_flight' <= 1
    BY <1>0, <2>1 DEF FramesCounted
  <2>6. disp' \notin Drained
    BY <1>0, <2>1 DEF FramesCounted
  <2> QED
    BY <2>4, <2>5, <2>6 DEF FramesCounted, FramePendingExact
<1>19. ASSUME NEW w \in DOMAIN reporter, TimeoutReported(w)
       PROVE  FramesCounted'
  <2>1. /\ w \in late /\ late' = late \ {w}
        /\ queue' = Append(queue, "frame")
        /\ UNCHANGED <<frame_pending, in_flight, disp>>
    BY <1>19 DEF TimeoutReported
  <2>2. nLate' = nLate - 1
    BY <1>00, <2>1, FS_RemoveElement
  <2>3. FramesQueued' = FramesQueued + 1
    BY <1>0, <2>1, FramesAppended DEF Works
  <2>4. frame_pending' = in_flight' + nLate' + FramesQueued'
        /\ frame_pending' <= most
    BY <1>0, <1>00, <1>1, <2>1, <2>2, <2>3
  <2> QED
    BY <2>1, <2>4 DEF FramesCounted, FramePendingExact
<1>4. CASE FrameWork
  <2>1. /\ queue # <<>> /\ Head(queue) = "frame" /\ queue' = Tail(queue)
        /\ frame_pending' = IF frame_pending > 0 THEN frame_pending - 1 ELSE 0
        /\ UNCHANGED <<in_flight, late, disp>>
    BY <1>4 DEF FrameWork
  <2>2. FramesQueued' = FramesQueued - 1
    BY <1>0, <2>1, FramesTaken
  <2>3. FramesQueued > 0
    <3>1. Queued("frame")
      BY <1>0, <2>1, QueuedHead
    <3> QED
      BY <1>0, <1>1, <3>1, NoneQueued
  <2>4. frame_pending' = in_flight' + nLate' + FramesQueued'
        /\ frame_pending' <= most
    BY <1>0, <1>00, <1>1, <2>1, <2>2, <2>3
  <2> QED
    BY <2>1, <2>4 DEF FramesCounted, FramePendingExact
<1>5. CASE EsdWork \/ FlushMarker
  <2>1. /\ queue # <<>> /\ Head(queue) # "frame" /\ queue' = Tail(queue)
        /\ UNCHANGED <<frame_pending, in_flight, late, disp>>
    BY <1>5 DEF EsdWork, FlushMarker, Disp, Suspend
  <2>2. FramesQueued' = FramesQueued
    BY <1>0, <2>1, FramesTaken
  <2> QED
    BY <2>1, <2>2 DEF FramesCounted, FramePendingExact
<1>6. CASE CrtcOff
  <2>1. /\ disp = "off" /\ disp' = "idle" /\ queue = <<>> /\ queue' = <<>>
        /\ frame_pending' = 0 /\ UNCHANGED <<in_flight, late>>
    BY <1>6 DEF CrtcOff
  <2>2. in_flight = 0
    BY <2>1 DEF FramesCounted, Drained
  <2>3. FramesQueued = 0 /\ FramesQueued' = FramesQueued
    BY <1>0, <2>1, NoneQueued DEF Queued, FramesQueued
  <2>4. nLate = 0
    BY <2>1, NobodyLate, FS_EmptySet
  <2> QED
    BY <1>00, <2>1, <2>2, <2>3, <2>4
    DEF FramesCounted, FramePendingExact, Launching, Drained
<1>7. CASE WaitEnds
  BY <1>0, <1>7, FramesUntouched
  DEF WaitEnds, Waits, AfterWait, MayLeaveInFlight, Launching, Drained
<1>8. CASE DispKickoff \/ StartCommit
  BY <1>8, FramesUntouched DEF DispKickoff, StartCommit, Launching, Drained
<1>9. CASE \/ StartModeset \/ StartEnable \/ StartDisable \/ SuspendEnter
           \/ PreModeset \/ PostModeset \/ Reinit
  BY <1>9, FramesUntouched
  DEF StartModeset, StartEnable, StartDisable, SuspendEnter, PreModeset,
      PostModeset, Reinit, Launching, Drained
<1>10. CASE PreStopCancel \/ PreStop \/ Stop
  BY <1>10, FramesUntouched DEF PreStopCancel, PreStop, Stop, Launching, Drained
<1>11. CASE EarlyWakeup \/ DispCancels \/ SuspendFlushed \/ OffWorkFlushed
  BY <1>11, FramesUntouched
  DEF EarlyWakeup, DispCancels, SuspendFlushed, OffWorkFlushed, Launching,
      Drained
<1>12. CASE OffWork \/ SuspendRequest
  BY <1>12, FramesUntouched
  DEF OffWork, SuspendRequest, RcIdleSkipped, RcIdleVideo, RcIdleDecided,
      Launching, Drained
<1>13. CASE OffWorkFlush
  BY <1>13, OtherQueued
  DEF OffWorkFlush, RcIdleFlush, Launching, Drained, Works, Disp
<1>14. CASE SuspendFlush
  <2>1. /\ queue' = Append(queue, Suspend) /\ Suspend \in Works
        /\ Suspend # "frame" /\ UNCHANGED <<frame_pending, in_flight, late, disp>>
    BY <1>14 DEF SuspendFlush, RcIdleFlush, Works, Suspend
  <2>2. FramesQueued' = FramesQueued
    BY <1>0, <2>1, FramesAppended
  <2> QED
    BY <2>1, <2>2 DEF FramesCounted, FramePendingExact
<1>15. CASE SuspendWait
  <2>1. UNCHANGED <<frame_pending, in_flight, late, disp>>
    BY <1>15 DEF SuspendWait
  <2>2. FramesQueued' = FramesQueued
    <3>1. CASE queue' = Append(queue, Suspend)
      BY <1>0, <3>1, FramesAppended DEF Works, Suspend
    <3>2. CASE queue' = queue
      BY <3>2 DEF FramesQueued
    <3> QED
      BY <1>15, <3>1, <3>2 DEF SuspendWait
  <2> QED
    BY <2>1, <2>2 DEF FramesCounted, FramePendingExact
<1>16. ASSUME NEW r \in DOMAIN reporter, Detect(r) \/ ReportStep(r)
       PROVE  FramesCounted'
  <2>1. UNCHANGED <<frame_pending, in_flight, late, disp>>
    BY <1>16 DEF Detect, ReportStep, CheckDead, Notify, EsdFlushed
  <2>2. queue' = queue \/ queue' = Append(queue, "esd")
    BY <1>16 DEF Detect, ReportStep, CheckDead, Notify, EsdFlushed
  <2>3. FramesQueued' = FramesQueued
    BY <1>0, <2>2, FramesAppended DEF Works, FramesQueued
  <2> QED
    BY <2>1, <2>3 DEF FramesCounted, FramePendingExact
<1>17. CASE UNCHANGED vars
  BY <1>17, FramesUntouched DEF vars
<1> QED
  BY <1>2, <1>3, <1>4, <1>5, <1>6, <1>7, <1>8, <1>9, <1>10, <1>11, <1>12, <1>13,
     <1>14, <1>15, <1>16, <1>17, <1>18, <1>19
  DEF Next, UserStep, CommitStep, EventStep, SuspendStep, WaitStep

(* What the frame theorems carry along.                                    *)
FramesInv == DataTypes /\ WaitersHeld /\ StatusAtRest /\ FramesCounted

LEMMA FramesInit == Init => FramesInv
<1> SUFFICES ASSUME Init PROVE FramesInv
  OBVIOUS
<1>1. DataTypes
  BY DEF Init, DataTypes, ReporterSteps
<1>2. FramesQueued = 0
  BY <1>1, NoneQueued DEF Init, Queued, DataTypes
<1>3. WaitersHeld /\ StatusAtRest
  BY DEF Init, WaitersHeld, StatusAtRest, Reporters
<1>4. Cardinality(late) = 0
  BY FS_EmptySet DEF Init
<1>5. FramePendingExact
  BY <1>2, <1>4, ReportersFinite DEF Init, FramePendingExact
<1> QED
  BY <1>1, <1>3, <1>5
  DEF Init, FramesInv, FramesCounted, Launching, Drained

LEMMA FramesStep ==
  ASSUME EsdIrq = None
  PROVE  FramesInv /\ [Next]_vars => FramesInv'
  BY StepData, StepWaiters, StepAtRest, StepFrames DEF FramesInv

(* frame_pending counts the frames in flight, those written off whose event*)
(* is still to be sent, and the frame events on the event thread's queue,  *)
(* on a panel without an ESD interrupt thread: seamless switches, failing  *)
(* votes, dead panels and slow waiters lose no event and count none twice, *)
(* and no more than two frames, and one more for the status work, are      *)
(* outstanding.                                                            *)
THEOREM FramesNeverLost ==
  ASSUME EsdIrq = None
  PROVE  Spec => []FramePendingExact
<1>1. FramesInv /\ [Next]_vars => FramesInv'
  BY FramesStep
<1>2. FramesInv => FramePendingExact
  BY DEF FramesInv, FramesCounted
<1> QED
  BY <1>1, <1>2, FramesInit, PTL DEF Spec

-----------------------------------------------------------------------------
(* The idle entry.                                                         *)

(* rc_lock is held over a sleep between the decision to enter idle and the *)
(* entry, by the thread that took it; the other one of the two that drive  *)
(* frames is kept out by the modeset locks, so the decision stays good.    *)
LockOwned ==
  /\ rc_lock \in {None, Disp, Suspend}
  /\ rc_lock = Disp <=> disp \in FlushSteps
  /\ rc_lock = Suspend <=> suspend \in FlushSteps
  /\ suspend # "idle" => disp \in {"idle"} \union FlushSteps
NoFrameInside == rc_lock # None => in_flight = 0 /\ ~kickoff

(* Not busy means no frame in flight: each of them is counted.             *)
LEMMA NotBusy ==
  ASSUME DataTypes, FramesCounted, ~Busy
  PROVE  in_flight = 0 /\ ~kickoff
<1>1. FramesQueued \in Nat /\ Cardinality(late) \in Nat
  BY PlacesFinite, LateFinite DEF DataTypes
<1> QED
  BY <1>1 DEF DataTypes, FramesCounted, FramePendingExact, Busy

LEMMA StepLock ==
  DataTypes /\ FramesCounted /\ LockOwned /\ NoFrameInside /\ [Next]_vars
    => LockOwned' /\ NoFrameInside'
<1> SUFFICES ASSUME DataTypes, FramesCounted, LockOwned, NoFrameInside,
                    [Next]_vars
             PROVE  LockOwned' /\ NoFrameInside'
  OBVIOUS
<1> USE ThreadsAssumption
    DEF crtc, rc, frames, esd, LockOwned, NoFrameInside, FlushSteps, Disp,
        Suspend
<1>1. CASE StartCommit \/ StartModeset \/ StartEnable \/ StartDisable
  BY <1>1 DEF StartCommit, StartModeset, StartEnable, StartDisable, MayCommit
<1>2. CASE Launch \/ WaitEnds \/ Reinit \/ PreStopCancel \/ CrtcOff
  BY <1>2 DEF Launch, WaitEnds, Waits, AfterWait, Reinit, PreStopCancel, CrtcOff
<1>3. CASE DispKickoff \/ PreModeset \/ PostModeset \/ PreStop \/ Stop
  BY <1>3 DEF DispKickoff, PreModeset, PostModeset, PreStop, Stop
<1>4. CASE FrameDone
  BY <1>4 DEF FrameDone, DataTypes
<1>5. CASE FrameWork \/ EsdWork \/ FlushMarker
  BY <1>5 DEF FrameWork, EsdWork, FlushMarker
<1>6. CASE EarlyWakeup \/ DispCancels \/ SuspendEnter \/ SuspendWait
  BY <1>6 DEF EarlyWakeup, DispCancels, SuspendEnter, SuspendWait
<1>7. CASE OffWork
  BY <1>7, NotBusy
  DEF OffWork, RcIdleSkipped, RcIdleVideo, RcIdleDecided
<1>8. CASE SuspendRequest
  BY <1>8, NotBusy
  DEF SuspendRequest, RcIdleSkipped, RcIdleVideo, RcIdleDecided
<1>9. CASE OffWorkFlush \/ OffWorkFlushed
  BY <1>9 DEF OffWorkFlush, OffWorkFlushed, RcIdleFlush, RcIdleFlushed
<1>10. CASE SuspendFlush \/ SuspendFlushed
  BY <1>10 DEF SuspendFlush, SuspendFlushed, RcIdleFlush, RcIdleFlushed
<1>11. ASSUME NEW r \in DOMAIN reporter,
              Detect(r) \/ ReportStep(r) \/ WaitStep(r)
       PROVE  LockOwned' /\ NoFrameInside'
  BY <1>11 DEF Detect, ReportStep, CheckDead, Notify, EsdFlushed, WaitStep,
     WaitTimeout, TimeoutReported, DataTypes
<1>12. CASE UNCHANGED vars
  BY <1>12 DEF vars
<1> QED
  BY <1>1, <1>2, <1>3, <1>4, <1>5, <1>6, <1>7, <1>8, <1>9, <1>10, <1>11, <1>12
  DEF Next, UserStep, CommitStep, EventStep, SuspendStep

(* Only the three idle entries lead from ON to IDLE.                       *)
LEMMA IdleEntry ==
  ASSUME DataTypes, FramesCounted, LockOwned, NoFrameInside, [Next]_vars,
         rc_state = "ON", rc_state' = "IDLE"
  PROVE  in_flight = 0 /\ ~kickoff
<1> USE DEF crtc, rc, votes, frames, esd
<1>1. CASE \/ StartCommit \/ StartModeset \/ StartEnable \/ StartDisable
           \/ Launch \/ WaitEnds \/ Reinit \/ PreStopCancel \/ CrtcOff
  BY <1>1 DEF StartCommit, StartModeset, StartEnable, StartDisable, Launch,
     WaitEnds, Reinit, PreStopCancel, CrtcOff
<1>2. CASE DispKickoff \/ EsdWork \/ EarlyWakeup
  BY <1>2 DEF DispKickoff, EsdWork, EarlyWakeup, RcKickoff, RcKickoffFails,
     RcEarlyWakeup
<1>3. CASE PreModeset \/ PostModeset \/ PreStop \/ Stop
  BY <1>3 DEF PreModeset, PostModeset, PreStop, Stop, RcPreModeset,
     RcPreModesetFails, RcPostModeset, RcPreStop, RcStop
<1>4. CASE \/ FrameDone \/ FrameWork \/ FlushMarker \/ DispCancels
           \/ SuspendEnter \/ SuspendWait
  BY <1>4 DEF FrameDone, FrameWork, FlushMarker, DispCancels, SuspendEnter,
     SuspendWait
<1>5. CASE OffWork \/ SuspendRequest
  BY <1>5, NotBusy DEF OffWork, SuspendRequest, RcIdleSkipped, RcIdleVideo,
     RcIdleDecided
<1>6. CASE \/ OffWorkFlush \/ OffWorkFlushed \/ SuspendFlush
           \/ SuspendFlushed
  BY <1>6, ThreadsAssumption
  DEF OffWorkFlush, OffWorkFlushed, SuspendFlush, SuspendFlushed, RcIdleFlush,
      RcIdleFlushed, NoFrameInside
<1>7. ASSUME NEW r \in DOMAIN reporter,
             Detect(r) \/ ReportStep(r) \/ WaitStep(r)
      PROVE  FALSE
  BY <1>7 DEF Detect, ReportStep, CheckDead, Notify, EsdFlushed, WaitStep,
     WaitTimeout, TimeoutReported
<1>8. CASE UNCHANGED vars
  BY <1>8 DEF vars
<1> QED
  BY <1>1, <1>2, <1>3, <1>4, <1>5, <1>6, <1>7, <1>8
  DEF Next, UserStep, CommitStep, EventStep, SuspendStep

(* The encoder never enters idle under a frame that the hardware is sending*)
(* or that a commit is about to start, on a panel without an ESD interrupt *)
(* thread, although a command mode panel sleeps between the decision and   *)
(* the entry and a waiter may be late with the event of a lost frame.      *)
THEOREM IdleOnlyAtRest ==
  ASSUME EsdIrq = None
  PROVE  Spec => NoIdleUnderFrame
<1> DEFINE Inv == FramesInv /\ LockOwned /\ NoFrameInside
<1>1. Init => Inv
  BY FramesInit, ThreadsAssumption
  DEF Init, LockOwned, NoFrameInside, FlushSteps
<1>2. Inv /\ [Next]_vars => Inv'
  BY FramesStep, StepLock DEF FramesInv
<1>3. Inv /\ [Next]_vars =>
        [rc_state = "ON" /\ rc_state' = "IDLE"
           => in_flight = 0 /\ ~kickoff]_vars
  BY IdleEntry DEF FramesInv
<1> QED
  BY <1>1, <1>2, <1>3, PTL DEF Spec, NoIdleUnderFrame

-----------------------------------------------------------------------------
(* A launch.                                                               *)

(* From a KICKOFF that did not fail to the trigger the state stays ON.     *)
OnAtLaunch == disp = "launch" => rc_state = "ON"

LEMMA StepLaunch ==
  ASSUME RcInv, OnAtLaunch, [Next]_vars
  PROVE  OnAtLaunch'
<1> USE DEF crtc, rc, votes, frames, esd, OnAtLaunch
<1>1. CASE \/ StartCommit \/ StartModeset \/ StartEnable \/ StartDisable
           \/ Launch \/ WaitEnds \/ Reinit \/ PreStopCancel \/ CrtcOff
  BY <1>1 DEF StartCommit, StartModeset, StartEnable, StartDisable, Launch,
     WaitEnds, AfterWait, Waits, Reinit, PreStopCancel, CrtcOff
<1>2. CASE DispKickoff
  BY <1>2 DEF DispKickoff, RcKickoff, RcInv, StatesOfSteps
<1>3. CASE EsdWork
  BY <1>3 DEF EsdWork, RcKickoff, RcKickoffFails
<1>4. CASE PreModeset \/ PostModeset \/ PreStop \/ Stop \/ EarlyWakeup
  BY <1>4 DEF PreModeset, PostModeset, PreStop, Stop, EarlyWakeup
<1>5. CASE \/ FrameDone \/ FrameWork \/ FlushMarker \/ DispCancels
           \/ SuspendEnter \/ SuspendWait
  BY <1>5 DEF FrameDone, FrameWork, FlushMarker, DispCancels, SuspendEnter,
     SuspendWait
<1>6. CASE OffWork \/ OffWorkFlush \/ OffWorkFlushed
  BY <1>6 DEF OffWork, OffWorkFlush, OffWorkFlushed
<1>7. CASE SuspendRequest \/ SuspendFlush \/ SuspendFlushed
  BY <1>7 DEF SuspendRequest, SuspendFlush, SuspendFlushed, RcInv,
     StatesOfSteps, FlushSteps
<1>8. ASSUME NEW r \in DOMAIN reporter,
             Detect(r) \/ ReportStep(r) \/ WaitStep(r)
      PROVE  OnAtLaunch'
  BY <1>8 DEF Detect, ReportStep, CheckDead, Notify, EsdFlushed, WaitStep,
     WaitTimeout, TimeoutReported
<1>9. CASE UNCHANGED vars
  BY <1>9 DEF vars
<1> QED
  BY <1>1, <1>2, <1>3, <1>4, <1>5, <1>6, <1>7, <1>8, <1>9
  DEF Next, UserStep, CommitStep, EventStep, SuspendStep

(* A frame whose KICKOFF event did not fail is triggered with the clocks   *)
(* and interrupts on, whatever the event thread, suspend and the off work  *)
(* have done since the event.                                              *)
THEOREM LaunchesPowered ==
  ASSUME DmsModes \subseteq {"cmd"}
  PROVE  Spec => []LaunchPowered
<1> DEFINE Inv == RcInv /\ OnAtLaunch
<1>1. Init => Inv
  BY InitRc DEF Init, OnAtLaunch
<1>2. Inv /\ [Next]_vars => Inv'
  BY StepRc, StepLaunch
<1>3. Inv => LaunchPowered
  <2> SUFFICES ASSUME Inv, disp = "launch"
               PROVE  rc_state = "ON" /\ clk > 0 /\ irq > 0
    BY DEF LaunchPowered
  <2>1. rc_state = "ON"
    BY DEF OnAtLaunch
  <2>2. clk = 1 /\ irq = 1
    BY <2>1 DEF RcInv, VotesExact, ClocksOn, IrqsOn
  <2> QED
    BY <2>1, <2>2
<1> QED
  BY <1>1, <1>2, <1>3, PTL DEF Spec
=============================================================================
