-------------------------------- MODULE Rsc --------------------------------
(***************************************************************************)
(* The display's resource state coordinator (sde_rsc.c): its clients ask   *)
(* for states, sde_rsc_client_state_update combines them into the state of *)
(* the hardware.  Composed with the clients as they behave: the encoders,  *)
(* which hold a power reference around their vote and wait for a vblank    *)
(* when the update asks for one (sde_encoder.c), and the power handle,     *)
(* which votes CLK while the power is on (sde_power_handle.c).             *)
(*                                                                         *)
(* External: the RSC hardware, which may refuse to enter mode 2 (IDLE) and *)
(* to leave it, and runtime PM, which turns the power on before the first  *)
(* reference is granted and off after the last one is dropped.             *)
(***************************************************************************)
EXTENDS Integers, FiniteSets

CONSTANTS
  Primary,    \* the encoder of the primary display
  Externals,  \* the encoders of the other displays
  Power,      \* the power handle, a clock client
  Revs,       \* the values of rsc->version
  None

Encoders == {Primary} \union Externals
Clients == Encoders \union {Power}
States == {"IDLE", "CLK", "CMD", "VID"}

ASSUME ClientsAssumption ==
  Primary \notin Externals /\ Power \notin Encoders /\ None \notin Clients
ASSUME ExternalsAssumption == IsFiniteSet(Externals)
ASSUME RevsAssumption == Revs \subseteq Nat

VARIABLES
  rev,          \* rsc->version
  current,      \* rsc->current_state
  hw,           \* the state last programmed
  state,        \* client->current_state
  refcount,     \* resource_refcount
  vsync_wait,   \* rsc_vsync_wait
  holder,       \* the client that waits for vsync_wait with client_lock held
  failed,       \* the latest update has returned an error
  power,        \* the power handle: "off", "on", "undo" (its clocks failed)
  users,        \* encoders with a power reference
  asked,        \* encoders told to wait for a vblank
  waits,        \* encoders that wait for it
  owes          \* the ones among them that read a vsync_wait to take back

rsc == <<current, hw, refcount, failed>>
clients == <<power, users>>
vblanks == <<waits, owes>>
vars == <<rev, rsc, state, vsync_wait, holder, asked, clients, vblanks>>

Init ==
  /\ rev \in Revs
  /\ current = "IDLE" /\ hw = "IDLE"
  /\ state = [c \in Clients |-> "IDLE"]
  /\ refcount = 0 /\ vsync_wait = 0
  /\ holder = None /\ failed = FALSE
  /\ power = "off" /\ users = {}
  /\ asked = {} /\ waits = {} /\ owes = {}

-----------------------------------------------------------------------------
MultiDisplay(st) == \E c \in Externals : st[c] = "CLK"
Shows(st, s) == \E c \in Clients : st[c] = s
Vote(b) == IF b THEN 1 ELSE 0

(* The resources are enabled before an update of an idle RSC and disabled  *)
(* after it if the RSC is idle then.                                       *)
Enabled == refcount + Vote(current = "IDLE")
(* Mutant of Changed: the resources are not disabled when the RSC is idle. *)
ChangedKeepsResources(s) ==
  current' = s /\ refcount' = Enabled /\ failed' = FALSE
Changed(s) ==
  /\ current' = s
  /\ refcount' = Enabled - Vote(s = "IDLE")
  /\ failed' = FALSE
(* Mutant of Kept: an update that changes nothing drops the resources.     *)
KeptDropsResources(rc) ==
  refcount' = Enabled - 1 /\ failed' = rc /\ UNCHANGED current
Kept(rc) ==
  /\ refcount' = Enabled - Vote(current = "IDLE")
  /\ failed' = rc
  /\ UNCHANGED current
Refused == Kept(FALSE) /\ UNCHANGED hw

(* hw_ops.state_update.  The hardware may refuse to enter and to leave the *)
(* collapse; what it refuses is not programmed.                            *)
Program(s) == hw' = s
ProgramFails(s) == (s = "IDLE" \/ hw = "IDLE") /\ UNCHANGED hw

NoWait == UNCHANGED <<vsync_wait, holder, asked>>
(* *wait_vblank_crtc_id; the power handle passes no pointer and sleeps.    *)
AskForVblank(c) == asked' = asked \union ({c} \intersect Encoders)

(* sde_rsc_switch_to_clk.  With a vsync_wait of somebody else it waits for *)
(* that, with client_lock held, and forgets what the hardware answered.    *)
SwitchToClk(c, st) ==
  IF ~MultiDisplay(st) /\ (Shows(st, "VID") \/ Shows(st, "CMD"))
  THEN Refused /\ NoWait
  ELSE \/ /\ current \in {"CMD", "VID"}
          /\ Program("CLK") /\ Changed("CLK")
          /\ AskForVblank(c)
          /\ vsync_wait' = vsync_wait + Vote(c \in Encoders)
          /\ UNCHANGED holder
       \/ /\ current \notin {"CMD", "VID"} /\ vsync_wait > 0
          /\ Program("CLK") \/ ProgramFails("CLK")
          /\ holder' = c
          /\ refcount' = Enabled
          /\ UNCHANGED <<current, failed, vsync_wait, asked>>
       \/ /\ current \notin {"CMD", "VID"} /\ vsync_wait = 0
          /\ \/ Program("CLK") /\ Changed("CLK")
             \/ ProgramFails("CLK") /\ Kept(TRUE)
          /\ NoWait

(* sde_rsc_switch_to_cmd and sde_rsc_switch_to_vid, for the primary client.*)
(* A new configuration alone takes effect with a vsync before version 3,   *)
(* a switch between the two does so before version 4.                      *)
SwitchToShow(c, st, s, config) ==
  IF current = s
  THEN /\ Changed(s) /\ UNCHANGED <<hw, vsync_wait, holder>>
       /\ IF config /\ rev < 3 THEN AskForVblank(c) ELSE UNCHANGED asked
  ELSE IF MultiDisplay(st)
  THEN Refused /\ NoWait
  ELSE \/ /\ Program(s) /\ Changed(s) /\ UNCHANGED <<vsync_wait, holder>>
          /\ IF current \in {"CMD", "VID"} /\ rev < 4
               THEN AskForVblank(c) ELSE UNCHANGED asked
       \/ ProgramFails(s) /\ Kept(TRUE) /\ NoWait

(* Mutants of SwitchToIdle: a display's earlier vote for command mode, or  *)
(* the power handle's vote, is not looked for.                             *)
SwitchToIdleForgetsCmd(c, st) ==
  IF st[Power] = "CLK" THEN SwitchToClk(c, st)
  ELSE /\ \/ Program("IDLE") /\ Changed("IDLE")
          \/ ProgramFails("IDLE") /\ Kept(TRUE)
       /\ NoWait
SwitchToIdleForgetsPower(c, st) ==
  IF Shows(st, "CMD") /\ ~MultiDisplay(st) THEN SwitchToShow(c, st, "CMD", FALSE)
  ELSE /\ \/ Program("IDLE") /\ Changed("IDLE")
          \/ ProgramFails("IDLE") /\ Kept(TRUE)
       /\ NoWait

(* sde_rsc_switch_to_idle: the state the remaining votes ask for.  A vote  *)
(* of an encoder for CLK is not among them.                                *)
SwitchToIdle(c, st) ==
  IF Shows(st, "VID") /\ ~MultiDisplay(st) THEN SwitchToShow(c, st, "VID", FALSE)
  ELSE IF Shows(st, "CMD") /\ ~MultiDisplay(st)
  THEN SwitchToShow(c, st, "CMD", FALSE)
  ELSE IF st[Power] = "CLK" THEN SwitchToClk(c, st)
  ELSE /\ \/ Program("IDLE") /\ Changed("IDLE")
          \/ ProgramFails("IDLE") /\ Kept(TRUE)
       /\ NoWait

(* sde_rsc_client_state_update.  From version 3 on, video mode runs in the *)
(* CLK state.                                                              *)
Update(c, request, config) ==
  LET s == IF request = "VID" /\ rev >= 3 THEN "CLK" ELSE request
      st == [state EXCEPT ![c] = s]
  IN /\ holder = None
     /\ state' = st
     /\ IF current = s /\ ~config
          THEN failed' = FALSE /\ UNCHANGED <<current, hw, refcount>> /\ NoWait
        ELSE CASE s = "IDLE" -> SwitchToIdle(c, st)
               [] s = "CLK" -> SwitchToClk(c, st)
               [] OTHER -> SwitchToShow(c, st, s, config)
     /\ UNCHANGED <<rev, vblanks>>

(* The wait in sde_rsc_switch_to_clk ends.                                 *)
WaitOver ==
  /\ holder # None /\ vsync_wait = 0
  /\ holder' = None
  /\ current' = "CLK" /\ failed' = FALSE
  /\ UNCHANGED <<rev, hw, refcount, state, vsync_wait, asked, clients, vblanks>>
WaitTimesOut ==
  /\ holder # None /\ vsync_wait > 0
  /\ holder' = None
  /\ failed' = TRUE
  /\ refcount' = refcount - Vote(current = "IDLE")
  /\ UNCHANGED <<rev, current, hw, state, vsync_wait, asked, clients, vblanks>>

-----------------------------------------------------------------------------
(* sde_power_resource_enable for the first reference.  When the update of  *)
(* the RSC fails the vote is left behind, when the clocks fail after it    *)
(* the vote is taken back.                                                 *)
PowerOn ==
  /\ power = "off"
  /\ Update(Power, "CLK", FALSE)
  /\ power' \in IF failed' THEN {"off"} ELSE {"on", "undo"}
  /\ UNCHANGED users
PowerOff ==
  /\ (power = "on" /\ users = {}) \/ power = "undo"
  /\ Update(Power, "IDLE", FALSE)
  /\ power' = "off"
  /\ UNCHANGED users

Free(e) == e \in users \ (asked \union waits)

(* _sde_encoder_resource_control_helper: a power reference around the votes. *)
GetPower(e) ==
  /\ e \notin users /\ power = "on"
  /\ users' = users \union {e}
  /\ UNCHANGED <<rev, rsc, state, vsync_wait, holder, asked, power, vblanks>>
PutPower(e) ==
  /\ Free(e) /\ holder # e /\ state[e] = "IDLE"
  /\ users' = users \ {e}
  /\ UNCHANGED <<rev, rsc, state, vsync_wait, holder, asked, power, vblanks>>

(* _sde_encoder_update_rsc_client, _sde_encoder_rsc_state_trigger: only    *)
(* the primary display has solver states and passes a configuration.       *)
Ask(e) ==
  /\ Free(e)
  /\ \E s \in IF e = Primary THEN States ELSE {"IDLE", "CLK"}, config \in BOOLEAN :
       /\ config => e = Primary /\ s # "IDLE"
       /\ Update(e, s, config)
  /\ UNCHANGED clients

(* Mutant of ReadRefcount: the primary display does not count itself in.   *)
ReadRefcountOfOthers(e) ==
  /\ e \in asked /\ holder # e
  /\ asked' = asked \ {e}
  /\ waits' = waits \union {e}
  /\ owes' = IF vsync_wait > 0 /\ e # Primary THEN owes \union {e} ELSE owes
  /\ UNCHANGED <<rev, rsc, state, vsync_wait, holder, clients>>
(* _sde_encoder_rsc_client_update_vsync_wait: the count is read before the *)
(* wait and taken back after it, also when the vblank does not come.       *)
ReadRefcount(e) ==
  /\ e \in asked /\ holder # e
  /\ asked' = asked \ {e}
  /\ waits' = waits \union {e}
  /\ owes' = IF vsync_wait > 0 THEN owes \union {e} ELSE owes
  /\ UNCHANGED <<rev, rsc, state, vsync_wait, holder, clients>>

(* Mutant of VblankDone: without a vblank the count is not taken back.     *)
VblankDoneOnly(e) ==
  /\ e \in waits
  /\ waits' = waits \ {e}
  /\ owes' = owes \ {e}
  /\ vsync_wait' \in {vsync_wait, vsync_wait - Vote(e \in owes /\ vsync_wait > 0)}
  /\ UNCHANGED <<rev, rsc, state, holder, asked, clients>>

(* The waits end, with or without a vblank, and the count is taken back.   *)
(* The return before them, for a primary CRTC that does not exist, is left *)
(* out: the id is that of a CRTC of the device, which keeps its CRTCs.     *)
VblankDone(e) ==
  /\ e \in waits
  /\ waits' = waits \ {e}
  /\ owes' = owes \ {e}
  /\ vsync_wait' = vsync_wait - Vote(e \in owes /\ vsync_wait > 0)
  /\ UNCHANGED <<rev, rsc, state, holder, asked, clients>>

Encoder(e) ==
  GetPower(e) \/ PutPower(e) \/ Ask(e) \/ ReadRefcount(e) \/ VblankDone(e)

Next ==
  \/ WaitOver \/ WaitTimesOut \/ PowerOn \/ PowerOff
  \/ \E e \in Encoders : Encoder(e)

(* The vblank waits are bounded and the waiter for them goes on.           *)
Fairness ==
  /\ WF_vars(WaitOver)
  /\ \A e \in Encoders : WF_vars(ReadRefcount(e)) /\ WF_vars(VblankDone(e))

Spec == Init /\ [][Next]_vars /\ Fairness

-----------------------------------------------------------------------------
TypeOK ==
  /\ rev \in Revs
  /\ current \in States /\ hw \in States
  /\ state \in [Clients -> States]
  /\ refcount \in {0, 1}
  /\ vsync_wait \in Nat
  /\ holder \in Clients \union {None}
  /\ failed \in BOOLEAN
  /\ power \in {"off", "on", "undo"}
  /\ users \subseteq Encoders
  /\ asked \subseteq users /\ waits \subseteq users \ asked /\ owes \subseteq waits

(* What the votes ask for: the solver of the primary display unless another *)
(* display is on, the clocks as long as any client votes for something, the *)
(* collapse when all are idle.                                              *)
Wanted ==
  IF state[Primary] \in {"CMD", "VID"} /\ ~MultiDisplay(state) THEN state[Primary]
  ELSE IF \A c \in Clients : state[c] = "IDLE" THEN "IDLE" ELSE "CLK"

(* In whatever order the clients vote, are refused and come back, an update *)
(* that has returned success leaves the RSC in the state all the votes      *)
(* together ask for: sde_rsc_switch_to_idle has to find again a vote that   *)
(* was refused or overridden earlier.                                       *)
StateFollowsVotes == holder = None /\ ~failed => current = Wanted

(* The hardware is not collapsed under a display that votes for something, *)
(* although sde_rsc_switch_to_idle does not count the displays' CLK votes:  *)
(* the power handle's vote covers them.                                     *)
NoCollapseUnderDisplay ==
  hw = "IDLE" => \A e \in Encoders : state[e] = "IDLE"

(* Exactly while the hardware is out of its collapse its own clocks and    *)
(* regulators have a reference, or an update is running.                   *)
PoweredWhileActive ==
  /\ hw # "IDLE" => refcount = 1
  /\ holder = None => refcount = Vote(current # "IDLE")

(* rsc_vsync_wait counts waits of encoders that are still to come: none is *)
(* left behind, and from version 3 on nobody takes back the count of       *)
(* another encoder.  Before, the primary display also waits without        *)
(* counting, after a new configuration, and may take back the count of an  *)
(* external display whose vblank is still to come.                         *)
VsyncWaitExact ==
  /\ vsync_wait <= Cardinality(asked \union owes)
  /\ rev >= 3 => Cardinality(owes) <= vsync_wait

(* The wait a switch to CLK has asked for ends, so the waiters in          *)
(* sde_rsc_switch_to_clk need not run into their timeout for ever.         *)
VsyncWaitEnds == vsync_wait > 0 ~> vsync_wait = 0
=============================================================================
