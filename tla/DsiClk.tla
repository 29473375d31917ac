------------------------------- MODULE DsiClk -------------------------------
(***************************************************************************)
(* The DSI clock manager (msm/dsi/dsi_clk_manager.c) and the threads that  *)
(* vote for the clocks through its two clients.                            *)
(*                                                                         *)
(* A request counts the vote and, when that changes what the client wants, *)
(* walks through a plan: power, core clocks, link clocks, controller by    *)
(* controller, master first, or the same backwards.  The walk runs under   *)
(* dsi_mngr_clk_mutex, so the requests of different threads do not mix,    *)
(* but any step of it may fail, which ends the walk half way.  One action  *)
(* is one step of the walk.                                                *)
(***************************************************************************)
EXTENDS Integers, Sequences

CONSTANTS
  Master,       \* the controller that sources the clocks
  Slave,        \* the other controller of a split display, or None
  Dsi, Mdp,     \* the two clients: dsi_clk_handle and mdp_clk_handle
  Encoder,      \* the encoder's resource control, which votes as Mdp
  Panel,        \* the panel's power sequence, which votes as Dsi
  Checker,      \* the panel status check, which borrows Dsi's vote
  Recovery,     \* the error recovery works, which borrow it too
  CmdMode,      \* TRUE if it is a command mode panel
  MaxFaults,    \* bound: steps that fail
  None          \* no caller, no controller

Ctrls == {Master, Slave} \ {None}    \* MAX_DSI_CTRL is 2
Users == {Encoder, Panel, Checker, Recovery}
Clients == {Dsi, Mdp}
Client(u) == IF u = Encoder THEN Mdp ELSE Dsi

ASSUME ControllerAssumption == Master # None /\ Slave # Master
ASSUME UserAssumption ==
  /\ Dsi # Mdp
  /\ Encoder \notin {Panel, Checker, Recovery}
  /\ Panel \notin {Checker, Recovery}
  /\ Checker # Recovery
  /\ None \notin Users
ASSUME BoundAssumption == CmdMode \in BOOLEAN /\ MaxFaults \in Nat

VARIABLES
  at,           \* how far each user is
  refcount,     \* core_refcount and link_refcount of each client
  vote,         \* the clocks whose clk_state is DSI_CLK_ON, of each client
  state,        \* the clocks whose clk_state in the manager is DSI_CLK_ON
  running,      \* the enable count of each clock of each controller
  power,        \* the controllers' supplies are on
  caller,       \* the user inside dsi_mngr_clk_mutex, or None
  move,         \* what that user is doing
  todo,         \* the steps its request has still to take
  rc,           \* FALSE once a step has failed
  faults        \* steps that have failed

votes == <<refcount, vote>>
hardware == <<state, running, power>>
call == <<caller, move, todo, rc, faults>>
vars == <<at, votes, hardware, call>>

-----------------------------------------------------------------------------
(* The requests.                                                           *)

Kinds == {"core", "link"}          \* DSI_CORE_CLK, DSI_LINK_CLK
Clocks == {"core", "lp", "hs"}     \* core, escape, byte and pixel clocks

(* A request from a position, and the positions its success and its        *)
(* failure lead to.                                                        *)
Ask(from, kinds, on, good, bad) ==
  [from |-> from, kinds |-> kinds, on |-> on, good |-> good, bad |-> bad]

(* The encoder votes for everything, and takes a failure for a refusal.    *)
EncoderMoves ==
  { Ask("out", Kinds, TRUE, "using", "out"),
    Ask("using", Kinds, FALSE, "out", "out") }

(* A borrower never looks at the result.                                   *)
BorrowerMoves ==
  { Ask("out", Kinds, TRUE, "using", "using"),
    Ask("using", Kinds, FALSE, "out", "out") }

(* dsi_display_prepare takes the core clocks, brings up PHY and host and    *)
(* takes the link clocks; a failure of any of it, or of dsi_display_enable *)
(* after it, gives them back one by one.  A command mode panel keeps no    *)
(* vote from the end of dsi_display_post_enable to dsi_display_pre_disable;*)
(* the bridge calls the first although the panel has failed, and the others*)
(* to take it down.  A seamless switch (DMS) is one of dsi_display_prepare *)
(* without power: on a video panel dsi_ctrl_host_timing_update refuses it  *)
(* and the core vote it adds is taken back at once.                        *)
BringUp ==
  { Ask("out", {"core"}, TRUE, "ready", "failed"),
    Ask("ready", {"core"}, FALSE, "failed", "failed"),
    Ask("ready", {"link"}, TRUE, "using", "undoing"),
    Ask("using", {"link"}, FALSE, "undoing", "undoing"),
    Ask("undoing", {"core"}, FALSE, "failed", "failed") }
CmdPanelMoves ==
  { Ask("using", Kinds, FALSE, "parked", "parked"),
    Ask("failed", Kinds, FALSE, "dead", "dead"),
    Ask("parked", {"core"}, TRUE, "switching", "unswitched"),
    Ask("switching", {"link"}, TRUE, "using", "reverting"),
    Ask("reverting", {"core"}, FALSE, "unswitched", "unswitched"),
    Ask("unswitched", Kinds, FALSE, "parked", "parked"),
    Ask("parked", Kinds, TRUE, "stopping", "stopping"),
    Ask("dead", Kinds, TRUE, "dying", "dying"),
    Ask("stopping", {"link"}, FALSE, "leaving", "leaving"),
    Ask("dying", {"link"}, FALSE, "leaving", "leaving"),
    Ask("leaving", {"core"}, FALSE, "out", "out") }
VideoPanelMoves ==
  { Ask("using", {"link"}, FALSE, "leaving", "leaving"),
    Ask("leaving", {"core"}, FALSE, "out", "out"),
    Ask("failed", {"link"}, FALSE, "ending", "ending"),
    Ask("ending", {"core"}, FALSE, "out", "out") }
PanelMoves == BringUp \union IF CmdMode THEN CmdPanelMoves ELSE VideoPanelMoves

Moves(u) ==
  CASE u = Encoder -> EncoderMoves
    [] u = Panel -> PanelMoves
    [] OTHER -> BorrowerMoves

(* display_lock: the panel's sequence holds it through dsi_display_prepare *)
(* and dsi_display_unprepare, a recovery work from ON to OFF.  The status  *)
(* check holds the panel lock, which the power-down takes before it starts,*)
(* but a switch does not.  Both borrowers work on a panel that is          *)
(* initialised.                                                            *)
PanelAtRest ==
  at[Panel] \notin {"ready", "undoing", "leaving", "ending", "switching", "reverting"}
Initialized ==
  at[Panel] \in {"using", "parked", "stopping", "switching", "reverting", "unswitched"}
MayAsk(u, m) ==
  /\ u \in {Checker, Recovery} /\ m.on => Initialized
  /\ u = Recovery /\ m.on => PanelAtRest
  /\ u = Panel /\ PanelAtRest => at[Recovery] = "out"
  /\ u = Panel /\ Initialized /\ m.good \in {"leaving", "undoing"} =>
       at[Checker] = "out"

(* dsi_clk_req_state: the count always moves, the vote only with the first *)
(* and the last.                                                           *)
Counted(m, n) == IF m.on THEN n + 1 ELSE IF n = 0 THEN 0 ELSE n - 1
NewRefcount(u, m) ==
  [refcount EXCEPT ![Client(u)] =
     [k \in Kinds |-> IF k \in m.kinds THEN Counted(m, @[k]) ELSE @[k]]]
NewVote(u, m) ==
  [vote EXCEPT ![Client(u)] =
     IF m.on THEN @ \union m.kinds
     ELSE @ \ {k \in m.kinds : refcount[Client(u)][k] = 1}]

-----------------------------------------------------------------------------
(* The plan of a request: dsi_recheck_clk_state, dsi_update_clk_state.     *)

Step(op, clk, ctrl, undo) ==
  [op |-> op, clk |-> clk, ctrl |-> ctrl, undo |-> undo]
WithSlave(steps) == IF Slave = None THEN <<>> ELSE steps

(* Mutant of Starts: the slave is started first.                           *)
StartsSlaveFirst(clk) ==
  WithSlave(<<Step("start", clk, Slave, TRUE)>>)
    \o <<Step("start", clk, Master, FALSE)>>

(* Master first; a slave that fails takes the master's clock down again.   *)
Starts(clk) ==
  <<Step("start", clk, Master, FALSE)>>
    \o WithSlave(<<Step("start", clk, Slave, TRUE)>>)
Stops(clk) ==
  WithSlave(<<Step("stop", clk, Slave, FALSE)>>)
    \o <<Step("stop", clk, Master, FALSE)>>

Simple(op, clk) == Step(op, clk, Master, FALSE)

CoreOn == <<Simple("power_on", "core")>> \o Starts("core")
            \o <<Simple("set", "core")>>
(* Mutant of LinkOn: link_clk_state is not updated.                        *)
LinkOnUnrecorded == Starts("lp") \o <<Simple("post", "lp")>>
                      \o Starts("hs") \o <<Simple("post", "hs")>>

LinkOn == Starts("lp") \o <<Simple("post", "lp")>>
            \o Starts("hs") \o <<Simple("post", "hs"), Simple("set", "link")>>
LinkOff == Stops("hs") \o Stops("lp") \o <<Simple("clear", "link")>>
CoreOff == Stops("core")
             \o <<Simple("power_off", "core"), Simple("clear", "core")>>

Only(test, plan) == IF test THEN plan ELSE <<>>

(* Core clocks before link clocks on, link clocks before core clocks off.  *)
Plan(wanted) ==
  Only("core" \in wanted \ state, CoreOn)
    \o Only("link" \in wanted \ state, LinkOn)
    \o Only("link" \in state \ wanted, LinkOff)
    \o Only("core" \in state \ wanted, CoreOff)

Wanted(v) == UNION {v[c] : c \in Clients}

(* dsi_display_link_clk_force_update: both link clocks go and come back, a *)
(* controller at a time, and nothing is taken down again after a failure.  *)
Both(op, c) == <<Step(op, "lp", c, FALSE), Step(op, "hs", c, FALSE)>>
ForcePlan ==
  WithSlave(Both("stop", Slave)) \o Both("stop", Master)
    \o Both("start", Master) \o WithSlave(Both("start", Slave))
    \o <<Simple("post", "link")>>

-----------------------------------------------------------------------------
Init ==
  /\ at = [u \in Users |-> "out"]
  /\ refcount = [c \in Clients |-> [k \in Kinds |-> 0]]
  /\ vote = [c \in Clients |-> {}]
  /\ state = {}
  /\ running = [clk \in Clocks |-> [c \in Ctrls |-> 0]]
  /\ power = FALSE
  /\ caller = None
  /\ move = None
  /\ todo = <<>>
  /\ rc = TRUE
  /\ faults = 0

Enter(u) ==
  /\ caller = None
  /\ \E m \in Moves(u) :
       /\ m.from = at[u]
       /\ MayAsk(u, m)
       /\ refcount' = NewRefcount(u, m)
       /\ vote' = NewVote(u, m)
       /\ move' = m
       /\ todo' = Only(NewVote(u, m) # vote, Plan(Wanted(NewVote(u, m))))
  /\ caller' = u
  /\ UNCHANGED <<at, hardware, rc, faults>>

(* The display thread applies a new link rate before a frame.  It takes the*)
(* panel's and the display's lock, so nobody is borrowing the clocks or    *)
(* powering the panel up or down.  With the link off it is put off.        *)
StartForce ==
  /\ caller = None
  /\ at[Encoder] = "using"
  /\ caller' = Encoder
  /\ move' = Ask("using", {}, TRUE, "using", "using")
  /\ todo' = ForcePlan
  /\ UNCHANGED <<at, votes, hardware, rc, faults>>

(* Mutant of ForceUpdate: the panel lock is not taken.                     *)
ForceUpdateUnderCheck ==
  StartForce /\ PanelAtRest /\ at[Recovery] = "out" /\ "link" \in state

ForceUpdate ==
  /\ StartForce
  /\ PanelAtRest
  /\ at[Recovery] = "out"
  /\ at[Checker] = "out"
  /\ "link" \in state

Return(u) ==
  /\ caller = u
  /\ todo = <<>>
  /\ at' = [at EXCEPT ![u] = IF rc THEN move.good ELSE move.bad]
  /\ caller' = None
  /\ move' = None
  /\ rc' = TRUE
  /\ UNCHANGED <<votes, hardware, todo, faults>>

-----------------------------------------------------------------------------
(* The steps.                                                              *)

Now(op) == todo # <<>> /\ Head(todo).op = op
Done == todo' = Tail(todo) /\ UNCHANGED <<at, votes, caller, move, rc, faults>>
Aborted == todo' = <<>> /\ rc' = FALSE /\ UNCHANGED <<at, votes, caller, move>>
Fault == faults < MaxFaults /\ faults' = faults + 1

(* The supplies refuse to be switched on a second time.                    *)
PowerOn ==
  /\ Now("power_on")
  /\ ~power
  /\ power' = TRUE
  /\ Done
  /\ UNCHANGED <<state, running>>
PowerOnRefused ==
  /\ Now("power_on")
  /\ power
  /\ Aborted
  /\ UNCHANGED <<hardware, faults>>
(* The controllers' supplies fail, or the PHY's do after them.             *)
PowerOnFails ==
  /\ Now("power_on")
  /\ ~power
  /\ Fault
  /\ power' \in BOOLEAN
  /\ Aborted
  /\ UNCHANGED <<state, running>>

ClockStarts ==
  /\ Now("start")
  /\ running' = [running EXCEPT ![Head(todo).clk][Head(todo).ctrl] = @ + 1]
  /\ Done
  /\ UNCHANGED <<state, power>>
(* Mutant of Down: the count of a clock that is off goes on falling.       *)
DownBelowZero(n) == n - 1

(* clk_disable of a clock that is not enabled warns and does nothing.      *)
Down(n) == IF n = 0 THEN 0 ELSE n - 1

ClockStartFails ==
  /\ Now("start")
  /\ Fault
  /\ running' = IF Head(todo).undo
                  THEN [running EXCEPT ![Head(todo).clk][Master] = Down(@)]
                  ELSE running
  /\ Aborted
  /\ UNCHANGED <<state, power>>
ClockStops ==
  /\ Now("stop")
  /\ running' = [running EXCEPT ![Head(todo).clk][Head(todo).ctrl] = Down(@)]
  /\ Done
  /\ UNCHANGED <<state, power>>

(* dsi_post_clkon_cb leaves ULPS, resets the PHY, drops the clamps.        *)
PostOn ==
  /\ Now("post")
  /\ Done
  /\ UNCHANGED hardware
PostOnFails ==
  /\ Now("post")
  /\ Fault
  /\ Aborted
  /\ UNCHANGED hardware

(* dsi_post_clkoff_cb; its error is returned, but the state moves on.      *)
PowerOff ==
  /\ Now("power_off")
  /\ power' = FALSE
  /\ Done
  /\ UNCHANGED <<state, running>>
PowerOffFails ==
  /\ Now("power_off")
  /\ Fault
  /\ todo' = Tail(todo)
  /\ rc' = FALSE
  /\ UNCHANGED <<at, votes, hardware, caller, move>>

SetState ==
  /\ todo # <<>>
  /\ \/ Now("set") /\ state' = state \union {Head(todo).clk}
     \/ Now("clear") /\ state' = state \ {Head(todo).clk}
  /\ Done
  /\ UNCHANGED <<running, power>>

-----------------------------------------------------------------------------
Walk ==
  \/ PowerOn \/ PowerOnRefused \/ PowerOnFails
  \/ ClockStarts \/ ClockStartFails \/ ClockStops
  \/ PostOn \/ PostOnFails
  \/ PowerOff \/ PowerOffFails
  \/ SetState

Next ==
  \/ \E u \in Users : Enter(u) \/ Return(u)
  \/ ForceUpdate
  \/ Walk

Spec == Init /\ [][Next]_vars

-----------------------------------------------------------------------------
(* Properties.                                                             *)

TypeOK ==
  /\ at \in [Users -> {"out", "ready", "using", "undoing", "failed", "parked",
                      "switching", "reverting", "unswitched", "stopping",
                      "dead", "dying", "leaving", "ending"}]
  /\ refcount \in [Clients -> [Kinds -> Nat]]
  /\ vote \in [Clients -> SUBSET Kinds]
  /\ state \in SUBSET Kinds
  /\ running \in [Clocks -> [Ctrls -> Nat]]
  /\ power \in BOOLEAN
  /\ caller \in Users \union {None}
  /\ rc \in BOOLEAN
  /\ faults \in 0..MaxFaults

(* In a split display the slave's clock never runs without the master's,   *)
(* whose output it divides: not during a switch, and not after any of the  *)
(* half-finished requests that failing steps leave behind.  Until a step   *)
(* fails, a link clock only runs while the core clocks of its controller   *)
(* do, in whatever order clients drop the two kinds.                       *)
SlaveUnderMaster ==
  Slave # None =>
    \A clk \in Clocks : running[clk][Slave] <= running[clk][Master]
CoreUnderLink ==
  \A c \in Ctrls :
    running["lp"][c] > 0 \/ running["hs"][c] > 0 => running["core"][c] > 0
ClocksOrdered == SlaveUnderMaster /\ (faults = 0 => CoreUnderLink)

(* Until a step fails, a thread between its ON and its OFF has every clock *)
(* of every controller, although two clients, three threads voting as one  *)
(* of them, and the forced update all switch the clocks; and nothing is    *)
(* left on when nobody uses it.  The forced update takes the link from the *)
(* display thread and the panel, never from a thread that is talking to    *)
(* the panel through it.                                                   *)
Forced == caller = Encoder /\ move.kinds = {}
Served(u) ==
  /\ at[u] \in {"using", "stopping", "dying"}
  /\ caller # u
  /\ Forced => u \in {Checker, Recovery}
UsersHaveClocks ==
  \A u \in Users : Served(u) =>
    \A clk \in Clocks, c \in Ctrls : running[clk][c] > 0
UnusedIsOff ==
  (\A u \in Users : at[u] \in {"out", "parked", "failed", "dead"} /\ caller = None)
    => /\ \A clk \in Clocks, c \in Ctrls : running[clk][c] = 0
       /\ ~power
ClocksFollowUsers == faults = 0 => UsersHaveClocks /\ UnusedIsOff

(* Until a step fails, no clock is stopped that is not running, nor        *)
(* started twice: the enable counts of the clock framework stay balanced.  *)
CountsBalanced ==
  [][faults = 0 =>
       /\ ClockStops => running[Head(todo).clk][Head(todo).ctrl] = 1
       /\ ClockStarts => running[Head(todo).clk][Head(todo).ctrl] = 0]_vars

(* "If any client has clock in ON state, DSI manager clock state should be *)
(* ON" (dsi_clk_manager.c:1096): so when a request reports success.        *)
SuccessMeansOn ==
  [][\A u \in Users : Return(u) /\ rc => Wanted(vote) \subseteq state]_vars
=============================================================================
