---------------------------- MODULE DsiClkProofs ----------------------------
(***************************************************************************)
(* Proofs about DsiClk: for one controller or two, any number of failing   *)
(* steps and either kind of panel, the slave's clocks stay under the       *)
(* master's, and until a step fails the clocks follow the users, in order  *)
(* and with balanced enable counts.                                        *)
(*                                                                         *)
(* A plan is a long sequence, of which half a request has been walked: the *)
(* proofs see it as the set of the steps still to take, with the order in  *)
(* which two of them may stand.                                            *)
(***************************************************************************)
EXTENDS DsiClk, SequenceTheorems, TLAPS

-----------------------------------------------------------------------------
(* The steps of a plan.                                                    *)

Ops == {"start", "stop", "post", "set", "clear", "power_on", "power_off"}
StepType ==
  [op : Ops, clk : Clocks \union Kinds, ctrl : Ctrls, undo : BOOLEAN]

(* What every step of every plan looks like.                               *)
Sound(x) ==
  /\ x \in StepType
  /\ x.op \in {"start", "stop"} => x.clk \in Clocks
  /\ x.op \in {"set", "clear"} => x.clk \in Kinds
  /\ x.op \in {"power_on", "power_off"} => x.clk = "core"
  /\ x.op \notin {"start", "stop"} => x.ctrl = Master
  /\ x.undo => x.op = "start" /\ x.ctrl = Slave

(* The slave stops before the master stops, the master starts before the   *)
(* slave does, and a forced update stops before it starts.                 *)
Rank(x) ==
  IF x.op = "stop" THEN IF x.ctrl = Master THEN 2 ELSE 1
                   ELSE IF x.ctrl = Master THEN 3 ELSE 4
Switches(x) == x.op \in {"start", "stop"}
LinkClocks == {"lp", "hs"}

(* x may stand before y in a plan.                                         *)
Before(x, y) ==
  /\ x # y
  /\ Switches(x) /\ Switches(y) /\ x.clk = y.clk => Rank(x) < Rank(y)
  /\ ~ (/\ x.op = "start" /\ x.clk \in LinkClocks
        /\ y.op = "start" /\ y.clk = "core")
  /\ ~ (/\ x.op = "stop" /\ x.clk = "core"
        /\ y.op = "stop" /\ y.clk \in LinkClocks)

Steps(s) == {s[n] : n \in 1 .. Len(s)}
Sorted(s) ==
  /\ s \in Seq(StepType)
  /\ \A x \in Steps(s) : Sound(x)
  /\ \A i, j \in 1 .. Len(s) : i < j => Before(s[i], s[j])

Todo == Steps(todo)
Pending(op, clk, c) ==
  \E x \in Todo : x.op = op /\ x.clk = clk /\ x.ctrl = c
Planned(op, clk) == \E x \in Todo : x.op = op /\ x.clk = clk

-----------------------------------------------------------------------------
(* The invariant.                                                          *)

Positions ==
  {"out", "ready", "using", "undoing", "failed", "parked", "switching",
   "reverting", "unswitched", "stopping", "dead", "dying", "leaving", "ending"}
ForceMove == Ask("using", {}, TRUE, "using", "using")

(* Whoever is inside dsi_mngr_clk_mutex works off a plan; nobody else does.*)
Call ==
  /\ Sorted(todo)
  /\ caller = None => todo = <<>> /\ rc
  /\ caller # None => /\ move \in Moves(caller) \union {ForceMove}
                      /\ move.from = at[caller]
                      /\ move = ForceMove => caller = Encoder

(* The controllers' enable counts, whatever has failed: the master is one  *)
(* ahead of a slave that has still to start, and of a slave that has       *)
(* stopped first.                                                          *)
Ahead(clk) == running[clk][Slave] < running[clk][Master]
SlaveBehind ==
  Slave # None =>
    \A clk \in Clocks :
      /\ running[clk][Slave] <= running[clk][Master]
      /\ Pending("start", clk, Slave) =>
           \/ Pending("start", clk, Master)
           \/ Ahead(clk) /\ ~ Pending("stop", clk, Master)
      /\ Pending("stop", clk, Master) =>
           \/ Pending("stop", clk, Slave)
           \/ Ahead(clk)
           \/ running[clk][Slave] = 0

(* Where the panel is not initialised: nobody borrows its vote there, so   *)
(* the requests with which the display gives up what it does not hold find *)
(* a count of zero.                                                        *)
Unini == {"out", "ready", "undoing", "failed", "dead", "dying", "leaving", "ending"}
Borrowers == {Checker, Recovery}
Borrowed ==
  /\ at[Panel] \in Unini => \A b \in Borrowers : at[b] = "out" /\ caller # b
  /\ caller = Panel /\ {move.good, move.bad} \intersect Unini # {} =>
       \A b \in Borrowers : at[b] = "out"
(* Only a step that fails stops a switch half way.                         *)
Switched == faults = 0 => at[Panel] \notin {"reverting", "unswitched"}

(* The kinds a user has voted for at a position.                           *)
KindsAt(p) ==
  CASE p \in {"using", "stopping", "dying"} -> Kinds
    [] p \in {"ready", "undoing", "leaving", "switching", "reverting"} -> {"core"}
    [] OTHER -> {}
Holding(u) == KindsAt(IF caller = u THEN move.good ELSE at[u])
Holds(u, k) == IF k \in Holding(u) THEN 1 ELSE 0

(* The counts are those of the users' votes, and a client wants what one   *)
(* of its users does.                                                      *)
CountsExact ==
  \A k \in Kinds :
    /\ refcount[Mdp][k] = Holds(Encoder, k)
    /\ refcount[Dsi][k] =
         Holds(Panel, k) + Holds(Checker, k) + Holds(Recovery, k)
VotesExact ==
  \A c \in Clients, k \in Kinds : k \in vote[c] <=> refcount[c][k] > 0

KindOf(clk) == IF clk = "core" THEN "core" ELSE "link"
W == Wanted(vote)

(* What the steps still to take are there for.                             *)
Purpose ==
  \A x \in Todo :
    /\ x.op = "start" => KindOf(x.clk) \in W
    /\ x.op = "stop" => \/ KindOf(x.clk) \notin W
                        \/ Pending("start", x.clk, x.ctrl)
    /\ x.op = "set" => x.clk \in W
    /\ x.op = "clear" => x.clk \notin W
    /\ x.op = "power_on" => "core" \in W
    /\ x.op = "power_off" => "core" \notin W

(* Core clocks first on the way up, last on the way down.                  *)
Nested ==
  \A x \in Todo :
    /\ x.op = "stop" /\ x.clk \in LinkClocks =>
         "core" \in W \/ Pending("stop", "core", x.ctrl)
    /\ x.op = "start" /\ x.clk = "core" =>
         /\ \A y \in Todo : y.op # "stop"
         /\ "link" \in W =>
              \A clk \in LinkClocks : Pending("start", clk, x.ctrl)

(* The hardware and the recorded state follow what is wanted, but for the  *)
(* steps still to take.                                                    *)
Level(clk, c) ==
  IF Pending("stop", clk, c) THEN 1
  ELSE IF Pending("start", clk, c) THEN 0
  ELSE IF KindOf(clk) \in W THEN 1 ELSE 0
RunningTracks == \A clk \in Clocks, c \in Ctrls : running[clk][c] = Level(clk, c)
PowerTracks ==
  power <=> \/ \E x \in Todo : x.op = "power_off"
            \/ "core" \in W /\ ~ \E x \in Todo : x.op = "power_on"
StateTracks ==
  \A k \in Kinds :
    k \in state <=> \/ Planned("clear", k)
                    \/ k \in W /\ ~ Planned("set", k)
Tracks == RunningTracks /\ PowerTracks /\ StateTracks

(* Nobody but the caller has a vote for a clock that is being started; the *)
(* forced update is alone with the display thread and the panel.           *)
Undisturbed ==
  /\ ~ Forced => \A x \in Todo : x.op = "start" =>
                   \A u \in Users \ {caller} : KindOf(x.clk) \notin KindsAt(at[u])
  /\ Forced => at[Checker] = "out" /\ at[Recovery] = "out"

Quiet ==
  /\ rc
  /\ CountsExact /\ VotesExact
  /\ Purpose /\ Nested
  /\ Tracks
  /\ Undisturbed
Calm == faults = 0 => Quiet

IInv == TypeOK /\ Call /\ SlaveBehind /\ Borrowed /\ Switched /\ Calm

-----------------------------------------------------------------------------
(* Sequences of steps.                                                     *)

LEMMA StepsInSeq ==
  ASSUME NEW s \in Seq(StepType), NEW n \in 1 .. Len(s)
  PROVE  s[n] \in StepType /\ s[n] \in Steps(s)
BY ElementOfSeq DEF Steps

LEMMA SortedEmpty == Sorted(<<>>) /\ Steps(<<>>) = {}
<1>1. <<>> \in Seq(StepType) /\ Len(<<>>) = 0
  OBVIOUS
<1>2. 1 .. Len(<<>>) = {}
  BY <1>1
<1> QED
  BY <1>1, <1>2 DEF Sorted, Steps

LEMMA SortedOne ==
  ASSUME NEW x, Sound(x)
  PROVE  Sorted(<<x>>) /\ Steps(<<x>>) = {x}
<1>1. <<x>> \in Seq(StepType) /\ Len(<<x>>) = 1 /\ <<x>>[1] = x
  BY DEF Sound
<1>2. 1 .. Len(<<x>>) = {1}
  BY <1>1
<1>3. Steps(<<x>>) = {x}
  BY <1>1, <1>2 DEF Steps
<1>4. \A i, j \in {1} : ~ (i < j)
  OBVIOUS
<1> QED
  BY <1>1, <1>2, <1>3, <1>4 DEF Sorted

(* Two plans one after the other.                                          *)
LEMMA SortedConcat ==
  ASSUME NEW s, NEW t, Sorted(s), Sorted(t),
         \A x \in Steps(s), y \in Steps(t) : Before(x, y)
  PROVE  Sorted(s \o t) /\ Steps(s \o t) = Steps(s) \union Steps(t)
<1>1. s \in Seq(StepType) /\ t \in Seq(StepType)
  BY DEF Sorted
<1> DEFINE m == Len(s)
           n == Len(t)
<1>2. m \in Nat /\ n \in Nat
  BY <1>1
<1>3. /\ s \o t \in Seq(StepType)
      /\ Len(s \o t) = m + n
      /\ \A i \in 1 .. m + n : (s \o t)[i] = IF i <= m THEN s[i] ELSE t[i - m]
  BY <1>1, ConcatProperties
<1> HIDE DEF m, n
<1>4. ASSUME NEW i \in 1 .. m + n
      PROVE  \/ i \in 1 .. m /\ (s \o t)[i] = s[i]
             \/ i - m \in 1 .. n /\ (s \o t)[i] = t[i - m]
  BY <1>2, <1>3
<1>5. Steps(s \o t) = Steps(s) \union Steps(t)
  <2>1. \A i \in 1 .. m : i \in 1 .. m + n /\ (s \o t)[i] = s[i]
    BY <1>2, <1>3
  <2>2. \A i \in 1 .. n : i + m \in 1 .. m + n /\ (s \o t)[i + m] = t[i]
    <3> TAKE i \in 1 .. n
    <3>1. i + m \in 1 .. m + n /\ ~ (i + m <= m) /\ (i + m) - m = i
      BY <1>2
    <3> QED
      BY <3>1, <1>3
  <2>3. Steps(s \o t) \subseteq Steps(s) \union Steps(t)
    BY <1>3, <1>4 DEF Steps, m, n
  <2>4. Steps(s) \subseteq Steps(s \o t)
    BY <1>3, <2>1 DEF Steps, m
  <2>5. Steps(t) \subseteq Steps(s \o t)
    BY <1>3, <2>2 DEF Steps, n
  <2> QED
    BY <2>3, <2>4, <2>5
<1>6. ASSUME NEW i \in 1 .. m + n, NEW j \in 1 .. m + n, i < j
      PROVE  Before((s \o t)[i], (s \o t)[j])
  <2>1. CASE i \in 1 .. m /\ j \in 1 .. m
    <3>1. (s \o t)[i] = s[i] /\ (s \o t)[j] = s[j]
      BY <1>2, <1>3, <2>1
    <3>2. Before(s[i], s[j])
      BY <1>6, <2>1 DEF Sorted, m
    <3> QED
      BY <3>1, <3>2
  <2>2. CASE i \in 1 .. m /\ j \notin 1 .. m
    <3>1. j - m \in 1 .. n /\ (s \o t)[i] = s[i] /\ (s \o t)[j] = t[j - m]
      BY <1>2, <1>3, <2>2
    <3>2. s[i] \in Steps(s) /\ t[j - m] \in Steps(t)
      BY <2>2, <3>1 DEF Steps, m, n
    <3> QED
      BY <3>1, <3>2
  <2>3. CASE i \notin 1 .. m
    <3>1. /\ i - m \in 1 .. n /\ (s \o t)[i] = t[i - m]
          /\ j - m \in 1 .. n /\ (s \o t)[j] = t[j - m]
          /\ i - m < j - m
      BY <1>2, <1>3, <1>6, <2>3
    <3>2. Before(t[i - m], t[j - m])
      BY <3>1 DEF Sorted, n
    <3> QED
      BY <3>1, <3>2
  <2> QED
    BY <2>1, <2>2, <2>3
<1>7. \A x \in Steps(s \o t) : Sound(x)
  BY <1>5 DEF Sorted
<1> QED
  BY <1>3, <1>5, <1>6, <1>7 DEF Sorted

(* What the walk takes off a plan.                                         *)
LEMMA SortedTail ==
  ASSUME NEW s, Sorted(s), s # <<>>
  PROVE  /\ Head(s) \in Steps(s)
         /\ Sorted(Tail(s))
         /\ Steps(Tail(s)) = Steps(s) \ {Head(s)}
         /\ \A y \in Steps(Tail(s)) : Before(Head(s), y)
<1>1. s \in Seq(StepType)
  BY DEF Sorted
<1>2. /\ Len(s) \in Nat /\ Len(s) >= 1
      /\ Head(s) = s[1]
      /\ Tail(s) \in Seq(StepType)
      /\ Len(Tail(s)) = Len(s) - 1
      /\ \A i \in 1 .. Len(Tail(s)) : Tail(s)[i] = s[i + 1]
  BY <1>1, HeadTailProperties, EmptySeq
<1>3. \A i \in 1 .. Len(Tail(s)) : i + 1 \in 1 .. Len(s) /\ 1 < i + 1
  BY <1>2
<1>4. 1 \in 1 .. Len(s)
  BY <1>2
<1>5. \A i \in 1 .. Len(Tail(s)) : Before(s[1], Tail(s)[i])
  BY <1>2, <1>3, <1>4 DEF Sorted
<1>6. \A y \in Steps(Tail(s)) : Before(Head(s), y)
  BY <1>2, <1>5 DEF Steps
<1>7. Steps(Tail(s)) = Steps(s) \ {Head(s)}
  <2>1. Steps(Tail(s)) \subseteq Steps(s)
    BY <1>2, <1>3 DEF Steps
  <2>2. Head(s) \notin Steps(Tail(s))
    BY <1>6 DEF Before
  <2>3. ASSUME NEW i \in 1 .. Len(s), s[i] # Head(s)
        PROVE  s[i] \in Steps(Tail(s))
    <3>1. i # 1
      BY <2>3, <1>2
    <3>2. i - 1 \in 1 .. Len(Tail(s)) /\ (i - 1) + 1 = i
      BY <3>1, <1>2
    <3>3. Tail(s)[i - 1] = s[i]
      BY <3>2, <1>2
    <3> QED
      BY <3>2, <3>3 DEF Steps
  <2> QED
    BY <2>1, <2>2, <2>3 DEF Steps
<1>8. Head(s) \in Steps(s)
  BY <1>2, <1>4 DEF Steps
<1>9. ASSUME NEW i \in 1 .. Len(Tail(s)), NEW j \in 1 .. Len(Tail(s)), i < j
      PROVE  Before(Tail(s)[i], Tail(s)[j])
  <2>1. i + 1 \in 1 .. Len(s) /\ j + 1 \in 1 .. Len(s) /\ i + 1 < j + 1
    BY <1>2, <1>9
  <2>2. Before(s[i + 1], s[j + 1])
    BY <2>1 DEF Sorted
  <2> QED
    BY <2>2, <1>2
<1>10. \A x \in Steps(Tail(s)) : Sound(x)
  BY <1>7 DEF Sorted
<1> QED
  BY <1>2, <1>6, <1>7, <1>8, <1>9, <1>10 DEF Sorted

LEMMA SortedTwo ==
  ASSUME NEW x, NEW y, Sound(x), Sound(y), Before(x, y)
  PROVE  Sorted(<<x, y>>) /\ Steps(<<x, y>>) = {x, y}
<1>1. /\ <<x, y>> \in Seq(StepType) /\ Len(<<x, y>>) = 2
      /\ <<x, y>>[1] = x /\ <<x, y>>[2] = y
  BY DEF Sound
<1>2. 1 .. Len(<<x, y>>) = {1, 2}
  BY <1>1
<1>3. Steps(<<x, y>>) = {x, y}
  BY <1>1, <1>2 DEF Steps
<1>4. \A i, j \in {1, 2} : i < j => i = 1 /\ j = 2
  OBVIOUS
<1> QED
  BY <1>1, <1>2, <1>3, <1>4 DEF Sorted

LEMMA SortedOnly ==
  ASSUME NEW s, Sorted(s), NEW test \in BOOLEAN
  PROVE  /\ Sorted(Only(test, s))
         /\ Steps(Only(test, s)) = IF test THEN Steps(s) ELSE {}
<1>1. CASE test
  <2>1. Only(test, s) = s
    BY <1>1, Zenon DEF Only
  <2> QED
    BY <1>1, <2>1, Zenon
<1>2. CASE ~ test
  <2>1. Only(test, s) = <<>>
    BY <1>2, Zenon DEF Only
  <2> QED
    BY <1>2, <2>1, SortedEmpty, Zenon
<1> QED
  BY <1>1, <1>2

-----------------------------------------------------------------------------
(* The plans of dsi_clk_manager.c, as sets of steps in their order.        *)

LEMMA ControllersDiffer ==
  /\ Master \in Ctrls
  /\ Slave # None => Slave \in Ctrls
  /\ \A c \in Ctrls : c = Master \/ (c = Slave /\ Slave # None)
  /\ Slave # Master
BY ControllerAssumption DEF Ctrls

LEMMA StepFields ==
  ASSUME NEW op, NEW clk, NEW c, NEW undo
  PROVE  /\ Step(op, clk, c, undo).op = op
         /\ Step(op, clk, c, undo).clk = clk
         /\ Step(op, clk, c, undo).ctrl = c
         /\ Step(op, clk, c, undo).undo = undo
BY DEF Step

LEMMA StepSound ==
  ASSUME NEW op \in Ops, NEW clk \in Clocks \union Kinds, NEW c \in Ctrls,
         NEW undo \in BOOLEAN,
         op \in {"start", "stop"} => clk \in Clocks,
         op \in {"set", "clear"} => clk \in Kinds,
         op \in {"power_on", "power_off"} => clk = "core",
         op \notin {"start", "stop"} => c = Master,
         undo => op = "start" /\ c = Slave
  PROVE  Sound(Step(op, clk, c, undo))
<1>1. Step(op, clk, c, undo) \in StepType
  BY DEF Step, StepType
<1> QED
  BY <1>1, StepFields DEF Sound

StartSteps(clk) ==
  {Step("start", clk, Master, FALSE)}
    \union IF Slave = None THEN {} ELSE {Step("start", clk, Slave, TRUE)}
StopSteps(clk) ==
  {Step("stop", clk, Master, FALSE)}
    \union IF Slave = None THEN {} ELSE {Step("stop", clk, Slave, FALSE)}

(* Two steps that differ in what they do are in either order, unless one   *)
(* of the three rules says otherwise.                                      *)
LEMMA BeforeSteps ==
  ASSUME NEW op1, NEW clk1, NEW c1, NEW u1,
         NEW op2, NEW clk2, NEW c2, NEW u2,
         op1 # op2 \/ clk1 # clk2 \/ c1 # c2,
         op1 \in {"start", "stop"} /\ op2 \in {"start", "stop"} /\ clk1 = clk2
           => Rank(Step(op1, clk1, c1, u1)) < Rank(Step(op2, clk2, c2, u2)),
         ~ (op1 = "start" /\ op2 = "start" /\ clk1 # "core" /\ clk2 = "core"),
         ~ (op1 = "stop" /\ op2 = "stop" /\ clk1 = "core" /\ clk2 # "core")
  PROVE  Before(Step(op1, clk1, c1, u1), Step(op2, clk2, c2, u2))
<1> DEFINE x == Step(op1, clk1, c1, u1)
           y == Step(op2, clk2, c2, u2)
<1>1. x.op = op1 /\ x.clk = clk1 /\ x.ctrl = c1
  BY StepFields
<1>2. y.op = op2 /\ y.clk = clk2 /\ y.ctrl = c2
  BY StepFields
<1>3. /\ op1 \in {"start", "stop"} /\ op2 \in {"start", "stop"}
      /\ clk1 = clk2
      => Rank(x) < Rank(y)
  BY Zenon
<1> HIDE DEF x, y
<1>4. x # y
  BY <1>1, <1>2, Zenon
<1>5. Switches(x) /\ Switches(y) /\ x.clk = y.clk => Rank(x) < Rank(y)
  BY <1>1, <1>2, <1>3, Zenon DEF Switches
<1>6. \A clk \in LinkClocks : clk # "core"
  BY DEF LinkClocks
<1>7. Before(x, y)
  BY <1>1, <1>2, <1>4, <1>5, <1>6, Zenon DEF Before
<1> QED
  BY <1>7 DEF x, y

LEMMA RankOf ==
  ASSUME NEW clk, NEW undo
  PROVE  /\ Rank(Step("stop", clk, Master, undo)) = 2
         /\ Rank(Step("stop", clk, Slave, undo)) = 1
         /\ Rank(Step("start", clk, Master, undo)) = 3
         /\ Rank(Step("start", clk, Slave, undo)) = 4
<1>1. ASSUME NEW op, NEW c, NEW x, x = Step(op, clk, c, undo)
      PROVE  Rank(x) = IF op = "stop" THEN IF c = Master THEN 2 ELSE 1
                                      ELSE IF c = Master THEN 3 ELSE 4
  <2>1. x.op = op /\ x.ctrl = c
    BY <1>1, StepFields
  <2> QED
    BY <2>1, Zenon DEF Rank
<1>2. "start" # "stop" /\ Slave # Master
  BY ControllersDiffer
<1>3. Rank(Step("stop", clk, Master, undo)) = 2
  BY <1>1, Zenon
<1>4. Rank(Step("stop", clk, Slave, undo)) = 1
  BY <1>1, <1>2, Zenon
<1>5. Rank(Step("start", clk, Master, undo)) = 3
  BY <1>1, <1>2, Zenon
<1>6. Rank(Step("start", clk, Slave, undo)) = 4
  BY <1>1, <1>2, Zenon
<1> QED
  BY <1>3, <1>4, <1>5, <1>6, Zenon

LEMMA StartsSorted ==
  ASSUME NEW clk \in Clocks
  PROVE  Sorted(Starts(clk)) /\ Steps(Starts(clk)) = StartSteps(clk)
<1> DEFINE a == Step("start", clk, Master, FALSE)
           b == Step("start", clk, Slave, TRUE)
<1>1. Sound(a)
  BY StepSound, ControllersDiffer DEF Ops
<1>2. Slave # None => Sound(b)
  BY StepSound, ControllersDiffer DEF Ops
<1>3. Before(a, b)
  <2>1. Rank(a) = 3 /\ Rank(b) = 4
    BY RankOf, Zenon
  <2>2. Rank(a) < Rank(b)
    <3>1. 3 < 4
      OBVIOUS
    <3> QED
      BY <2>1, <3>1, Zenon
  <2> QED
    BY <2>2, BeforeSteps, ControllersDiffer
<1> HIDE DEF a, b
<1>4. Sorted(<<a>>) /\ Steps(<<a>>) = {a}
  BY <1>1, SortedOne
<1>5. /\ Sorted(WithSlave(<<b>>))
      /\ Steps(WithSlave(<<b>>)) = IF Slave = None THEN {} ELSE {b}
  BY <1>2, SortedOne, SortedEmpty DEF WithSlave
<1>6. /\ Sorted(<<a>> \o WithSlave(<<b>>))
      /\ Steps(<<a>> \o WithSlave(<<b>>))
           = {a} \union IF Slave = None THEN {} ELSE {b}
  <2>1. \A x \in Steps(<<a>>), y \in Steps(WithSlave(<<b>>)) : Before(x, y)
    BY <1>3, <1>4, <1>5
  <2>2. /\ Sorted(<<a>> \o WithSlave(<<b>>))
        /\ Steps(<<a>> \o WithSlave(<<b>>))
             = Steps(<<a>>) \union Steps(WithSlave(<<b>>))
    BY <2>1, <1>4, <1>5, SortedConcat
  <2> QED
    BY <2>2, <1>4, <1>5
<1> QED
  BY <1>6, Zenon DEF Starts, StartSteps, a, b

LEMMA StopsSorted ==
  ASSUME NEW clk \in Clocks
  PROVE  Sorted(Stops(clk)) /\ Steps(Stops(clk)) = StopSteps(clk)
<1> DEFINE a == Step("stop", clk, Master, FALSE)
           b == Step("stop", clk, Slave, FALSE)
<1>1. Sound(a)
  BY StepSound, ControllersDiffer DEF Ops
<1>2. Slave # None => Sound(b)
  BY StepSound, ControllersDiffer DEF Ops
<1>3. Before(b, a)
  <2>1. Rank(b) = 1 /\ Rank(a) = 2
    BY RankOf, Zenon
  <2>2. Rank(b) < Rank(a)
    <3>1. 1 < 2
      OBVIOUS
    <3> QED
      BY <2>1, <3>1, Zenon
  <2> QED
    BY <2>2, BeforeSteps, ControllersDiffer
<1> HIDE DEF a, b
<1>4. Sorted(<<a>>) /\ Steps(<<a>>) = {a}
  BY <1>1, SortedOne
<1>5. /\ Sorted(WithSlave(<<b>>))
      /\ Steps(WithSlave(<<b>>)) = IF Slave = None THEN {} ELSE {b}
  BY <1>2, SortedOne, SortedEmpty DEF WithSlave
<1>6. /\ Sorted(WithSlave(<<b>>) \o <<a>>)
      /\ Steps(WithSlave(<<b>>) \o <<a>>)
           = {a} \union IF Slave = None THEN {} ELSE {b}
  <2>1. \A x \in Steps(WithSlave(<<b>>)), y \in Steps(<<a>>) : Before(x, y)
    BY <1>3, <1>4, <1>5
  <2>2. /\ Sorted(WithSlave(<<b>>) \o <<a>>)
        /\ Steps(WithSlave(<<b>>) \o <<a>>)
             = Steps(WithSlave(<<b>>)) \union Steps(<<a>>)
    BY <2>1, <1>4, <1>5, SortedConcat
  <2> QED
    BY <2>2, <1>4, <1>5
<1> QED
  BY <1>6, Zenon DEF Stops, StopSteps, a, b

(* A step of another kind stands anywhere.                                 *)
LEMMA BeforeOther ==
  ASSUME NEW op1, NEW clk1, NEW c1, NEW u1,
         NEW op2, NEW clk2, NEW c2, NEW u2,
         op1 # op2 \/ clk1 # clk2 \/ c1 # c2,
         op1 \notin {"start", "stop"} \/ op2 \notin {"start", "stop"}
  PROVE  Before(Step(op1, clk1, c1, u1), Step(op2, clk2, c2, u2))
BY BeforeSteps, Zenon

LEMMA SimpleSound ==
  ASSUME NEW op \in Ops \ {"start", "stop"}, NEW clk \in Clocks \union Kinds,
         op \in {"set", "clear"} => clk \in Kinds,
         op \in {"power_on", "power_off"} => clk = "core"
  PROVE  Sound(Simple(op, clk))
BY StepSound, ControllersDiffer DEF Simple

CoreOnSteps ==
  ({Simple("power_on", "core")} \union StartSteps("core"))
    \union {Simple("set", "core")}
LinkOnSteps ==
  ((StartSteps("lp") \union {Simple("post", "lp")}) \union StartSteps("hs"))
    \union {Simple("post", "hs"), Simple("set", "link")}
LinkOffSteps ==
  (StopSteps("hs") \union StopSteps("lp")) \union {Simple("clear", "link")}
CoreOffSteps ==
  StopSteps("core")
    \union {Simple("power_off", "core"), Simple("clear", "core")}

(* Every step of a set is before every step of another, where the rules    *)
(* have nothing to say, or say so.                                         *)
LEMMA BeforeStarts ==
  ASSUME NEW op, NEW clk, op \notin {"start", "stop"},
         NEW clk2
  PROVE  /\ \A x \in StartSteps(clk2) : /\ Before(x, Simple(op, clk))
                                        /\ Before(Simple(op, clk), x)
         /\ \A x \in StopSteps(clk2) : /\ Before(x, Simple(op, clk))
                                       /\ Before(Simple(op, clk), x)
<1>1. \A x \in StartSteps(clk2) : /\ Before(x, Simple(op, clk))
                                  /\ Before(Simple(op, clk), x)
  BY BeforeOther DEF StartSteps, Simple
<1>2. \A x \in StopSteps(clk2) : /\ Before(x, Simple(op, clk))
                                 /\ Before(Simple(op, clk), x)
  BY BeforeOther DEF StopSteps, Simple
<1> QED
  BY <1>1, <1>2

LEMMA StartForm ==
  ASSUME NEW clk, NEW x \in StartSteps(clk)
  PROVE  \E c \in Ctrls, u \in BOOLEAN : x = Step("start", clk, c, u)
BY ControllersDiffer DEF StartSteps

LEMMA StopForm ==
  ASSUME NEW clk, NEW x \in StopSteps(clk)
  PROVE  \E c \in Ctrls : x = Step("stop", clk, c, FALSE)
BY ControllersDiffer DEF StopSteps

LEMMA BeforeStartStart ==
  ASSUME NEW clk, NEW clk2, clk # clk2, clk2 # "core",
         NEW x \in StartSteps(clk), NEW y \in StartSteps(clk2)
  PROVE  Before(x, y)
<1>1. PICK c \in Ctrls, u \in BOOLEAN : x = Step("start", clk, c, u)
  BY StartForm
<1>2. PICK d \in Ctrls, v \in BOOLEAN : y = Step("start", clk2, d, v)
  BY StartForm
<1>3. Before(Step("start", clk, c, u), Step("start", clk2, d, v))
  BY BeforeSteps
<1> QED
  BY <1>1, <1>2, <1>3, Zenon

LEMMA BeforeStopStop ==
  ASSUME NEW clk, NEW clk2, clk # clk2, clk # "core",
         NEW x \in StopSteps(clk), NEW y \in StopSteps(clk2)
  PROVE  Before(x, y)
<1>1. PICK c \in Ctrls : x = Step("stop", clk, c, FALSE)
  BY StopForm
<1>2. PICK d \in Ctrls : y = Step("stop", clk2, d, FALSE)
  BY StopForm
<1>3. Before(Step("stop", clk, c, FALSE), Step("stop", clk2, d, FALSE))
  BY BeforeSteps
<1> QED
  BY <1>1, <1>2, <1>3, Zenon

LEMMA BeforeStartStop ==
  ASSUME NEW clk, NEW clk2, clk # clk2,
         NEW x \in StartSteps(clk), NEW y \in StopSteps(clk2)
  PROVE  Before(x, y)
<1>1. PICK c \in Ctrls, u \in BOOLEAN : x = Step("start", clk, c, u)
  BY StartForm
<1>2. PICK d \in Ctrls : y = Step("stop", clk2, d, FALSE)
  BY StopForm
<1>3. Before(Step("start", clk, c, u), Step("stop", clk2, d, FALSE))
  BY BeforeSteps
<1> QED
  BY <1>1, <1>2, <1>3, Zenon

LEMMA BeforeSimple ==
  ASSUME NEW op, NEW clk, NEW op2, NEW clk2, op \notin {"start", "stop"},
         op # op2 \/ clk # clk2
  PROVE  Before(Simple(op, clk), Simple(op2, clk2))
BY BeforeOther DEF Simple

(* The four pieces of a plan.                                              *)
LEMMA CoreOnSorted == Sorted(CoreOn) /\ Steps(CoreOn) = CoreOnSteps
<1> DEFINE p == Simple("power_on", "core")
           q == Simple("set", "core")
           st == Starts("core")
<1>1. Sorted(<<p>>) /\ Steps(<<p>>) = {p}
  BY SimpleSound, SortedOne DEF Ops, Kinds
<1>2. Sorted(<<q>>) /\ Steps(<<q>>) = {q}
  BY SimpleSound, SortedOne DEF Ops, Kinds
<1>3. Sorted(st) /\ Steps(st) = StartSteps("core")
  BY StartsSorted DEF Clocks
<1>4. \A y \in StartSteps("core") : Before(p, y) /\ Before(y, q)
  BY BeforeStarts
<1>5. Before(p, q)
  BY BeforeSimple
<1> HIDE DEF p, q, st
<1>6. /\ Sorted(<<p>> \o st)
      /\ Steps(<<p>> \o st) = {p} \union StartSteps("core")
  BY <1>1, <1>3, <1>4, SortedConcat
<1>7. /\ Sorted((<<p>> \o st) \o <<q>>)
      /\ Steps((<<p>> \o st) \o <<q>>)
           = ({p} \union StartSteps("core")) \union {q}
  <2>1. \A x \in Steps(<<p>> \o st), y \in Steps(<<q>>) : Before(x, y)
    BY <1>2, <1>4, <1>5, <1>6
  <2>2. /\ Sorted((<<p>> \o st) \o <<q>>)
        /\ Steps((<<p>> \o st) \o <<q>>)
             = Steps(<<p>> \o st) \union Steps(<<q>>)
    BY <2>1, <1>2, <1>6, SortedConcat, Zenon
  <2> QED
    BY <2>2, <1>2, <1>6, Zenon
<1> QED
  BY <1>7 DEF CoreOn, CoreOnSteps, p, q, st

LEMMA LinkOnSorted == Sorted(LinkOn) /\ Steps(LinkOn) = LinkOnSteps
<1> DEFINE p == Simple("post", "lp")
           q == Simple("post", "hs")
           r == Simple("set", "link")
           a == Starts("lp")
           b == Starts("hs")
<1>1. Sorted(<<p>>) /\ Steps(<<p>>) = {p}
  BY SimpleSound, SortedOne DEF Ops, Clocks
<1>2. Before(p, q) /\ Before(p, r) /\ Before(q, r)
  BY BeforeSimple
<1>3. Sorted(<<q, r>>) /\ Steps(<<q, r>>) = {q, r}
  BY <1>2, SimpleSound, SortedTwo DEF Ops, Clocks, Kinds
<1>4. /\ Sorted(a) /\ Steps(a) = StartSteps("lp")
      /\ Sorted(b) /\ Steps(b) = StartSteps("hs")
  BY StartsSorted DEF Clocks
<1>5. /\ \A x \in StartSteps("lp") : Before(x, p) /\ Before(x, q) /\ Before(x, r)
      /\ \A y \in StartSteps("hs") : Before(p, y) /\ Before(y, q) /\ Before(y, r)
  BY BeforeStarts
<1>6. \A x \in StartSteps("lp"), y \in StartSteps("hs") : Before(x, y)
  BY BeforeStartStart
<1> HIDE DEF p, q, r, a, b
<1>7. /\ Sorted(a \o <<p>>)
      /\ Steps(a \o <<p>>) = StartSteps("lp") \union {p}
  BY <1>1, <1>4, <1>5, SortedConcat
<1>8. /\ Sorted((a \o <<p>>) \o b)
      /\ Steps((a \o <<p>>) \o b)
           = (StartSteps("lp") \union {p}) \union StartSteps("hs")
  BY <1>4, <1>5, <1>6, <1>7, SortedConcat
<1>9. /\ Sorted(((a \o <<p>>) \o b) \o <<q, r>>)
      /\ Steps(((a \o <<p>>) \o b) \o <<q, r>>)
           = ((StartSteps("lp") \union {p}) \union StartSteps("hs"))
               \union {q, r}
  BY <1>2, <1>3, <1>5, <1>8, SortedConcat
<1> QED
  BY <1>9 DEF LinkOn, LinkOnSteps, p, q, r, a, b

LEMMA LinkOffSorted == Sorted(LinkOff) /\ Steps(LinkOff) = LinkOffSteps
<1> DEFINE p == Simple("clear", "link")
           a == Stops("hs")
           b == Stops("lp")
<1>1. Sorted(<<p>>) /\ Steps(<<p>>) = {p}
  BY SimpleSound, SortedOne DEF Ops, Kinds
<1>2. /\ Sorted(a) /\ Steps(a) = StopSteps("hs")
      /\ Sorted(b) /\ Steps(b) = StopSteps("lp")
  BY StopsSorted DEF Clocks
<1>3. /\ \A x \in StopSteps("hs") : Before(x, p)
      /\ \A y \in StopSteps("lp") : Before(y, p)
  BY BeforeStarts
<1>4. \A x \in StopSteps("hs"), y \in StopSteps("lp") : Before(x, y)
  BY BeforeStopStop
<1> HIDE DEF p, a, b
<1>5. /\ Sorted(a \o b)
      /\ Steps(a \o b) = StopSteps("hs") \union StopSteps("lp")
  BY <1>2, <1>4, SortedConcat
<1>6. /\ Sorted((a \o b) \o <<p>>)
      /\ Steps((a \o b) \o <<p>>)
           = (StopSteps("hs") \union StopSteps("lp")) \union {p}
  BY <1>1, <1>3, <1>5, SortedConcat
<1> QED
  BY <1>6 DEF LinkOff, LinkOffSteps, p, a, b

LEMMA CoreOffSorted == Sorted(CoreOff) /\ Steps(CoreOff) = CoreOffSteps
<1> DEFINE p == Simple("power_off", "core")
           q == Simple("clear", "core")
           a == Stops("core")
<1>1. Before(p, q)
  BY BeforeSimple
<1>2. Sorted(<<p, q>>) /\ Steps(<<p, q>>) = {p, q}
  BY <1>1, SimpleSound, SortedTwo DEF Ops, Kinds
<1>3. Sorted(a) /\ Steps(a) = StopSteps("core")
  BY StopsSorted DEF Clocks
<1>4. \A x \in StopSteps("core") : Before(x, p) /\ Before(x, q)
  BY BeforeStarts
<1> HIDE DEF p, q, a
<1>5. /\ Sorted(a \o <<p, q>>)
      /\ Steps(a \o <<p, q>>) = StopSteps("core") \union {p, q}
  BY <1>2, <1>3, <1>4, SortedConcat
<1> QED
  BY <1>5 DEF CoreOff, CoreOffSteps, p, q, a

(* Any piece may follow any other that dsi_recheck_clk_state puts before   *)
(* it, in every combination of what is wanted and what is on.              *)
LEMMA PiecesInOrder ==
  /\ \A x \in CoreOnSteps, y \in LinkOnSteps : Before(x, y)
  /\ \A x \in CoreOnSteps, y \in LinkOffSteps : Before(x, y)
  /\ \A x \in LinkOnSteps, y \in CoreOffSteps : Before(x, y)
  /\ \A x \in LinkOffSteps, y \in CoreOffSteps : Before(x, y)
<1>1. \A x \in CoreOnSteps, y \in LinkOnSteps : Before(x, y)
  <2>1. \A x \in StartSteps("core"), y \in StartSteps("lp") \union StartSteps("hs") :
          Before(x, y)
    BY BeforeStartStart
  <2>2. \A x \in StartSteps("core") :
          /\ Before(x, Simple("post", "lp"))
          /\ Before(x, Simple("post", "hs"))
          /\ Before(x, Simple("set", "link"))
    BY BeforeStarts
  <2>3. \A y \in StartSteps("lp") \union StartSteps("hs") :
          /\ Before(Simple("power_on", "core"), y)
          /\ Before(Simple("set", "core"), y)
    BY BeforeStarts
  <2>4. \A x \in {Simple("power_on", "core"), Simple("set", "core")} :
          /\ Before(x, Simple("post", "lp"))
          /\ Before(x, Simple("post", "hs"))
          /\ Before(x, Simple("set", "link"))
    BY BeforeSimple
  <2> QED
    BY <2>1, <2>2, <2>3, <2>4, Zenon DEF CoreOnSteps, LinkOnSteps
<1>2. \A x \in CoreOnSteps, y \in LinkOffSteps : Before(x, y)
  <2>1. \A x \in StartSteps("core"), y \in StopSteps("lp") \union StopSteps("hs") :
          Before(x, y)
    BY BeforeStartStop
  <2>2. \A x \in StartSteps("core") : Before(x, Simple("clear", "link"))
    BY BeforeStarts
  <2>3. \A y \in StopSteps("lp") \union StopSteps("hs") :
          /\ Before(Simple("power_on", "core"), y)
          /\ Before(Simple("set", "core"), y)
    BY BeforeStarts
  <2>4. \A x \in {Simple("power_on", "core"), Simple("set", "core")} :
          Before(x, Simple("clear", "link"))
    BY BeforeSimple
  <2> QED
    BY <2>1, <2>2, <2>3, <2>4, Zenon DEF CoreOnSteps, LinkOffSteps
<1>3. \A x \in LinkOnSteps, y \in CoreOffSteps : Before(x, y)
  <2>1. \A x \in StartSteps("lp") \union StartSteps("hs"), y \in StopSteps("core") :
          Before(x, y)
    BY BeforeStartStop
  <2>2. \A x \in StartSteps("lp") \union StartSteps("hs") :
          /\ Before(x, Simple("power_off", "core"))
          /\ Before(x, Simple("clear", "core"))
    BY BeforeStarts
  <2>3. \A y \in StopSteps("core") :
          /\ Before(Simple("post", "lp"), y)
          /\ Before(Simple("post", "hs"), y)
          /\ Before(Simple("set", "link"), y)
    BY BeforeStarts
  <2>4. \A x \in {Simple("post", "lp"), Simple("post", "hs"),
                  Simple("set", "link")} :
          /\ Before(x, Simple("power_off", "core"))
          /\ Before(x, Simple("clear", "core"))
    BY BeforeSimple
  <2> QED
    BY <2>1, <2>2, <2>3, <2>4, Zenon DEF LinkOnSteps, CoreOffSteps
<1>4. \A x \in LinkOffSteps, y \in CoreOffSteps : Before(x, y)
  <2>1. \A x \in StopSteps("lp") \union StopSteps("hs"), y \in StopSteps("core") :
          Before(x, y)
    BY BeforeStopStop
  <2>2. \A x \in StopSteps("lp") \union StopSteps("hs") :
          /\ Before(x, Simple("power_off", "core"))
          /\ Before(x, Simple("clear", "core"))
    BY BeforeStarts
  <2>3. \A y \in StopSteps("core") : Before(Simple("clear", "link"), y)
    BY BeforeStarts
  <2>4. /\ Before(Simple("clear", "link"), Simple("power_off", "core"))
        /\ Before(Simple("clear", "link"), Simple("clear", "core"))
    BY BeforeSimple
  <2> QED
    BY <2>1, <2>2, <2>3, <2>4, Zenon DEF LinkOffSteps, CoreOffSteps
<1> QED
  BY <1>1, <1>2, <1>3, <1>4

(* A plan and its steps.  The pairs of pieces that can never be in one     *)
(* plan are those for the same kind of clock.                              *)
LEMMA PlanSorted ==
  ASSUME NEW wanted
  PROVE  /\ Sorted(Plan(wanted))
         /\ Steps(Plan(wanted)) =
              (((IF "core" \in wanted \ state THEN CoreOnSteps ELSE {})
                  \union (IF "link" \in wanted \ state THEN LinkOnSteps ELSE {}))
                 \union (IF "link" \in state \ wanted THEN LinkOffSteps ELSE {}))
                \union (IF "core" \in state \ wanted THEN CoreOffSteps ELSE {})
<1> DEFINE a == Only("core" \in wanted \ state, CoreOn)
           b == Only("link" \in wanted \ state, LinkOn)
           c == Only("link" \in state \ wanted, LinkOff)
           d == Only("core" \in state \ wanted, CoreOff)
           A == IF "core" \in wanted \ state THEN CoreOnSteps ELSE {}
           B == IF "link" \in wanted \ state THEN LinkOnSteps ELSE {}
           C == IF "link" \in state \ wanted THEN LinkOffSteps ELSE {}
           D == IF "core" \in state \ wanted THEN CoreOffSteps ELSE {}
<1>1. Sorted(a) /\ Steps(a) = A
  BY CoreOnSorted, SortedEmpty DEF Only
<1>2. Sorted(b) /\ Steps(b) = B
  BY LinkOnSorted, SortedEmpty DEF Only
<1>3. Sorted(c) /\ Steps(c) = C
  BY LinkOffSorted, SortedEmpty DEF Only
<1>4. Sorted(d) /\ Steps(d) = D
  BY CoreOffSorted, SortedEmpty DEF Only
<1>5. \A x \in A, y \in B : Before(x, y)
  BY PiecesInOrder
<1>6. \A x \in A \union B, y \in C : Before(x, y)
  BY PiecesInOrder
<1>7. \A x \in (A \union B) \union C, y \in D : Before(x, y)
  BY PiecesInOrder
<1>8. Plan(wanted) = ((a \o b) \o c) \o d
  BY DEF Plan
<1> HIDE DEF a, b, c, d, A, B, C, D
<1>9. Sorted(a \o b) /\ Steps(a \o b) = A \union B
  BY <1>1, <1>2, <1>5, SortedConcat
<1>10. Sorted((a \o b) \o c) /\ Steps((a \o b) \o c) = (A \union B) \union C
  BY <1>3, <1>6, <1>9, SortedConcat
<1>11. /\ Sorted(((a \o b) \o c) \o d)
       /\ Steps(((a \o b) \o c) \o d) = ((A \union B) \union C) \union D
  BY <1>4, <1>7, <1>10, SortedConcat
<1> QED
  BY <1>8, <1>11, Zenon DEF A, B, C, D

BothSteps(op, c) == {Step(op, "lp", c, FALSE), Step(op, "hs", c, FALSE)}
ForceSteps ==
  ((((IF Slave = None THEN {} ELSE BothSteps("stop", Slave))
       \union BothSteps("stop", Master)) \union BothSteps("start", Master))
    \union (IF Slave = None THEN {} ELSE BothSteps("start", Slave)))
    \union {Simple("post", "link")}

LEMMA BothSorted ==
  ASSUME NEW op \in {"start", "stop"}, NEW c \in Ctrls
  PROVE  Sorted(Both(op, c)) /\ Steps(Both(op, c)) = BothSteps(op, c)
<1> DEFINE x == Step(op, "lp", c, FALSE)
           y == Step(op, "hs", c, FALSE)
<1>1. Sound(x) /\ Sound(y)
  BY StepSound DEF Ops, Clocks
<1>2. Before(x, y)
  BY BeforeSteps
<1> HIDE DEF x, y
<1>3. Sorted(<<x, y>>) /\ Steps(<<x, y>>) = {x, y}
  BY <1>1, <1>2, SortedTwo
<1> QED
  BY <1>3, Zenon DEF Both, BothSteps, x, y

LEMMA BothInOrder ==
  ASSUME NEW op, NEW c, NEW op2, NEW c2, op # op2 \/ c # c2,
         \A clk \in LinkClocks :
           Rank(Step(op, clk, c, FALSE)) < Rank(Step(op2, clk, c2, FALSE))
  PROVE  \A x \in BothSteps(op, c), y \in BothSteps(op2, c2) : Before(x, y)
<1>1. ASSUME NEW clk \in LinkClocks, NEW clk2 \in LinkClocks
      PROVE  Before(Step(op, clk, c, FALSE), Step(op2, clk2, c2, FALSE))
  <2>1. clk # "core" /\ clk2 # "core"
    BY DEF LinkClocks
  <2> QED
    BY <2>1, BeforeSteps, Zenon
<1>2. "lp" \in LinkClocks /\ "hs" \in LinkClocks
  BY DEF LinkClocks
<1> QED
  BY <1>1, <1>2, Zenon DEF BothSteps

LEMMA ForceSorted == Sorted(ForcePlan) /\ Steps(ForcePlan) = ForceSteps
<1> DEFINE p == Simple("post", "link")
           a == WithSlave(Both("stop", Slave))
           b == Both("stop", Master)
           c == Both("start", Master)
           d == WithSlave(Both("start", Slave))
           A == IF Slave = None THEN {} ELSE BothSteps("stop", Slave)
           B == BothSteps("stop", Master)
           C == BothSteps("start", Master)
           D == IF Slave = None THEN {} ELSE BothSteps("start", Slave)
<1>1. Sorted(<<p>>) /\ Steps(<<p>>) = {p}
  BY SimpleSound, SortedOne DEF Ops, Kinds
<1>2. Sorted(a) /\ Steps(a) = A
  BY BothSorted, SortedEmpty, ControllersDiffer DEF WithSlave
<1>3. Sorted(b) /\ Steps(b) = B
  BY BothSorted, ControllersDiffer
<1>4. Sorted(c) /\ Steps(c) = C
  BY BothSorted, ControllersDiffer
<1>5. Sorted(d) /\ Steps(d) = D
  BY BothSorted, SortedEmpty, ControllersDiffer DEF WithSlave
<1>0. ASSUME NEW clk \in LinkClocks
      PROVE  /\ Rank(Step("stop", clk, Slave, FALSE))
                  < Rank(Step("stop", clk, Master, FALSE))
             /\ \A c1, c2 \in Ctrls : Rank(Step("stop", clk, c1, FALSE))
                                        < Rank(Step("start", clk, c2, FALSE))
             /\ Rank(Step("start", clk, Master, FALSE))
                  < Rank(Step("start", clk, Slave, FALSE))
  <2>1. 1 < 2 /\ 1 < 3 /\ 1 < 4 /\ 2 < 3 /\ 2 < 4 /\ 3 < 4
    OBVIOUS
  <2> QED
    BY <2>1, RankOf, ControllersDiffer, Zenon
<1>6. \A x \in A, y \in B : Before(x, y)
  <2>1. \A x \in BothSteps("stop", Slave), y \in BothSteps("stop", Master) :
          Before(x, y)
    BY <1>0, BothInOrder, ControllersDiffer
  <2> QED
    BY <2>1
<1>7. \A x \in A \union B, y \in C : Before(x, y)
  <2>1. Slave # None =>
          \A x \in BothSteps("stop", Slave), y \in BothSteps("start", Master) :
            Before(x, y)
    BY <1>0, BothInOrder, ControllersDiffer
  <2>2. \A x \in BothSteps("stop", Master), y \in BothSteps("start", Master) :
          Before(x, y)
    BY <1>0, BothInOrder, ControllersDiffer
  <2> QED
    BY <2>1, <2>2
<1>8. \A x \in (A \union B) \union C, y \in D : Before(x, y)
  <2>1. Slave # None =>
          \A x \in BothSteps("stop", Slave), y \in BothSteps("start", Slave) :
            Before(x, y)
    BY <1>0, BothInOrder, ControllersDiffer
  <2>2. Slave # None =>
          \A x \in BothSteps("stop", Master), y \in BothSteps("start", Slave) :
            Before(x, y)
    BY <1>0, BothInOrder, ControllersDiffer
  <2>3. Slave # None =>
          \A x \in BothSteps("start", Master), y \in BothSteps("start", Slave) :
            Before(x, y)
    BY <1>0, BothInOrder, ControllersDiffer
  <2> QED
    BY <2>1, <2>2, <2>3
<1>9. \A x \in ((A \union B) \union C) \union D : Before(x, p)
  <2>1. \A ctl : \A op \in {"start", "stop"} : \A x \in BothSteps(op, ctl) : Before(x, p)
    BY BeforeOther DEF BothSteps, Simple
  <2> QED
    BY <2>1
<1>10. ForcePlan = (((a \o b) \o c) \o d) \o <<p>>
  BY DEF ForcePlan
<1> HIDE DEF a, b, c, d, A, B, C, D, p
<1>11. Sorted(a \o b) /\ Steps(a \o b) = A \union B
  BY <1>2, <1>3, <1>6, SortedConcat
<1>12. Sorted((a \o b) \o c) /\ Steps((a \o b) \o c) = (A \union B) \union C
  BY <1>4, <1>7, <1>11, SortedConcat
<1>13. /\ Sorted(((a \o b) \o c) \o d)
       /\ Steps(((a \o b) \o c) \o d) = ((A \union B) \union C) \union D
  BY <1>5, <1>8, <1>12, SortedConcat
<1>14. /\ Sorted((((a \o b) \o c) \o d) \o <<p>>)
       /\ Steps((((a \o b) \o c) \o d) \o <<p>>)
            = (((A \union B) \union C) \union D) \union {p}
  BY <1>1, <1>9, <1>13, SortedConcat
<1> QED
  BY <1>10, <1>14, Zenon DEF A, B, C, D, p, ForceSteps

(* What is in a plan, and what is not.                                     *)
LEMMA PieceContents ==
  /\ \A x \in CoreOnSteps : /\ x.op \in {"power_on", "start", "set"}
                            /\ x.clk = "core"
  /\ \A x \in LinkOnSteps : /\ x.op \in {"start", "post", "set"}
                            /\ x.op = "start" => x.clk \in LinkClocks
                            /\ x.op = "set" => x.clk = "link"
  /\ \A x \in LinkOffSteps : /\ x.op \in {"stop", "clear"}
                             /\ x.op = "stop" => x.clk \in LinkClocks
                             /\ x.op = "clear" => x.clk = "link"
  /\ \A x \in CoreOffSteps : /\ x.op \in {"stop", "power_off", "clear"}
                             /\ x.clk = "core"
<1>1. \A clk : \A x \in StartSteps(clk) : x.op = "start" /\ x.clk = clk
  BY DEF StartSteps, Step
<1>2. \A clk : \A x \in StopSteps(clk) : x.op = "stop" /\ x.clk = clk
  BY DEF StopSteps, Step
<1>3. \A op, clk : Simple(op, clk).op = op /\ Simple(op, clk).clk = clk
  BY DEF Simple, Step
<1>4. \A x \in CoreOnSteps : /\ x.op \in {"power_on", "start", "set"}
                             /\ x.clk = "core"
  BY <1>1, <1>3 DEF CoreOnSteps
<1>5. \A x \in LinkOnSteps : /\ x.op \in {"start", "post", "set"}
                             /\ x.op = "start" => x.clk \in LinkClocks
                             /\ x.op = "set" => x.clk = "link"
  BY <1>1, <1>3 DEF LinkOnSteps, LinkClocks
<1>6. \A x \in LinkOffSteps : /\ x.op \in {"stop", "clear"}
                              /\ x.op = "stop" => x.clk \in LinkClocks
                              /\ x.op = "clear" => x.clk = "link"
  BY <1>2, <1>3 DEF LinkOffSteps, LinkClocks
<1>7. \A x \in CoreOffSteps : /\ x.op \in {"stop", "power_off", "clear"}
                              /\ x.clk = "core"
  BY <1>2, <1>3 DEF CoreOffSteps
<1> QED
  BY <1>4, <1>5, <1>6, <1>7

LEMMA PieceComplete ==
  /\ \A c \in Ctrls : /\ \E x \in CoreOnSteps :
                           x.op = "start" /\ x.clk = "core" /\ x.ctrl = c
                      /\ \A clk \in LinkClocks : \E x \in LinkOnSteps :
                           x.op = "start" /\ x.clk = clk /\ x.ctrl = c
                      /\ \E x \in CoreOffSteps :
                           x.op = "stop" /\ x.clk = "core" /\ x.ctrl = c
                      /\ \A clk \in LinkClocks : \E x \in LinkOffSteps :
                           x.op = "stop" /\ x.clk = clk /\ x.ctrl = c
  /\ \E x \in CoreOnSteps : x.op = "power_on" /\ x.clk = "core"
  /\ \E x \in CoreOnSteps : x.op = "set" /\ x.clk = "core"
  /\ \E x \in LinkOnSteps : x.op = "set" /\ x.clk = "link"
  /\ \E x \in LinkOffSteps : x.op = "clear" /\ x.clk = "link"
  /\ \E x \in CoreOffSteps : x.op = "power_off" /\ x.clk = "core"
  /\ \E x \in CoreOffSteps : x.op = "clear" /\ x.clk = "core"
<1>1. ASSUME NEW clk, NEW c \in Ctrls
      PROVE  \E x \in StartSteps(clk) :
               x.op = "start" /\ x.clk = clk /\ x.ctrl = c
  <2>1. CASE c = Master
    <3>1. Step("start", clk, Master, FALSE) \in StartSteps(clk)
      BY Zenon DEF StartSteps
    <3>2. /\ Step("start", clk, Master, FALSE).op = "start"
          /\ Step("start", clk, Master, FALSE).clk = clk
          /\ Step("start", clk, Master, FALSE).ctrl = Master
      BY DEF Step
    <3> QED
      BY <2>1, <3>1, <3>2, Zenon
  <2>2. CASE c = Slave /\ Slave # None
    <3>1. Step("start", clk, Slave, TRUE) \in StartSteps(clk)
      BY <2>2 DEF StartSteps
    <3>2. /\ Step("start", clk, Slave, TRUE).op = "start"
          /\ Step("start", clk, Slave, TRUE).clk = clk
          /\ Step("start", clk, Slave, TRUE).ctrl = Slave
      BY DEF Step
    <3> QED
      BY <2>2, <3>1, <3>2, Zenon
  <2> QED
    BY <2>1, <2>2, ControllersDiffer
<1>2. ASSUME NEW clk, NEW c \in Ctrls
      PROVE  \E x \in StopSteps(clk) :
               x.op = "stop" /\ x.clk = clk /\ x.ctrl = c
  <2>1. CASE c = Master
    <3>1. Step("stop", clk, Master, FALSE) \in StopSteps(clk)
      BY Zenon DEF StopSteps
    <3>2. /\ Step("stop", clk, Master, FALSE).op = "stop"
          /\ Step("stop", clk, Master, FALSE).clk = clk
          /\ Step("stop", clk, Master, FALSE).ctrl = Master
      BY DEF Step
    <3> QED
      BY <2>1, <3>1, <3>2, Zenon
  <2>2. CASE c = Slave /\ Slave # None
    <3>1. Step("stop", clk, Slave, FALSE) \in StopSteps(clk)
      BY <2>2 DEF StopSteps
    <3>2. /\ Step("stop", clk, Slave, FALSE).op = "stop"
          /\ Step("stop", clk, Slave, FALSE).clk = clk
          /\ Step("stop", clk, Slave, FALSE).ctrl = Slave
      BY DEF Step
    <3> QED
      BY <2>2, <3>1, <3>2, Zenon
  <2> QED
    BY <2>1, <2>2, ControllersDiffer
<1>3. \A op, clk : Simple(op, clk).op = op /\ Simple(op, clk).clk = clk
  BY DEF Simple, Step
<1>4. StartSteps("core") \subseteq CoreOnSteps
  BY Zenon DEF CoreOnSteps
<1>5. \A clk \in LinkClocks : StartSteps(clk) \subseteq LinkOnSteps
  BY DEF LinkOnSteps, LinkClocks
<1>6. StopSteps("core") \subseteq CoreOffSteps
  BY Zenon DEF CoreOffSteps
<1>7. \A clk \in LinkClocks : StopSteps(clk) \subseteq LinkOffSteps
  BY DEF LinkOffSteps, LinkClocks
<1>8. /\ Simple("power_on", "core") \in CoreOnSteps
      /\ Simple("set", "core") \in CoreOnSteps
      /\ Simple("set", "link") \in LinkOnSteps
      /\ Simple("clear", "link") \in LinkOffSteps
      /\ Simple("power_off", "core") \in CoreOffSteps
      /\ Simple("clear", "core") \in CoreOffSteps
  BY Zenon DEF CoreOnSteps, LinkOnSteps, LinkOffSteps, CoreOffSteps
<1>9. ASSUME NEW c \in Ctrls
      PROVE  /\ \E x \in CoreOnSteps :
                  x.op = "start" /\ x.clk = "core" /\ x.ctrl = c
             /\ \A clk \in LinkClocks : \E x \in LinkOnSteps :
                  x.op = "start" /\ x.clk = clk /\ x.ctrl = c
             /\ \E x \in CoreOffSteps :
                  x.op = "stop" /\ x.clk = "core" /\ x.ctrl = c
             /\ \A clk \in LinkClocks : \E x \in LinkOffSteps :
                  x.op = "stop" /\ x.clk = clk /\ x.ctrl = c
  <2>1. \E x \in CoreOnSteps : x.op = "start" /\ x.clk = "core" /\ x.ctrl = c
    BY <1>1, <1>4
  <2>2. ASSUME NEW clk \in LinkClocks
        PROVE  /\ \E x \in LinkOnSteps :
                    x.op = "start" /\ x.clk = clk /\ x.ctrl = c
               /\ \E x \in LinkOffSteps :
                    x.op = "stop" /\ x.clk = clk /\ x.ctrl = c
    BY <1>1, <1>2, <1>5, <1>7
  <2>3. \E x \in CoreOffSteps : x.op = "stop" /\ x.clk = "core" /\ x.ctrl = c
    BY <1>2, <1>6
  <2> QED
    BY <2>1, <2>2, <2>3, Zenon
<1>10. /\ \E x \in CoreOnSteps : x.op = "power_on" /\ x.clk = "core"
       /\ \E x \in CoreOnSteps : x.op = "set" /\ x.clk = "core"
       /\ \E x \in LinkOnSteps : x.op = "set" /\ x.clk = "link"
       /\ \E x \in LinkOffSteps : x.op = "clear" /\ x.clk = "link"
       /\ \E x \in CoreOffSteps : x.op = "power_off" /\ x.clk = "core"
       /\ \E x \in CoreOffSteps : x.op = "clear" /\ x.clk = "core"
  BY <1>3, <1>8
<1> QED
  BY <1>9, <1>10, Zenon

(* A plan starts what is wanted and not on, stops what is on and not       *)
(* wanted, on every controller, and switches the supplies with the core.   *)
Serves(S, on, off) ==
  /\ \A x \in S :
       /\ x.op = "start" => KindOf(x.clk) \in on
       /\ x.op = "stop" => KindOf(x.clk) \in off
       /\ x.op = "set" => x.clk \in on
       /\ x.op = "clear" => x.clk \in off
       /\ x.op = "power_on" => "core" \in on
       /\ x.op = "power_off" => "core" \in off
  /\ \A clk \in Clocks, c \in Ctrls :
       /\ KindOf(clk) \in on =>
            \E x \in S : x.op = "start" /\ x.clk = clk /\ x.ctrl = c
       /\ KindOf(clk) \in off =>
            \E x \in S : x.op = "stop" /\ x.clk = clk /\ x.ctrl = c
  /\ \A k \in Kinds :
       /\ k \in on => \E x \in S : x.op = "set" /\ x.clk = k
       /\ k \in off => \E x \in S : x.op = "clear" /\ x.clk = k
  /\ "core" \in on => \E x \in S : x.op = "power_on"
  /\ "core" \in off => \E x \in S : x.op = "power_off"

LEMMA PlanServes ==
  ASSUME NEW wanted
  PROVE  Serves(Steps(Plan(wanted)), wanted \ state, state \ wanted)
<1> DEFINE on == wanted \ state
           off == state \ wanted
           S == Steps(Plan(wanted))
<1>1. S = (((IF "core" \in on THEN CoreOnSteps ELSE {})
              \union (IF "link" \in on THEN LinkOnSteps ELSE {}))
             \union (IF "link" \in off THEN LinkOffSteps ELSE {}))
            \union (IF "core" \in off THEN CoreOffSteps ELSE {})
  BY PlanSorted
<1> HIDE DEF on, off, S
<1>2. \A x \in S : \/ x \in CoreOnSteps /\ "core" \in on
                   \/ x \in LinkOnSteps /\ "link" \in on
                   \/ x \in LinkOffSteps /\ "link" \in off
                   \/ x \in CoreOffSteps /\ "core" \in off
  BY <1>1
<1>3. /\ "core" \in on => CoreOnSteps \subseteq S
      /\ "link" \in on => LinkOnSteps \subseteq S
      /\ "link" \in off => LinkOffSteps \subseteq S
      /\ "core" \in off => CoreOffSteps \subseteq S
  BY <1>1
<1>4. KindOf("core") = "core" /\ \A clk \in LinkClocks : KindOf(clk) = "link"
  BY DEF KindOf, LinkClocks
<1>5. /\ \A clk \in Clocks : clk = "core" \/ clk \in LinkClocks
      /\ \A k \in Kinds : k = "core" \/ k = "link"
  BY DEF Clocks, Kinds, LinkClocks
<1>6. ASSUME NEW x \in S
      PROVE  /\ x.op = "start" => KindOf(x.clk) \in on
             /\ x.op = "stop" => KindOf(x.clk) \in off
             /\ x.op = "set" => x.clk \in on
             /\ x.op = "clear" => x.clk \in off
             /\ x.op = "power_on" => "core" \in on
             /\ x.op = "power_off" => "core" \in off
  <2>1. CASE x \in CoreOnSteps /\ "core" \in on
    <3>1. x.op \in {"power_on", "start", "set"} /\ x.clk = "core"
      BY <2>1, PieceContents
    <3> QED
      BY <3>1, <2>1, <1>4
  <2>2. CASE x \in LinkOnSteps /\ "link" \in on
    <3>1. /\ x.op \in {"start", "post", "set"}
          /\ x.op = "start" => x.clk \in LinkClocks
          /\ x.op = "set" => x.clk = "link"
      BY <2>2, PieceContents
    <3> QED
      BY <3>1, <2>2, <1>4
  <2>3. CASE x \in LinkOffSteps /\ "link" \in off
    <3>1. /\ x.op \in {"stop", "clear"}
          /\ x.op = "stop" => x.clk \in LinkClocks
          /\ x.op = "clear" => x.clk = "link"
      BY <2>3, PieceContents
    <3> QED
      BY <3>1, <2>3, <1>4
  <2>4. CASE x \in CoreOffSteps /\ "core" \in off
    <3>1. x.op \in {"stop", "power_off", "clear"} /\ x.clk = "core"
      BY <2>4, PieceContents
    <3> QED
      BY <3>1, <2>4, <1>4
  <2> QED
    BY <1>2, <2>1, <2>2, <2>3, <2>4
<1>7. ASSUME NEW clk \in Clocks, NEW c \in Ctrls
      PROVE  /\ KindOf(clk) \in on =>
                  \E x \in S : x.op = "start" /\ x.clk = clk /\ x.ctrl = c
             /\ KindOf(clk) \in off =>
                  \E x \in S : x.op = "stop" /\ x.clk = clk /\ x.ctrl = c
  <2>1. CASE clk = "core"
    <3>1. /\ \E x \in CoreOnSteps : x.op = "start" /\ x.clk = clk /\ x.ctrl = c
          /\ \E x \in CoreOffSteps : x.op = "stop" /\ x.clk = clk /\ x.ctrl = c
      BY <2>1, PieceComplete
    <3> QED
      BY <2>1, <3>1, <1>3, <1>4
  <2>2. CASE clk \in LinkClocks
    <3>1. /\ \E x \in LinkOnSteps : x.op = "start" /\ x.clk = clk /\ x.ctrl = c
          /\ \E x \in LinkOffSteps : x.op = "stop" /\ x.clk = clk /\ x.ctrl = c
      BY <2>2, PieceComplete
    <3> QED
      BY <2>2, <3>1, <1>3, <1>4
  <2> QED
    BY <1>5, <2>1, <2>2
<1>8. ASSUME NEW k \in Kinds
      PROVE  /\ k \in on => \E x \in S : x.op = "set" /\ x.clk = k
             /\ k \in off => \E x \in S : x.op = "clear" /\ x.clk = k
  <2>1. CASE k = "core"
    BY <2>1, <1>3, PieceComplete
  <2>2. CASE k = "link"
    BY <2>2, <1>3, PieceComplete
  <2> QED
    BY <1>5, <2>1, <2>2
<1>9. /\ "core" \in on => \E x \in S : x.op = "power_on"
      /\ "core" \in off => \E x \in S : x.op = "power_off"
  BY <1>3, PieceComplete
<1>10. Serves(S, on, off)
  BY <1>6, <1>7, <1>8, <1>9, Zenon DEF Serves
<1> QED
  BY <1>10 DEF S, on, off

(* The forced update stops and starts the link clocks of every controller. *)
LEMMA ForceContents ==
  /\ \A x \in ForceSteps : /\ x.op \in {"stop", "start", "post"}
                           /\ Switches(x) => x.clk \in LinkClocks
  /\ \A clk \in LinkClocks, c \in Ctrls :
       /\ \E x \in ForceSteps : x.op = "stop" /\ x.clk = clk /\ x.ctrl = c
       /\ \E x \in ForceSteps : x.op = "start" /\ x.clk = clk /\ x.ctrl = c
<1>1. ASSUME NEW op, NEW c
      PROVE  /\ \A x \in BothSteps(op, c) : x.op = op /\ x.clk \in LinkClocks
             /\ \A clk \in LinkClocks : \E x \in BothSteps(op, c) :
                  x.op = op /\ x.clk = clk /\ x.ctrl = c
  <2>1. \A x \in BothSteps(op, c) : x.op = op /\ x.clk \in LinkClocks
    BY DEF BothSteps, LinkClocks, Step
  <2>2. ASSUME NEW clk \in LinkClocks
        PROVE  \E x \in BothSteps(op, c) : x.op = op /\ x.clk = clk /\ x.ctrl = c
    <3>1. Step(op, clk, c, FALSE) \in BothSteps(op, c)
      BY DEF BothSteps, LinkClocks
    <3> QED
      BY <3>1 DEF Step
  <2> QED
    BY <2>1, <2>2
<1>2. Simple("post", "link").op = "post"
  BY DEF Simple, Step
<1>3. \A x \in ForceSteps : \/ \E op \in {"start", "stop"}, c \in Ctrls :
                                 x \in BothSteps(op, c)
                            \/ x = Simple("post", "link")
  BY ControllersDiffer DEF ForceSteps
<1>4. \A op \in {"start", "stop"}, c \in Ctrls : BothSteps(op, c) \subseteq ForceSteps
  BY ControllersDiffer DEF ForceSteps
<1>5. \A x \in ForceSteps : /\ x.op \in {"stop", "start", "post"}
                            /\ Switches(x) => x.clk \in LinkClocks
  BY <1>1, <1>2, <1>3 DEF Switches
<1>6. \A clk \in LinkClocks, c \in Ctrls :
        /\ \E x \in ForceSteps : x.op = "stop" /\ x.clk = clk /\ x.ctrl = c
        /\ \E x \in ForceSteps : x.op = "start" /\ x.clk = clk /\ x.ctrl = c
  BY <1>1, <1>4
<1> QED
  BY <1>5, <1>6

-----------------------------------------------------------------------------
(* One step of the walk.                                                   *)

LEMMA Walked ==
  ASSUME Call, todo # <<>>, todo' = Tail(todo)
  PROVE  /\ Head(todo) \in Todo
         /\ Sound(Head(todo))
         /\ Sorted(todo')
         /\ Todo' = Todo \ {Head(todo)}
         /\ \A y \in Todo' : Before(Head(todo), y)
<1>1. Sorted(todo)
  BY DEF Call
<1>2. /\ Head(todo) \in Steps(todo)
      /\ Sorted(Tail(todo))
      /\ Steps(Tail(todo)) = Steps(todo) \ {Head(todo)}
      /\ \A y \in Steps(Tail(todo)) : Before(Head(todo), y)
  BY <1>1, SortedTail
<1>3. Sound(Head(todo))
  BY <1>1, <1>2 DEF Sorted
<1>4. Todo' = Steps(Tail(todo)) /\ Todo = Steps(todo)
  BY Zenon DEF Todo, Steps
<1> QED
  BY <1>2, <1>3, <1>4, Zenon

(* A clock is started once and stopped once.                               *)
LEMMA PendingWalked ==
  ASSUME Call, todo # <<>>, todo' = Tail(todo),
         NEW op \in {"start", "stop"}, NEW clk \in Clocks, NEW c \in Ctrls
  PROVE  Pending(op, clk, c)' <=>
           /\ Pending(op, clk, c)
           /\ ~ (/\ Head(todo).op = op /\ Head(todo).clk = clk
                 /\ Head(todo).ctrl = c)
<1> DEFINE x == Head(todo)
<1>1. Todo' = Todo \ {x} /\ \A y \in Todo' : Before(x, y)
  BY Walked
<1> HIDE DEF x
<1>2. Pending(op, clk, c)' => Pending(op, clk, c)
  BY <1>1, Zenon DEF Pending
<1>3. Pending(op, clk, c) /\ ~ (x.op = op /\ x.clk = clk /\ x.ctrl = c)
        => Pending(op, clk, c)'
  BY <1>1 DEF Pending
<1>4. ASSUME NEW y \in Todo', y.op = op, y.clk = clk, y.ctrl = c,
             x.op = op, x.clk = clk, x.ctrl = c
      PROVE  FALSE
  <2>1. Rank(x) < Rank(y)
    BY <1>1, <1>4, Zenon DEF Before, Switches
  <2>2. Rank(x) = Rank(y)
    BY <1>4, Zenon DEF Rank
  <2>3. Rank(x) \in Int
    BY DEF Rank
  <2> QED
    BY <2>1, <2>2, <2>3
<1>5. Pending(op, clk, c)' => ~ (x.op = op /\ x.clk = clk /\ x.ctrl = c)
  BY <1>4, Zenon DEF Pending
<1> QED
  BY <1>2, <1>3, <1>5 DEF x

(* So is a recorded state changed, and the power switched, once.           *)
LEMMA PlannedWalked ==
  ASSUME Call, todo # <<>>, todo' = Tail(todo), NEW op \in Ops \ {"start", "stop"}
  PROVE  /\ \A clk : Planned(op, clk)' <=>
              /\ Planned(op, clk)
              /\ ~ (Head(todo).op = op /\ Head(todo).clk = clk)
         /\ op \in {"power_on", "power_off"} =>
              ((\E y \in Todo' : y.op = op) <=>
                 (\E y \in Todo : y.op = op) /\ Head(todo).op # op)
<1> DEFINE x == Head(todo)
<1>1. /\ Todo' = Todo \ {x} /\ \A y \in Todo' : Before(x, y)
      /\ x \in Todo
  BY Walked
<1>2. \A y \in Todo : Sound(y)
  BY DEF Call, Sorted, Todo
<1> HIDE DEF x
<1>3. ASSUME NEW y \in Todo', y.op = op, x.op = op, y.clk = x.clk
      PROVE  FALSE
  <2>1. Sound(x) /\ Sound(y)
    BY <1>1, <1>2
  <2>2. x.ctrl = y.ctrl /\ x.undo = y.undo
    BY <2>1, <1>3 DEF Sound, StepType
  <2>3. x \in StepType /\ y \in StepType
    BY <2>1 DEF Sound
  <2>4. x = y
    BY <2>2, <2>3, <1>3 DEF StepType
  <2> QED
    BY <2>4, <1>1
<1>4. ASSUME NEW clk
      PROVE  Planned(op, clk)' <=>
               Planned(op, clk) /\ ~ (x.op = op /\ x.clk = clk)
  BY <1>1, <1>3, Zenon DEF Planned
<1>5. ASSUME op \in {"power_on", "power_off"}
      PROVE  (\E y \in Todo' : y.op = op) <=>
               (\E y \in Todo : y.op = op) /\ x.op # op
  <2>1. \A y \in Todo : y.op = op => y.clk = "core"
    BY <1>2, <1>5 DEF Sound
  <2>2. ~ \E y \in Todo' : y.op = op /\ x.op = op
    BY <2>1, <1>1, <1>3
  <2> QED
    BY <2>2, <1>1
<1> QED
  BY <1>4, <1>5 DEF x

(* Nothing is pending once a request has ended.                            *)
LEMMA NothingPending ==
  /\ todo = <<>> => Todo = {}
  /\ Todo = {} => /\ \A op, clk, c : ~ Pending(op, clk, c)
                  /\ \A op, clk : ~ Planned(op, clk)
BY SortedEmpty, Zenon DEF Todo, Pending, Planned

-----------------------------------------------------------------------------
(* Types.                                                                  *)

(* Every request, in full.                                                 *)
Request(m, from, kinds, good, bad) ==
  m.from = from /\ m.kinds = kinds /\ m.good = good /\ m.bad = bad
MoveForm(m) ==
  \/ m.on /\ Request(m, "out", Kinds, "using", "out")
  \/ m.on /\ Request(m, "out", Kinds, "using", "using")
  \/ ~ m.on /\ Request(m, "using", Kinds, "out", "out")
  \/ m.on /\ Request(m, "out", {"core"}, "ready", "failed")
  \/ ~ m.on /\ Request(m, "ready", {"core"}, "failed", "failed")
  \/ m.on /\ Request(m, "ready", {"link"}, "using", "undoing")
  \/ ~ m.on /\ Request(m, "using", {"link"}, "undoing", "undoing")
  \/ ~ m.on /\ Request(m, "undoing", {"core"}, "failed", "failed")
  \/ ~ m.on /\ Request(m, "using", Kinds, "parked", "parked")
  \/ ~ m.on /\ Request(m, "failed", Kinds, "dead", "dead")
  \/ m.on /\ Request(m, "parked", {"core"}, "switching", "unswitched")
  \/ m.on /\ Request(m, "switching", {"link"}, "using", "reverting")
  \/ ~ m.on /\ Request(m, "reverting", {"core"}, "unswitched", "unswitched")
  \/ ~ m.on /\ Request(m, "unswitched", Kinds, "parked", "parked")
  \/ m.on /\ Request(m, "parked", Kinds, "stopping", "stopping")
  \/ m.on /\ Request(m, "dead", Kinds, "dying", "dying")
  \/ ~ m.on /\ Request(m, "stopping", {"link"}, "leaving", "leaving")
  \/ ~ m.on /\ Request(m, "dying", {"link"}, "leaving", "leaving")
  \/ ~ m.on /\ Request(m, "leaving", {"core"}, "out", "out")
  \/ ~ m.on /\ Request(m, "using", {"link"}, "leaving", "leaving")
  \/ ~ m.on /\ Request(m, "failed", {"link"}, "ending", "ending")
  \/ ~ m.on /\ Request(m, "ending", {"core"}, "out", "out")

(* The ones that give up nothing.                                          *)
Hollow(m) == ~ m.on /\ m.from \in {"failed", "ending", "unswitched"}

LEMMA MoveForms ==
  ASSUME NEW u \in Users, NEW m \in Moves(u)
  PROVE  MoveForm(m) /\ m.on \in BOOLEAN
<1>1. m \in EncoderMoves \union BorrowerMoves \union PanelMoves
  BY Zenon DEF Moves
<1>2. \/ m = Ask("out", Kinds, TRUE, "using", "out")
      \/ m = Ask("out", Kinds, TRUE, "using", "using")
      \/ m = Ask("using", Kinds, FALSE, "out", "out")
      \/ m = Ask("out", {"core"}, TRUE, "ready", "failed")
      \/ m = Ask("ready", {"core"}, FALSE, "failed", "failed")
      \/ m = Ask("ready", {"link"}, TRUE, "using", "undoing")
      \/ m = Ask("using", {"link"}, FALSE, "undoing", "undoing")
      \/ m = Ask("undoing", {"core"}, FALSE, "failed", "failed")
      \/ m = Ask("using", Kinds, FALSE, "parked", "parked")
      \/ m = Ask("failed", Kinds, FALSE, "dead", "dead")
      \/ m = Ask("parked", {"core"}, TRUE, "switching", "unswitched")
      \/ m = Ask("switching", {"link"}, TRUE, "using", "reverting")
      \/ m = Ask("reverting", {"core"}, FALSE, "unswitched", "unswitched")
      \/ m = Ask("unswitched", Kinds, FALSE, "parked", "parked")
      \/ m = Ask("parked", Kinds, TRUE, "stopping", "stopping")
      \/ m = Ask("dead", Kinds, TRUE, "dying", "dying")
      \/ m = Ask("stopping", {"link"}, FALSE, "leaving", "leaving")
      \/ m = Ask("dying", {"link"}, FALSE, "leaving", "leaving")
      \/ m = Ask("leaving", {"core"}, FALSE, "out", "out")
      \/ m = Ask("using", {"link"}, FALSE, "leaving", "leaving")
      \/ m = Ask("failed", {"link"}, FALSE, "ending", "ending")
      \/ m = Ask("ending", {"core"}, FALSE, "out", "out")
  BY <1>1 DEF EncoderMoves, BorrowerMoves, PanelMoves, BringUp, CmdPanelMoves,
              VideoPanelMoves
<1>3. ASSUME NEW from, NEW kinds, NEW on, NEW good, NEW bad,
             m = Ask(from, kinds, on, good, bad)
      PROVE  Request(m, from, kinds, good, bad) /\ m.on = on
  BY <1>3 DEF Ask, Request
<1>4. CASE m = Ask("out", Kinds, TRUE, "using", "out")
  BY <1>4, <1>3 DEF MoveForm
<1>5. CASE m = Ask("out", Kinds, TRUE, "using", "using")
  BY <1>5, <1>3 DEF MoveForm
<1>6. CASE m = Ask("using", Kinds, FALSE, "out", "out")
  BY <1>6, <1>3 DEF MoveForm
<1>7. CASE m = Ask("out", {"core"}, TRUE, "ready", "failed")
  BY <1>7, <1>3 DEF MoveForm
<1>8. CASE m = Ask("ready", {"core"}, FALSE, "failed", "failed")
  BY <1>8, <1>3 DEF MoveForm
<1>9. CASE m = Ask("ready", {"link"}, TRUE, "using", "undoing")
  BY <1>9, <1>3 DEF MoveForm
<1>10. CASE m = Ask("using", {"link"}, FALSE, "undoing", "undoing")
  BY <1>10, <1>3 DEF MoveForm
<1>11. CASE m = Ask("undoing", {"core"}, FALSE, "failed", "failed")
  BY <1>11, <1>3 DEF MoveForm
<1>12. CASE m = Ask("using", Kinds, FALSE, "parked", "parked")
  BY <1>12, <1>3 DEF MoveForm
<1>13. CASE m = Ask("failed", Kinds, FALSE, "dead", "dead")
  BY <1>13, <1>3 DEF MoveForm
<1>14. CASE m = Ask("parked", {"core"}, TRUE, "switching", "unswitched")
  BY <1>14, <1>3 DEF MoveForm
<1>15. CASE m = Ask("switching", {"link"}, TRUE, "using", "reverting")
  BY <1>15, <1>3 DEF MoveForm
<1>16. CASE m = Ask("reverting", {"core"}, FALSE, "unswitched", "unswitched")
  BY <1>16, <1>3 DEF MoveForm
<1>17. CASE m = Ask("unswitched", Kinds, FALSE, "parked", "parked")
  BY <1>17, <1>3 DEF MoveForm
<1>18. CASE m = Ask("parked", Kinds, TRUE, "stopping", "stopping")
  BY <1>18, <1>3 DEF MoveForm
<1>19. CASE m = Ask("dead", Kinds, TRUE, "dying", "dying")
  BY <1>19, <1>3 DEF MoveForm
<1>20. CASE m = Ask("stopping", {"link"}, FALSE, "leaving", "leaving")
  BY <1>20, <1>3 DEF MoveForm
<1>21. CASE m = Ask("dying", {"link"}, FALSE, "leaving", "leaving")
  BY <1>21, <1>3 DEF MoveForm
<1>22. CASE m = Ask("leaving", {"core"}, FALSE, "out", "out")
  BY <1>22, <1>3 DEF MoveForm
<1>23. CASE m = Ask("using", {"link"}, FALSE, "leaving", "leaving")
  BY <1>23, <1>3 DEF MoveForm
<1>24. CASE m = Ask("failed", {"link"}, FALSE, "ending", "ending")
  BY <1>24, <1>3 DEF MoveForm
<1>25. CASE m = Ask("ending", {"core"}, FALSE, "out", "out")
  BY <1>25, <1>3 DEF MoveForm
<1> QED
  BY <1>2, <1>4, <1>5, <1>6, <1>7, <1>8, <1>9, <1>10, <1>11, <1>12, <1>13, <1>14,
     <1>15, <1>16, <1>17, <1>18, <1>19, <1>20, <1>21, <1>22, <1>23, <1>24, <1>25, Zenon

LEMMA ForceFields ==
  /\ ForceMove.from = "using" /\ ForceMove.good = "using"
  /\ ForceMove.bad = "using" /\ ForceMove.kinds = {} /\ ForceMove.on = TRUE
BY DEF ForceMove, Ask

LEMMA MoveTypes ==
  ASSUME NEW u \in Users, NEW m \in Moves(u) \union {ForceMove}
  PROVE  /\ m.good \in Positions /\ m.bad \in Positions /\ m.from \in Positions
         /\ m.on \in BOOLEAN
         /\ m.kinds \in SUBSET Kinds
<1>1. CASE m \in Moves(u)
  <2>1. MoveForm(m) /\ m.on \in BOOLEAN
    BY <1>1, MoveForms
  <2> QED
    BY <2>1 DEF MoveForm, Request, Positions, Kinds
<1>2. CASE m = ForceMove
  BY <1>2, ForceFields DEF Positions, Kinds
<1> QED
  BY <1>1, <1>2

LEMMA ClientTypes == \A u \in Users : Client(u) \in Clients
BY DEF Client, Clients

LEMMA UsersApart ==
  /\ Encoder # Panel /\ Encoder # Checker /\ Encoder # Recovery
  /\ Panel # Checker /\ Panel # Recovery /\ Checker # Recovery
  /\ \A u \in Users : u # None
  /\ Client(Encoder) = Mdp /\ Client(Panel) = Dsi /\ Client(Checker) = Dsi
  /\ Client(Recovery) = Dsi /\ Dsi # Mdp
  /\ \A u \in Users : u = Encoder \/ u = Panel \/ u = Checker \/ u = Recovery
BY UserAssumption DEF Client, Users

LEMMA DownTypes == \A n \in Nat : Down(n) \in Nat /\ (n > 0 => Down(n) = n - 1)
BY DEF Down

LEMMA TypeEnter ==
  ASSUME TypeOK, NEW u \in Users, Enter(u)
  PROVE  TypeOK'
<1>1. PICK m \in Moves(u) : /\ refcount' = NewRefcount(u, m)
                            /\ vote' = NewVote(u, m)
  BY DEF Enter
<1>2. m.on \in BOOLEAN /\ m.kinds \in SUBSET Kinds
  BY MoveTypes
<1>3. refcount' \in [Clients -> [Kinds -> Nat]]
  <2>1. \A n \in Nat : Counted(m, n) \in Nat
    BY <1>2 DEF Counted
  <2>2. refcount \in [Clients -> [Kinds -> Nat]]
    BY DEF TypeOK
  <2>3. [k \in Kinds |-> IF k \in m.kinds
                           THEN Counted(m, refcount[Client(u)][k])
                           ELSE refcount[Client(u)][k]] \in [Kinds -> Nat]
    BY <2>1, <2>2, ClientTypes
  <2> QED
    BY <1>1, <2>2, <2>3, Zenon DEF NewRefcount
<1>4. vote' \in [Clients -> SUBSET Kinds]
  <2>1. vote \in [Clients -> SUBSET Kinds]
    BY DEF TypeOK
  <2> QED
    BY <1>1, <1>2, <2>1, ClientTypes DEF NewVote
<1>5. caller' \in Users \union {None}
  BY DEF Enter
<1>6. UNCHANGED <<at, state, running, power, rc, faults>>
  BY DEF Enter, hardware
<1> QED
  BY <1>3, <1>4, <1>5, <1>6 DEF TypeOK

LEMMA TypeReturn ==
  ASSUME TypeOK, Call, NEW u \in Users, Return(u)
  PROVE  TypeOK'
<1>1. caller = u /\ caller # None
  BY UserAssumption DEF Return
<1>2. move.good \in Positions /\ move.bad \in Positions
  BY <1>1, MoveTypes DEF Call
<1>3. at' \in [Users -> Positions]
  BY <1>2 DEF TypeOK, Return, Positions
<1> QED
  BY <1>3 DEF TypeOK, Return, Positions, votes, hardware

(* The clock a step is about.                                              *)
LEMMA RunningKept ==
  ASSUME TypeOK, NEW clk \in Clocks, NEW c \in Ctrls, NEW n \in Nat
  PROVE  /\ running[clk][c] \in Nat
         /\ [running EXCEPT ![clk][c] = n] \in [Clocks -> [Ctrls -> Nat]]
         /\ \A k \in Clocks, d \in Ctrls :
              [running EXCEPT ![clk][c] = n][k][d] =
                IF k = clk /\ d = c THEN n ELSE running[k][d]
BY DEF TypeOK

LEMMA StepKinds ==
  ASSUME NEW x, Sound(x)
  PROVE  /\ x.op \in {"start", "stop"} => x.clk \in Clocks /\ x.ctrl \in Ctrls
         /\ x.op \in {"set", "clear"} => x.clk \in Kinds
         /\ x.undo => x.op = "start" /\ x.ctrl = Slave
         /\ x.undo \in BOOLEAN
BY DEF Sound, StepType

LEMMA HeadSound ==
  ASSUME Call, todo # <<>>
  PROVE  Sound(Head(todo)) /\ Head(todo) \in Todo
BY SortedTail DEF Call, Sorted, Todo

LEMMA TypeWalk ==
  ASSUME TypeOK, Call, Walk
  PROVE  TypeOK'
<1>1. todo # <<>>
  BY DEF Walk, Now, PowerOn, PowerOnRefused, PowerOnFails, ClockStarts,
         ClockStartFails, ClockStops, PostOn, PostOnFails, PowerOff,
         PowerOffFails, SetState
<1> DEFINE x == Head(todo)
<1>2. Sound(x)
  BY <1>1, HeadSound
<1>3. /\ x.op \in {"start", "stop"} => x.clk \in Clocks /\ x.ctrl \in Ctrls
      /\ x.op \in {"set", "clear"} => x.clk \in Kinds
      /\ x.undo \in BOOLEAN
  BY <1>2, StepKinds
<1> HIDE DEF x
<1>4. UNCHANGED <<at, refcount, vote, caller>> /\ rc' \in BOOLEAN
  BY DEF TypeOK, Walk, votes, Done, Aborted, PowerOn, PowerOnRefused, PowerOnFails,
         ClockStarts, ClockStartFails, ClockStops, PostOn, PostOnFails,
         PowerOff, PowerOffFails, SetState
<1>5. faults' \in 0 .. MaxFaults
  <2>1. faults' = faults \/ Fault
    BY DEF Walk, Done, Aborted, PowerOn, PowerOnRefused, PowerOnFails,
           ClockStarts, ClockStartFails, ClockStops, PostOn, PostOnFails,
           PowerOff, PowerOffFails, SetState
  <2> QED
    BY <2>1, BoundAssumption DEF Fault, TypeOK
<1>6. power' \in BOOLEAN
  BY DEF TypeOK, Walk, PowerOn, PowerOnRefused, PowerOnFails, ClockStarts,
         ClockStartFails, ClockStops, PostOn, PostOnFails, PowerOff,
         PowerOffFails, SetState, hardware
<1>7. running' \in [Clocks -> [Ctrls -> Nat]]
  <2>0. running \in [Clocks -> [Ctrls -> Nat]]
    BY DEF TypeOK
  <2>1. CASE ClockStarts
    <3>1. x.clk \in Clocks /\ x.ctrl \in Ctrls
      BY <2>1, <1>3 DEF ClockStarts, Now, x
    <3>2. running' = [running EXCEPT ![x.clk][x.ctrl] = @ + 1]
      BY <2>1 DEF ClockStarts, x
    <3>3. running[x.clk][x.ctrl] + 1 \in Nat
      BY <2>0, <3>1
    <3> QED
      BY <2>0, <3>1, <3>2, <3>3
  <2>2. CASE ClockStartFails
    <3>1. x.clk \in Clocks
      BY <2>2, <1>3 DEF ClockStartFails, Now, x
    <3>2. running' = IF x.undo THEN [running EXCEPT ![x.clk][Master] = Down(@)]
                               ELSE running
      BY <2>2 DEF ClockStartFails, x
    <3>3. Down(running[x.clk][Master]) \in Nat
      BY <2>0, <3>1, DownTypes, ControllersDiffer
    <3> QED
      BY <2>0, <3>1, <3>2, <3>3, ControllersDiffer
  <2>3. CASE ClockStops
    <3>1. x.clk \in Clocks /\ x.ctrl \in Ctrls
      BY <2>3, <1>3 DEF ClockStops, Now, x
    <3>2. running' = [running EXCEPT ![x.clk][x.ctrl] = Down(@)]
      BY <2>3 DEF ClockStops, x
    <3>3. Down(running[x.clk][x.ctrl]) \in Nat
      BY <2>0, <3>1, DownTypes
    <3> QED
      BY <2>0, <3>1, <3>2, <3>3
  <2>4. CASE UNCHANGED running
    BY <2>0, <2>4
  <2> QED
    BY <2>1, <2>2, <2>3, <2>4
    DEF Walk, PowerOn, PowerOnRefused, PowerOnFails, PostOn, PostOnFails,
        PowerOff, PowerOffFails, SetState, hardware
<1>8. state' \in SUBSET Kinds
  <2>1. CASE SetState
    <3>1. \/ x.op = "set" /\ state' = state \union {x.clk}
          \/ x.op = "clear" /\ state' = state \ {x.clk}
      BY <2>1 DEF SetState, Now, x
    <3> QED
      BY <3>1, <1>3 DEF TypeOK
  <2>2. CASE UNCHANGED state
    BY <2>2 DEF TypeOK
  <2> QED
    BY <2>1, <2>2
    DEF Walk, PowerOn, PowerOnRefused, PowerOnFails, ClockStarts,
        ClockStartFails, ClockStops, PostOn, PostOnFails, PowerOff,
        PowerOffFails, hardware
<1> QED
  BY <1>4, <1>5, <1>6, <1>7, <1>8 DEF TypeOK

LEMMA TypeKept ==
  ASSUME TypeOK, Call, [Next]_vars
  PROVE  TypeOK'
<1>1. CASE ForceUpdate
  <2>1. caller' \in Users \union {None}
    BY <1>1 DEF ForceUpdate, StartForce, Users
  <2>2. UNCHANGED <<at, refcount, vote, state, running, power, rc, faults>>
    BY <1>1 DEF ForceUpdate, StartForce, votes, hardware
  <2> QED
    BY <2>1, <2>2 DEF TypeOK
<1>2. CASE UNCHANGED vars
  BY <1>2 DEF TypeOK, vars, votes, hardware, call
<1> QED
  BY <1>1, <1>2, TypeEnter, TypeReturn, TypeWalk DEF Next

-----------------------------------------------------------------------------
(* The request under the lock.                                             *)

LEMMA NoForceMove ==
  \A u \in Users : \A m \in Moves(u) : m.kinds # {} /\ m # ForceMove
<1>1. \A u \in Users : \A m \in Moves(u) : m.kinds # {}
  <2> SUFFICES ASSUME NEW u \in Users, NEW m \in Moves(u)
               PROVE  m.kinds # {}
    OBVIOUS
  <2>1. MoveForm(m)
    BY MoveForms
  <2> QED
    BY <2>1 DEF MoveForm, Request, Kinds
<1> QED
  BY <1>1, ForceFields

LEMMA CallKept ==
  ASSUME TypeOK, Call, [Next]_vars
  PROVE  Call'
<1>1. ASSUME NEW u \in Users, Enter(u)
      PROVE  Call'
  <2>1. PICK m \in Moves(u) :
          /\ m.from = at[u]
          /\ move' = m
          /\ todo' = Only(NewVote(u, m) # vote, Plan(Wanted(NewVote(u, m))))
    BY <1>1 DEF Enter
  <2>2. caller' = u /\ UNCHANGED at
    BY <1>1 DEF Enter
  <2>3. Sorted(todo')
    <3>1. todo' = <<>> \/ todo' = Plan(Wanted(NewVote(u, m)))
      BY <2>1 DEF Only
    <3> QED
      BY <3>1, SortedEmpty, PlanSorted
  <2>4. u # None /\ m # ForceMove
    BY UserAssumption, NoForceMove
  <2>5. move'.from = at'[caller']
    BY <2>1, <2>2
  <2> QED
    BY <2>1, <2>2, <2>3, <2>4, <2>5 DEF Call
<1>2. ASSUME NEW u \in Users, Return(u)
      PROVE  Call'
  BY <1>2, SortedEmpty DEF Return, Call
<1>3. CASE ForceUpdate
  <2>1. /\ caller' = Encoder /\ Encoder # None /\ UNCHANGED at
        /\ at[Encoder] = "using"
    BY <1>3, UserAssumption DEF ForceUpdate, StartForce, Users
  <2>2. move' = ForceMove /\ todo' = ForcePlan
    BY <1>3 DEF ForceUpdate, StartForce, ForceMove
  <2>3. ForceMove.from = "using"
    BY DEF ForceMove, Ask
  <2>4. Sorted(todo')
    BY <2>2, ForceSorted
  <2> QED
    BY <2>1, <2>2, <2>3, <2>4 DEF Call
<1>4. CASE Walk
  <2>1. todo # <<>>
    BY <1>4
    DEF Walk, Now, PowerOn, PowerOnRefused, PowerOnFails, ClockStarts,
        ClockStartFails, ClockStops, PostOn, PostOnFails, PowerOff,
        PowerOffFails, SetState
  <2>2. caller # None
    BY <2>1 DEF Call
  <2>3. UNCHANGED <<at, caller, move>> /\ (todo' = Tail(todo) \/ todo' = <<>>)
    BY <1>4
    DEF Walk, Done, Aborted, PowerOn, PowerOnRefused, PowerOnFails,
        ClockStarts, ClockStartFails, ClockStops, PostOn, PostOnFails,
        PowerOff, PowerOffFails, SetState
  <2>4. Sorted(todo')
    BY <2>1, <2>3, Walked, SortedEmpty
  <2> QED
    BY <2>2, <2>3, <2>4 DEF Call
<1>5. CASE UNCHANGED vars
  BY <1>5 DEF Call, vars, call
<1> QED
  BY <1>1, <1>2, <1>3, <1>4, <1>5 DEF Next

-----------------------------------------------------------------------------
(* The borrowers and the panel.                                            *)

(* The walk leaves everything but the plan and the hardware alone.         *)
LEMMA WalkKeeps ==
  ASSUME Walk
  PROVE  UNCHANGED <<at, caller, move>>
BY DEF Walk, Done, Aborted, PowerOn, PowerOnRefused, PowerOnFails, ClockStarts,
       ClockStartFails, ClockStops, PostOn, PostOnFails, PowerOff, PowerOffFails,
       SetState

(* The panel lets its vote go only when nobody borrows it, and nobody takes*)
(* it up before the panel is initialised again.                            *)
LEMMA BorrowedKept ==
  ASSUME TypeOK, Call, Borrowed, [Next]_vars
  PROVE  Borrowed'
<1>0. /\ Panel \in Users /\ Borrowers \subseteq Users
      /\ Panel # None /\ Encoder # Panel
      /\ \A b \in Borrowers : b # Panel /\ b # None /\ b # Encoder
      /\ at \in [Users -> Positions]
  BY UsersApart DEF Users, Borrowers, TypeOK, Positions
<1>1. ASSUME NEW u \in Users, Enter(u)
      PROVE  Borrowed'
  <2>1. PICK m \in Moves(u) : m.from = at[u] /\ MayAsk(u, m) /\ move' = m
    BY <1>1 DEF Enter
  <2>2. caller = None /\ caller' = u /\ UNCHANGED at
    BY <1>1 DEF Enter
  <2>3. CASE u = Panel
    <3>1. CASE at[Panel] \in Unini
      BY <1>0, <2>2, <2>3, <3>1 DEF Borrowed
    <3>2. CASE at[Panel] \notin Unini /\ {m.good, m.bad} \intersect Unini # {}
      <4>1. /\ at[Panel] \in {"using", "stopping"}
            /\ m.good \in {"leaving", "undoing"}
        <5>1. m \in PanelMoves
          BY <2>3, UsersApart, Zenon DEF Moves
        <5>2. ASSUME NEW from, NEW kinds, NEW on, NEW good, NEW bad,
                     m = Ask(from, kinds, on, good, bad)
              PROVE  m.from = from /\ m.good = good /\ m.bad = bad
          BY <5>2 DEF Ask
        <5> QED
          BY <2>1, <2>3, <3>2, <5>1, <5>2
          DEF PanelMoves, BringUp, CmdPanelMoves, VideoPanelMoves, Unini
      <4>2. PanelAtRest /\ Initialized
        BY <4>1 DEF PanelAtRest, Initialized
      <4>3. at[Checker] = "out" /\ at[Recovery] = "out"
        BY <2>1, <2>3, <4>1, <4>2 DEF MayAsk
      <4> QED
        BY <2>1, <2>2, <3>2, <4>3 DEF Borrowed, Borrowers
    <3>3. CASE at[Panel] \notin Unini /\ {m.good, m.bad} \intersect Unini = {}
      BY <2>1, <2>2, <3>3, Zenon DEF Borrowed, Unini
    <3> QED
      BY <3>1, <3>2, <3>3
  <2>4. CASE u \in Borrowers
    <3>1. at[Panel] \notin Unini
      <4>1. CASE m.on
        <5>1. at[Panel] \in {"using", "parked", "stopping", "switching",
                             "reverting", "unswitched"}
          BY <2>1, <2>4, <4>1 DEF MayAsk, Initialized, Borrowers
        <5> QED
          BY <5>1 DEF Unini
      <4>2. CASE ~ m.on
        <5>1. m \in BorrowerMoves
          BY <1>0, <2>4, Zenon DEF Moves
        <5>2. m.from = "using"
          BY <4>2, <5>1 DEF BorrowerMoves, Ask
        <5> QED
          BY <2>1, <2>4, <5>2 DEF Borrowed
      <4> QED
        BY <4>1, <4>2
    <3> QED
      BY <1>0, <2>2, <2>4, <3>1, Zenon DEF Borrowed, Unini
  <2>5. CASE u = Encoder
    BY <1>0, <2>2, <2>5, Zenon DEF Borrowed, Unini
  <2> QED
    BY <2>3, <2>4, <2>5, UsersApart DEF Borrowers
<1>2. ASSUME NEW u \in Users, Return(u)
      PROVE  Borrowed'
  <2>1. /\ caller = u /\ caller' = None
        /\ at' = [at EXCEPT ![u] = IF rc THEN move.good ELSE move.bad]
    BY <1>2 DEF Return
  <2>2. CASE u = Panel
    <3>1. at'[Panel] \in {move.good, move.bad}
      BY <1>0, <2>1, <2>2
    <3>2. \A b \in Borrowers : at'[b] = at[b]
      BY <1>0, <2>1, <2>2
    <3> QED
      BY <1>0, <2>1, <2>2, <3>1, <3>2 DEF Borrowed, Unini
  <2>3. CASE u # Panel
    <3>1. at'[Panel] = at[Panel] /\ \A b \in Borrowers : b # u => at'[b] = at[b]
      BY <1>0, <2>1, <2>3
    <3> QED
      BY <1>0, <2>1, <3>1 DEF Borrowed, Unini
  <2> QED
    BY <2>2, <2>3
<1>3. CASE ForceUpdate
  <2>1. caller = None /\ caller' = Encoder /\ UNCHANGED at
    BY <1>3 DEF ForceUpdate, StartForce
  <2> QED
    BY <1>0, <2>1, Zenon DEF Borrowed, Unini
<1>4. CASE UNCHANGED <<at, caller, move>>
  BY <1>4, Zenon DEF Borrowed, Unini
<1>5. CASE UNCHANGED vars
  BY <1>4, <1>5 DEF vars, call
<1> QED
  BY <1>1, <1>2, <1>3, <1>4, <1>5, WalkKeeps DEF Next

LEMMA FaultsGrow ==
  ASSUME TypeOK, [Next]_vars, faults' = 0
  PROVE  faults = 0
<1>1. faults \in Nat
  BY BoundAssumption DEF TypeOK
<1>2. faults' = faults \/ faults' = faults + 1
  BY DEF Next, Walk, vars, call, Done, Aborted, Fault, Enter, Return, ForceUpdate,
         StartForce, PowerOn, PowerOnRefused, PowerOnFails, ClockStarts,
         ClockStartFails, ClockStops, PostOn, PostOnFails, PowerOff,
         PowerOffFails, SetState
<1> QED
  BY <1>1, <1>2

LEMMA SwitchedKept ==
  ASSUME TypeOK, Call, Calm, Switched, [Next]_vars
  PROVE  Switched'
<1> SUFFICES ASSUME faults' = 0
             PROVE  at'[Panel] \notin {"reverting", "unswitched"}
  BY DEF Switched
<1>1. faults = 0
  BY FaultsGrow
<1>2. at[Panel] \notin {"reverting", "unswitched"} /\ rc
  BY <1>1 DEF Switched, Calm, Quiet
<1>3. ASSUME NEW u \in Users, Return(u)
      PROVE  at'[Panel] \notin {"reverting", "unswitched"}
  <2>1. /\ caller = u /\ at' = [at EXCEPT ![u] = move.good]
        /\ u # None /\ at \in [Users -> Positions]
    BY <1>2, <1>3, UsersApart DEF Return, TypeOK, Positions
  <2>2. move \in Moves(u) \union {ForceMove} /\ move.from = at[u]
    BY <2>1 DEF Call
  <2>3. move.good \in {"reverting", "unswitched"} => move.from = "reverting"
    <3>1. CASE move \in Moves(u)
      <4>1. MoveForm(move)
        BY <3>1, MoveForms
      <4> QED
        BY <4>1 DEF MoveForm, Request
    <3>2. CASE move = ForceMove
      BY <3>2, ForceFields
    <3> QED
      BY <2>2, <3>1, <3>2
  <2>4. CASE u = Panel
    <3>1. at'[Panel] = move.good
      BY <2>1, <2>4
    <3> QED
      BY <1>2, <2>2, <2>3, <2>4, <3>1
  <2>5. CASE u # Panel
    BY <1>2, <2>1, <2>5 DEF Users
  <2> QED
    BY <2>4, <2>5
<1>4. CASE UNCHANGED at
  BY <1>2, <1>4
<1>5. ASSUME NEW u \in Users, Enter(u)
      PROVE  UNCHANGED at
  BY <1>5 DEF Enter
<1>6. CASE ForceUpdate
  BY <1>4, <1>6 DEF ForceUpdate, StartForce
<1>7. CASE UNCHANGED vars
  BY <1>4, <1>7 DEF vars
<1> QED
  BY <1>3, <1>4, <1>5, <1>6, <1>7, WalkKeeps DEF Next

-----------------------------------------------------------------------------
(* The slave under the master.                                             *)

(* What SlaveBehind says of one clock.                                     *)
Behind(clk) ==
  /\ running[clk][Slave] <= running[clk][Master]
  /\ Pending("start", clk, Slave) =>
       \/ Pending("start", clk, Master)
       \/ Ahead(clk) /\ ~ Pending("stop", clk, Master)
  /\ Pending("stop", clk, Master) =>
       \/ Pending("stop", clk, Slave)
       \/ Ahead(clk)
       \/ running[clk][Slave] = 0

LEMMA BehindIs ==
  SlaveBehind <=> (Slave # None => \A clk \in Clocks : Behind(clk))
BY Zenon DEF SlaveBehind, Behind

(* A plan keeps the controllers together.                                  *)
Together(S, clk) ==
  /\ (\E x \in S : x.op = "start" /\ x.clk = clk /\ x.ctrl = Slave)
       => \E x \in S : x.op = "start" /\ x.clk = clk /\ x.ctrl = Master
  /\ (\E x \in S : x.op = "stop" /\ x.clk = clk /\ x.ctrl = Master)
       => \E x \in S : x.op = "stop" /\ x.clk = clk /\ x.ctrl = Slave

LEMMA BehindAtEntry ==
  ASSUME Slave # None, NEW clk \in Clocks, Behind(clk), Together(Todo', clk),
         UNCHANGED running
  PROVE  Behind(clk)'
BY Zenon DEF Behind, Together, Pending

LEMMA PlanTogether ==
  ASSUME Slave # None, NEW clk \in Clocks, NEW wanted
  PROVE  Together(Steps(Plan(wanted)), clk)
<1> DEFINE S == Steps(Plan(wanted))
           on == wanted \ state
           off == state \ wanted
<1>1. Serves(S, on, off)
  BY PlanServes
<1> HIDE DEF S, on, off
<1>2. /\ \A x \in S : /\ x.op = "start" => KindOf(x.clk) \in on
                      /\ x.op = "stop" => KindOf(x.clk) \in off
      /\ \A c \in Ctrls :
           /\ KindOf(clk) \in on =>
                \E x \in S : x.op = "start" /\ x.clk = clk /\ x.ctrl = c
           /\ KindOf(clk) \in off =>
                \E x \in S : x.op = "stop" /\ x.clk = clk /\ x.ctrl = c
  BY <1>1, Zenon DEF Serves
<1>3. Master \in Ctrls /\ Slave \in Ctrls
  BY ControllersDiffer
<1>4. Together(S, clk)
  BY <1>2, <1>3, Zenon DEF Together
<1> QED
  BY <1>4 DEF S

LEMMA ForceTogether ==
  ASSUME Slave # None, NEW clk \in Clocks
  PROVE  Together(ForceSteps, clk)
<1>1. Master \in Ctrls /\ Slave \in Ctrls
  BY ControllersDiffer
<1>2. CASE clk \in LinkClocks
  BY <1>1, <1>2, ForceContents DEF Together
<1>3. CASE clk \notin LinkClocks
  <2>1. \A x \in ForceSteps : Switches(x) => x.clk # clk
    BY <1>3, ForceContents
  <2> QED
    BY <2>1, Zenon DEF Together, Switches
<1> QED
  BY <1>2, <1>3

(* A step of the walk that leaves the clocks alone.                        *)
LEMMA BehindWalked ==
  ASSUME Call, Slave # None, todo # <<>>, todo' = Tail(todo),
         NEW clk \in Clocks, Behind(clk),
         ~ (Switches(Head(todo)) /\ Head(todo).clk = clk),
         UNCHANGED <<running[clk][Master], running[clk][Slave]>>
  PROVE  Behind(clk)'
<1>1. Master \in Ctrls /\ Slave \in Ctrls
  BY ControllersDiffer
<1>2. \A op \in {"start", "stop"}, c \in Ctrls :
        Pending(op, clk, c)' <=> Pending(op, clk, c)
  BY PendingWalked, Zenon DEF Switches
<1> QED
  BY <1>1, <1>2, Zenon DEF Behind, Ahead

LEMMA NumbersTyped ==
  ASSUME TypeOK, NEW clk \in Clocks
  PROVE  \A c \in Ctrls : running[clk][c] \in Nat
BY DEF TypeOK

(* What the order of a plan leaves of a clock after a step on it.          *)
LEMMA ClockOrder ==
  ASSUME Call, todo # <<>>, todo' = Tail(todo), Slave # None,
         NEW clk \in Clocks, Head(todo).clk = clk
  PROVE  /\ Head(todo).op = "start" /\ Head(todo).ctrl = Slave =>
              /\ ~ Pending("start", clk, Slave)'
              /\ ~ Pending("stop", clk, Master)'
         /\ Head(todo).op = "start" /\ Head(todo).ctrl = Master =>
              ~ Pending("stop", clk, Master)'
         /\ Head(todo).op = "stop" /\ Head(todo).ctrl = Master =>
              /\ ~ Pending("stop", clk, Slave)
              /\ ~ Pending("stop", clk, Master)'
<1> DEFINE x == Head(todo)
<1>1. Todo' = Todo \ {x} /\ \A y \in Todo' : Before(x, y)
  BY Walked
<1>2. Master \in Ctrls /\ Slave \in Ctrls /\ Slave # Master
  BY ControllersDiffer
<1> HIDE DEF x
<1>3. ASSUME NEW y \in Todo', y.clk = clk, Switches(x), Switches(y), x.clk = clk
      PROVE  Rank(x) < Rank(y)
    BY <1>1, <1>3, Zenon DEF Before
<1>4. ASSUME NEW y
      PROVE  /\ y.op = "stop" /\ y.ctrl = Slave => Rank(y) = 1
             /\ y.op = "stop" /\ y.ctrl = Master => Rank(y) = 2
             /\ y.op = "start" /\ y.ctrl = Master => Rank(y) = 3
             /\ y.op = "start" /\ y.ctrl = Slave => Rank(y) = 4
  <2>1. "start" # "stop"
    OBVIOUS
  <2> QED
    BY <2>1, <1>2, Zenon DEF Rank
<1>5. /\ ~ (4 < 2) /\ ~ (4 < 3) /\ ~ (4 < 4) /\ ~ (3 < 2) /\ ~ (2 < 1)
      /\ ~ (2 < 2)
  OBVIOUS
<1>6. \A op, c : Pending(op, clk, c)' =>
        \E y \in Todo' : y.op = op /\ y.clk = clk /\ y.ctrl = c
  BY Zenon DEF Pending
<1>7. x.clk = clk
  BY DEF x
<1>12. ASSUME NEW op \in {"start", "stop"}, NEW c, NEW q, NEW r,
              Switches(x), Rank(x) = q, ~ (q < r),
              \A y : y.op = op /\ y.ctrl = c => Rank(y) = r
       PROVE  ~ Pending(op, clk, c)'
  <2> SUFFICES ASSUME NEW y \in Todo', y.op = op, y.clk = clk, y.ctrl = c
               PROVE  FALSE
    BY DEF Pending
  <2>1. Switches(y)
    BY Zenon DEF Switches
  <2>2. Rank(x) < Rank(y)
    BY <2>1, <1>3, <1>7, <1>12, Zenon
  <2>3. Rank(y) = r
    BY <1>12, Zenon
  <2> QED
    BY <2>2, <2>3, <1>12, Zenon
<1>8. ASSUME x.op = "start", x.ctrl = Slave
      PROVE  /\ ~ Pending("start", clk, Slave)'
             /\ ~ Pending("stop", clk, Master)'
  <2>1. Rank(x) = 4 /\ Switches(x)
    BY <1>4, <1>8, Zenon DEF Switches
  <2>2. ~ Pending("start", clk, Slave)'
    BY <2>1, <1>4, <1>5, <1>12, Zenon
  <2>3. ~ Pending("stop", clk, Master)'
    BY <2>1, <1>4, <1>5, <1>12, Zenon
  <2> QED
    BY <2>2, <2>3
<1>9. ASSUME x.op = "start", x.ctrl = Master
      PROVE  ~ Pending("stop", clk, Master)'
  <2>1. Rank(x) = 3 /\ Switches(x)
    BY <1>4, <1>9, Zenon DEF Switches
  <2> QED
    BY <2>1, <1>4, <1>5, <1>12, Zenon
<1>10. ASSUME x.op = "stop", x.ctrl = Master
       PROVE  /\ ~ Pending("stop", clk, Slave)'
              /\ ~ Pending("stop", clk, Master)'
  <2>1. Rank(x) = 2 /\ Switches(x)
    BY <1>4, <1>10, Zenon DEF Switches
  <2>2. ~ Pending("stop", clk, Slave)'
    BY <2>1, <1>4, <1>5, <1>12, Zenon
  <2>3. ~ Pending("stop", clk, Master)'
    BY <2>1, <1>4, <1>5, <1>12, Zenon
  <2> QED
    BY <2>2, <2>3
<1>11. x.op = "stop" /\ x.ctrl = Master
         => (Pending("stop", clk, Slave)' <=> Pending("stop", clk, Slave))
  BY <1>2, PendingWalked DEF x
<1> QED
  BY <1>8, <1>9, <1>10, <1>11, Zenon DEF x

LEMMA SlaveStartsLast ==
  ASSUME Call, todo # <<>>, Slave # None,
         Head(todo).op = "start", Head(todo).ctrl = Slave
  PROVE  ~ Pending("start", Head(todo).clk, Master)
<1> DEFINE x == Head(todo)
<1>1. /\ Steps(Tail(todo)) = Todo \ {x}
      /\ \A y \in Steps(Tail(todo)) : Before(x, y)
  BY SortedTail DEF Call, Todo
<1>2. Slave # Master
  BY ControllersDiffer
<1>3. x.op = "start" /\ x.ctrl = Slave
  OBVIOUS
<1> HIDE DEF x
<1>4. ASSUME NEW y \in Todo, y.op = "start", y.clk = x.clk, y.ctrl = Master
      PROVE  FALSE
  <2>1. y # x
    BY <1>2, <1>3, <1>4
  <2>2. Before(x, y)
    BY <1>1, <2>1
  <2>3. Rank(x) < Rank(y)
    BY <1>3, <1>4, <2>2, Zenon DEF Before, Switches
  <2>4. "start" # "stop" /\ ~ (4 < 3)
    OBVIOUS
  <2>5. Rank(x) = 4 /\ Rank(y) = 3
    BY <1>2, <1>3, <1>4, <2>4, Zenon DEF Rank
  <2> QED
    BY <2>3, <2>4, <2>5, Zenon
<1> QED
  BY <1>4, Zenon DEF Pending, x

LEMMA BehindStart ==
  ASSUME TypeOK, Call, Slave # None, NEW clk \in Clocks, Behind(clk), ClockStarts
  PROVE  Behind(clk)'
<1> DEFINE x == Head(todo)
<1>1. todo # <<>> /\ todo' = Tail(todo) /\ x.op = "start"
  BY DEF ClockStarts, Now, Done
<1>2. x.clk \in Clocks /\ x.ctrl \in Ctrls /\ x \in Todo
  BY <1>1, HeadSound, StepKinds
<1>3. running' = [running EXCEPT ![x.clk][x.ctrl] = @ + 1]
  BY DEF ClockStarts
<1>4. Master \in Ctrls /\ Slave \in Ctrls /\ Slave # Master
  BY ControllersDiffer
<1>5. running[x.clk][x.ctrl] \in Nat
  BY <1>2, NumbersTyped
<1>6. \A k \in Clocks, d \in Ctrls :
        running'[k][d] = IF k = x.clk /\ d = x.ctrl
                           THEN running[x.clk][x.ctrl] + 1 ELSE running[k][d]
  <2>1. running[x.clk][x.ctrl] + 1 \in Nat
    BY <1>5
  <2>2. running' = [running EXCEPT ![x.clk][x.ctrl] = running[x.clk][x.ctrl] + 1]
    BY <1>3
  <2> QED
    BY <2>1, <2>2, <1>2, RunningKept
<1>7. CASE x.clk # clk
  <2>1. UNCHANGED <<running[clk][Master], running[clk][Slave]>>
    BY <1>4, <1>6, <1>7
  <2> QED
    BY <2>1, <1>1, <1>7, BehindWalked
<1>8. CASE x.clk = clk /\ x.ctrl = Master
  <2>1. /\ running'[clk][Slave] = running[clk][Slave]
        /\ running'[clk][Master] = running[clk][Master] + 1
    BY <1>4, <1>6, <1>8
  <2>2. running[clk][Slave] \in Nat /\ running[clk][Master] \in Nat
    BY <1>4, NumbersTyped
  <2>3. running[clk][Slave] <= running[clk][Master]
    BY Zenon DEF Behind
  <2>4. running'[clk][Slave] < running'[clk][Master]
    BY <2>1, <2>2, <2>3
  <2>5. running'[clk][Slave] <= running'[clk][Master]
    BY <2>1, <2>2, <2>3
  <2>6. ~ Pending("stop", clk, Master)'
    BY <1>1, <1>8, ClockOrder
  <2>7. Ahead(clk)'
    BY <2>4, Zenon DEF Ahead
  <2> QED
    BY <2>5, <2>6, <2>7, Zenon DEF Behind
<1>9. CASE x.clk = clk /\ x.ctrl = Slave
  <2>1. /\ running'[clk][Slave] = running[clk][Slave] + 1
        /\ running'[clk][Master] = running[clk][Master]
    BY <1>4, <1>6, <1>9
  <2>2. running[clk][Slave] \in Nat /\ running[clk][Master] \in Nat
    BY <1>4, NumbersTyped
  <2>3. /\ ~ Pending("start", clk, Slave)'
        /\ ~ Pending("stop", clk, Master)'
        /\ ~ Pending("start", clk, Master)
    BY <1>1, <1>9, ClockOrder, SlaveStartsLast
  <2>4. Pending("start", clk, Slave)
    BY <1>1, <1>2, <1>9 DEF Pending
  <2>5. running[clk][Slave] < running[clk][Master]
    BY <2>3, <2>4, Zenon DEF Behind, Ahead
  <2>6. running'[clk][Slave] <= running'[clk][Master]
    BY <2>1, <2>2, <2>5
  <2> QED
    BY <2>3, <2>6, Zenon DEF Behind
<1> QED
  BY <1>2, <1>7, <1>8, <1>9, ControllersDiffer

LEMMA BehindStop ==
  ASSUME TypeOK, Call, Slave # None, NEW clk \in Clocks, Behind(clk), ClockStops
  PROVE  Behind(clk)'
<1> DEFINE x == Head(todo)
           n == running[x.clk][x.ctrl]
<1>1. todo # <<>> /\ todo' = Tail(todo) /\ x.op = "stop"
  BY DEF ClockStops, Now, Done
<1>2. x.clk \in Clocks /\ x.ctrl \in Ctrls /\ x \in Todo
  BY <1>1, HeadSound, StepKinds
<1>3. running' = [running EXCEPT ![x.clk][x.ctrl] = Down(n)]
  BY DEF ClockStops
<1>4. Master \in Ctrls /\ Slave \in Ctrls /\ Slave # Master
  BY ControllersDiffer
<1>5. n \in Nat
  BY <1>2, NumbersTyped
<1>6. \A k \in Clocks, d \in Ctrls :
        running'[k][d] = IF k = x.clk /\ d = x.ctrl
                           THEN Down(n) ELSE running[k][d]
  <2>1. Down(n) \in Nat
    BY <1>5, DownTypes
  <2> HIDE DEF n
  <2> QED
    BY <2>1, <1>3, <1>2, RunningKept
<1>7. CASE x.clk # clk
  <2>1. UNCHANGED <<running[clk][Master], running[clk][Slave]>>
    BY <1>4, <1>6, <1>7
  <2> QED
    BY <2>1, <1>1, <1>7, BehindWalked
<1>8. CASE x.clk = clk /\ x.ctrl = Master
  <2>1. /\ running'[clk][Slave] = running[clk][Slave]
        /\ running'[clk][Master] = Down(running[clk][Master])
    BY <1>4, <1>6, <1>8
  <2>2. running[clk][Slave] \in Nat /\ running[clk][Master] \in Nat
    BY <1>4, NumbersTyped
  <2>3. /\ ~ Pending("stop", clk, Slave)
        /\ ~ Pending("stop", clk, Master)'
    BY <1>1, <1>8, ClockOrder
  <2>4. Pending("stop", clk, Master)
    BY <1>1, <1>2, <1>8 DEF Pending
  <2>5. \/ running[clk][Slave] < running[clk][Master]
        \/ running[clk][Slave] = 0
    BY <2>3, <2>4, Zenon DEF Behind, Ahead
  <2>6. running'[clk][Slave] <= running'[clk][Master]
    BY <2>1, <2>2, <2>5 DEF Down
  <2>7. Pending("start", clk, Slave) => Pending("start", clk, Master)
    BY <2>4, Zenon DEF Behind
  <2>8. /\ Pending("start", clk, Slave)' <=> Pending("start", clk, Slave)
        /\ Pending("start", clk, Master)' <=> Pending("start", clk, Master)
    BY <1>1, <1>4, PendingWalked
  <2> QED
    BY <2>3, <2>6, <2>7, <2>8, Zenon DEF Behind
<1>9. CASE x.clk = clk /\ x.ctrl = Slave
  <2>1. /\ running'[clk][Slave] = Down(running[clk][Slave])
        /\ running'[clk][Master] = running[clk][Master]
    BY <1>4, <1>6, <1>9
  <2>2. running[clk][Slave] \in Nat /\ running[clk][Master] \in Nat
    BY <1>4, NumbersTyped
  <2>3. running[clk][Slave] <= running[clk][Master]
    BY Zenon DEF Behind
  <2>4. /\ running'[clk][Slave] <= running'[clk][Master]
        /\ \/ running'[clk][Slave] = 0
           \/ running'[clk][Slave] < running'[clk][Master]
        /\ running[clk][Slave] < running[clk][Master]
             => running'[clk][Slave] < running'[clk][Master]
    BY <2>1, <2>2, <2>3 DEF Down
  <2>5. /\ Pending("start", clk, Slave)' <=> Pending("start", clk, Slave)
        /\ Pending("start", clk, Master)' <=> Pending("start", clk, Master)
        /\ Pending("stop", clk, Master)' <=> Pending("stop", clk, Master)
    BY <1>1, <1>4, <1>9, PendingWalked
  <2> QED
    BY <2>4, <2>5, Zenon DEF Behind, Ahead
<1> QED
  BY <1>2, <1>7, <1>8, <1>9, ControllersDiffer

LEMMA BehindStartFails ==
  ASSUME TypeOK, Call, Slave # None, NEW clk \in Clocks, Behind(clk),
         ClockStartFails
  PROVE  Behind(clk)'
<1> DEFINE x == Head(todo)
<1>1. todo # <<>> /\ todo' = <<>> /\ x.op = "start"
  BY DEF ClockStartFails, Now, Aborted
<1>2. /\ x.clk \in Clocks /\ x.ctrl \in Ctrls /\ x \in Todo
      /\ x.undo => x.ctrl = Slave
  BY <1>1, HeadSound, StepKinds
<1>3. Master \in Ctrls /\ Slave \in Ctrls /\ Slave # Master
  BY ControllersDiffer
<1>4. ~ Pending("start", clk, Slave)' /\ ~ Pending("stop", clk, Master)'
  <2>1. Todo' = {}
    BY <1>1, NothingPending, SortedEmpty DEF Todo
  <2> QED
    BY <2>1, Zenon DEF Pending
<1>5. running[clk][Slave] \in Nat /\ running[clk][Master] \in Nat
  BY <1>3, NumbersTyped
<1>6. running[clk][Slave] <= running[clk][Master]
  BY Zenon DEF Behind
<1>7. CASE x.undo /\ x.clk = clk
  <2>1. running' = [running EXCEPT ![clk][Master] = Down(running[clk][Master])]
    BY <1>7 DEF ClockStartFails
  <2>2. Down(running[clk][Master]) \in Nat
    BY <1>5, DownTypes
  <2>3. /\ running'[clk][Slave] = running[clk][Slave]
        /\ running'[clk][Master] = Down(running[clk][Master])
    BY <2>1, <2>2, <1>3, RunningKept
  <2>4. ~ Pending("start", clk, Master)
    BY <1>1, <1>2, <1>7, SlaveStartsLast
  <2>5. Pending("start", clk, Slave)
    BY <1>1, <1>2, <1>7 DEF Pending
  <2>6. running[clk][Slave] < running[clk][Master]
    BY <2>4, <2>5, Zenon DEF Behind, Ahead
  <2>7. running'[clk][Slave] <= running'[clk][Master]
    BY <2>3, <2>6, <1>5 DEF Down
  <2> QED
    BY <2>7, <1>4, Zenon DEF Behind
<1>8. CASE ~ (x.undo /\ x.clk = clk)
  <2>1. UNCHANGED <<running[clk][Slave], running[clk][Master]>>
    <3>1. CASE x.undo
      <4>1. x.clk # clk
        BY <1>8, <3>1
      <4>2. /\ running' = [running EXCEPT ![x.clk][Master]
                              = Down(running[x.clk][Master])]
            /\ Down(running[x.clk][Master]) \in Nat
        BY <3>1, <1>2, <1>3, NumbersTyped, DownTypes DEF ClockStartFails
      <4> QED
        BY <4>1, <4>2, <1>2, <1>3, RunningKept
    <3>2. CASE ~ x.undo
      BY <3>2 DEF ClockStartFails
    <3> QED
      BY <3>1, <3>2
  <2>2. running'[clk][Slave] <= running'[clk][Master]
    BY <2>1, <1>6
  <2> QED
    BY <2>2, <1>4, Zenon DEF Behind
<1> QED
  BY <1>7, <1>8

(* Whatever fails, and however often.                                      *)
LEMMA SlaveKept ==
  ASSUME TypeOK, Call, SlaveBehind, [Next]_vars
  PROVE  SlaveBehind'
<1> SUFFICES ASSUME Slave # None, NEW clk \in Clocks PROVE Behind(clk)'
  BY Zenon DEF SlaveBehind, Behind
<1>1. Behind(clk)
  BY BehindIs, Zenon
<1>2. ASSUME NEW u \in Users, Enter(u)
      PROVE  Behind(clk)'
  <2>1. PICK m \in Moves(u) :
          todo' = Only(NewVote(u, m) # vote, Plan(Wanted(NewVote(u, m))))
    BY <1>2 DEF Enter
  <2>2. todo' = <<>> \/ todo' = Plan(Wanted(NewVote(u, m)))
    BY <2>1 DEF Only
  <2>3. Together(Todo', clk)
    <3>1. CASE todo' = <<>>
      <4>1. Todo' = {}
        BY <3>1, SortedEmpty DEF Todo
      <4> QED
        BY <4>1 DEF Together
    <3>2. CASE todo' = Plan(Wanted(NewVote(u, m)))
      <4>1. Todo' = Steps(Plan(Wanted(NewVote(u, m))))
        BY <3>2, Zenon DEF Todo, Steps
      <4> QED
        BY <4>1, PlanTogether
    <3> QED
      BY <2>2, <3>1, <3>2
  <2>4. UNCHANGED running
    BY <1>2 DEF Enter, hardware
  <2> QED
    BY <1>1, <2>3, <2>4, BehindAtEntry
<1>3. CASE ForceUpdate
  <2>1. Todo' = ForceSteps
    BY <1>3, ForceSorted, Zenon DEF ForceUpdate, StartForce, Todo, Steps
  <2>2. UNCHANGED running
    BY <1>3 DEF ForceUpdate, StartForce, hardware
  <2> QED
    BY <1>1, <2>1, <2>2, ForceTogether, BehindAtEntry
<1>4. CASE ClockStarts
  BY <1>1, <1>4, BehindStart
<1>5. CASE ClockStops
  BY <1>1, <1>5, BehindStop
<1>6. CASE ClockStartFails
  BY <1>1, <1>6, BehindStartFails
<1>7. CASE PowerOn \/ PostOn \/ PowerOff \/ PowerOffFails \/ SetState
  <2>1. /\ todo # <<>> /\ todo' = Tail(todo) /\ UNCHANGED running
        /\ Head(todo).op \notin {"start", "stop"}
    BY <1>7 DEF PowerOn, PostOn, PowerOff, PowerOffFails, SetState, Now, Done,
                hardware
  <2> QED
    BY <1>1, <2>1, BehindWalked DEF Switches
<1>8. CASE PowerOnRefused \/ PowerOnFails \/ PostOnFails
  <2>1. todo' = <<>> /\ UNCHANGED running
    BY <1>8 DEF PowerOnRefused, PowerOnFails, PostOnFails, Aborted, hardware
  <2>2. Todo' = {}
    BY <2>1, SortedEmpty DEF Todo
  <2>3. Together(Todo', clk)
    BY <2>2 DEF Together
  <2> QED
    BY <1>1, <2>1, <2>3, BehindAtEntry
<1>9. CASE UNCHANGED <<running, todo>>
  <2>1. Todo' = Todo
    BY <1>9, Zenon DEF Todo, Steps
  <2> QED
    BY <1>1, <1>9, <2>1, Zenon DEF Behind, Ahead, Pending
<1>10. ASSUME NEW u \in Users, Return(u)
       PROVE  UNCHANGED <<running, todo>>
  BY <1>10 DEF Return, hardware
<1>11. CASE UNCHANGED vars
  BY <1>11, <1>9 DEF vars, hardware, call
<1> QED
  BY <1>2, <1>3, <1>4, <1>5, <1>6, <1>7, <1>8, <1>9, <1>10, <1>11
  DEF Next, Walk

-----------------------------------------------------------------------------
(* The votes, until a step fails.                                          *)

LEMMA KindsTable ==
  /\ \A p : p \in {"using", "stopping", "dying"} => KindsAt(p) = Kinds
  /\ \A p : p \in {"ready", "undoing", "leaving", "switching", "reverting"}
              => KindsAt(p) = {"core"}
  /\ \A p : p \notin {"using", "stopping", "dying", "ready", "undoing",
                      "leaving", "switching", "reverting"}
              => KindsAt(p) = {}
  /\ \A p : KindsAt(p) = {} \/ KindsAt(p) = {"core"} \/ KindsAt(p) = Kinds
<1>1. \A p : /\ p \in {"using", "stopping", "dying"} => KindsAt(p) = Kinds
             /\ p \in {"ready", "undoing", "leaving", "switching", "reverting"}
                  => KindsAt(p) = {"core"}
             /\ p \notin {"using", "stopping", "dying", "ready", "undoing",
                          "leaving", "switching", "reverting"}
                  => KindsAt(p) = {}
  BY DEF KindsAt
<1> QED
  BY <1>1

LEMMA KindsValues ==
  /\ KindsAt("using") = Kinds /\ KindsAt("stopping") = Kinds
  /\ KindsAt("dying") = Kinds
  /\ KindsAt("ready") = {"core"} /\ KindsAt("undoing") = {"core"}
  /\ KindsAt("leaving") = {"core"} /\ KindsAt("switching") = {"core"}
  /\ KindsAt("reverting") = {"core"}
  /\ KindsAt("out") = {} /\ KindsAt("failed") = {} /\ KindsAt("parked") = {}
  /\ KindsAt("unswitched") = {} /\ KindsAt("dead") = {} /\ KindsAt("ending") = {}
BY KindsTable

(* A request adds what its user did not hold, or gives up what it did; a   *)
(* hollow one gives up nothing.                                            *)
LEMMA MoveVotes ==
  ASSUME NEW u \in Users, NEW m \in Moves(u), NEW k \in Kinds
  PROVE  /\ k \in KindsAt(m.good) <=> IF k \in m.kinds THEN m.on
                                                       ELSE k \in KindsAt(m.from)
         /\ k \in m.kinds /\ ~ Hollow(m) => (k \in KindsAt(m.from) <=> ~ m.on)
         /\ Hollow(m) => KindsAt(m.from) = {}
<1>1. MoveForm(m)
  BY MoveForms
<1>2. k = "core" \/ k = "link"
  BY DEF Kinds
<1>3. ASSUME NEW from, NEW kinds, NEW good, NEW bad,
             Request(m, from, kinds, good, bad)
      PROVE  /\ m.from = from /\ m.kinds = kinds /\ m.good = good
  BY <1>3 DEF Request
<1>4. Hollow(m) => KindsAt(m.from) = {}
  BY KindsValues DEF Hollow
<1> QED
  BY <1>1, <1>2, <1>3, <1>4, KindsValues DEF MoveForm, Kinds, Hollow

LEMMA HoldsTypes ==
  \A u, k : /\ Holds(u, k) \in {0, 1}
            /\ Holds(u, k) = 1 <=> k \in Holding(u)
BY DEF Holds

(* What the manager is asked for is what some user holds; the link is      *)
(* never wanted without the core.                                          *)
LEMMA WantedIs ==
  ASSUME TypeOK, CountsExact, VotesExact
  PROVE  /\ \A k \in Kinds : k \in W <=> \E u \in Users : k \in Holding(u)
         /\ W \subseteq Kinds
         /\ "link" \in W => "core" \in W
<1>1. W = vote[Dsi] \union vote[Mdp]
  BY DEF W, Wanted, Clients
<1>2. W \subseteq Kinds
  BY <1>1 DEF TypeOK, Clients
<1>3. ASSUME NEW k \in Kinds
      PROVE  k \in W <=> \E u \in Users : k \in Holding(u)
  <2>1. /\ k \in vote[Dsi] <=> refcount[Dsi][k] > 0
        /\ k \in vote[Mdp] <=> refcount[Mdp][k] > 0
    BY DEF VotesExact, Clients
  <2>2. /\ refcount[Mdp][k] = Holds(Encoder, k)
        /\ refcount[Dsi][k] =
             Holds(Panel, k) + Holds(Checker, k) + Holds(Recovery, k)
    BY DEF CountsExact
  <2> DEFINE e == Holds(Encoder, k)
             p == Holds(Panel, k)
             c == Holds(Checker, k)
             r == Holds(Recovery, k)
  <2>3. /\ e \in {0, 1} /\ p \in {0, 1} /\ c \in {0, 1} /\ r \in {0, 1}
        /\ e = 1 <=> k \in Holding(Encoder)
        /\ p = 1 <=> k \in Holding(Panel)
        /\ c = 1 <=> k \in Holding(Checker)
        /\ r = 1 <=> k \in Holding(Recovery)
    BY HoldsTypes, Zenon
  <2> HIDE DEF e, p, c, r
  <2>4. /\ refcount[Mdp][k] > 0 <=> e = 1
        /\ refcount[Dsi][k] > 0 <=> p = 1 \/ c = 1 \/ r = 1
    <3>1. refcount[Mdp][k] = e /\ refcount[Dsi][k] = p + c + r
      BY <2>2, Zenon DEF e, p, c, r
    <3> QED
      BY <3>1, <2>3
  <2> QED
    BY <1>1, <2>1, <2>3, <2>4, UsersApart, Zenon DEF Users
<1>4. \A u : "link" \in Holding(u) => "core" \in Holding(u)
  <2>1. \A p : "link" \in KindsAt(p) => "core" \in KindsAt(p)
    BY KindsTable DEF Kinds
  <2> QED
    BY <2>1, Zenon DEF Holding
<1>5. "link" \in Kinds /\ "core" \in Kinds
  BY DEF Kinds
<1> QED
  BY <1>2, <1>3, <1>4, <1>5, Zenon

(* A request moves the counts by exactly its user's votes.                 *)
LEMMA EnterHolds ==
  ASSUME NEW u \in Users, NEW m \in Moves(u), m.from = at[u], caller = None,
         caller' = u, move' = m, UNCHANGED at
  PROVE  \A k \in Kinds :
           /\ Holds(u, k)' = IF k \in m.kinds THEN IF m.on THEN 1 ELSE 0
                                              ELSE Holds(u, k)
           /\ k \in m.kinds /\ ~ Hollow(m) => Holds(u, k) = IF m.on THEN 0 ELSE 1
           /\ Hollow(m) => Holds(u, k) = 0
           /\ \A v \in Users \ {u} : Holds(v, k)' = Holds(v, k)
<1>1. \A v \in Users : v # None
  BY UsersApart
<1>2. \A v \in Users : Holding(v) = KindsAt(at[v])
  BY <1>1, Zenon DEF Holding
<1>3. Holding(u)' = KindsAt(m.good)
  BY Zenon DEF Holding
<1>4. \A v \in Users \ {u} : Holding(v)' = KindsAt(at[v])
  BY Zenon DEF Holding
<1> TAKE k \in Kinds
<1>5. /\ k \in KindsAt(m.good) <=> IF k \in m.kinds THEN m.on
                                                    ELSE k \in KindsAt(m.from)
      /\ k \in m.kinds /\ ~ Hollow(m) => (k \in KindsAt(m.from) <=> ~ m.on)
      /\ Hollow(m) => k \notin KindsAt(m.from)
  BY MoveVotes
<1>6. Holds(u, k)' = IF k \in m.kinds THEN IF m.on THEN 1 ELSE 0
                                      ELSE Holds(u, k)
  BY <1>2, <1>3, <1>5, Zenon DEF Holds
<1>7. /\ k \in m.kinds /\ ~ Hollow(m) => Holds(u, k) = IF m.on THEN 0 ELSE 1
      /\ Hollow(m) => Holds(u, k) = 0
  BY <1>2, <1>5, Zenon DEF Holds
<1>8. \A v \in Users \ {u} : Holds(v, k)' = Holds(v, k)
  BY <1>2, <1>4, Zenon DEF Holds
<1> QED
  BY <1>6, <1>7, <1>8

LEMMA EnterCounts ==
  ASSUME TypeOK, NEW u \in Users, NEW m \in Moves(u), refcount' = NewRefcount(u, m)
  PROVE  \A c \in Clients, k \in Kinds :
           refcount'[c][k] = IF c = Client(u) /\ k \in m.kinds
                               THEN IF m.on THEN refcount[c][k] + 1
                                    ELSE IF refcount[c][k] = 0 THEN 0
                                    ELSE refcount[c][k] - 1
                               ELSE refcount[c][k]
<1>1. Client(u) \in Clients /\ refcount \in [Clients -> [Kinds -> Nat]]
  BY ClientTypes DEF TypeOK
<1>2. \A c \in Clients, k \in Kinds :
        refcount'[c][k] = IF c = Client(u) /\ k \in m.kinds
                            THEN Counted(m, refcount[c][k]) ELSE refcount[c][k]
  BY <1>1 DEF NewRefcount
<1> QED
  BY <1>2, Zenon DEF Counted

LEMMA EnterVoted ==
  ASSUME TypeOK, NEW u \in Users, NEW m \in Moves(u), vote' = NewVote(u, m)
  PROVE  \A c \in Clients, k \in Kinds :
           k \in vote'[c] <=>
             IF c = Client(u) /\ k \in m.kinds
               THEN m.on \/ (k \in vote[c] /\ refcount[c][k] # 1)
               ELSE k \in vote[c]
<1>1. Client(u) \in Clients /\ vote \in [Clients -> SUBSET Kinds]
  BY ClientTypes DEF TypeOK
<1>2. m.on \in BOOLEAN
  BY MoveTypes
<1>3. vote'[Client(u)] = IF m.on THEN vote[Client(u)] \union m.kinds
                         ELSE vote[Client(u)] \
                                {k \in m.kinds : refcount[Client(u)][k] = 1}
  BY <1>1 DEF NewVote
<1>4. \A c \in Clients \ {Client(u)} : vote'[c] = vote[c]
  BY <1>1 DEF NewVote
<1> QED
  BY <1>2, <1>3, <1>4

(* Who gives up nothing is the panel, with nobody borrowing its vote.      *)
LEMMA HollowAlone ==
  ASSUME Borrowed, NEW u \in Users, NEW m \in Moves(u), m.from = at[u],
         caller = None, Hollow(m), at[Panel] # "unswitched"
  PROVE  u = Panel /\ Holding(Checker) = {} /\ Holding(Recovery) = {}
<1>1. u = Panel
  <2>1. m \in EncoderMoves \union BorrowerMoves => m.from \in {"out", "using"}
    BY DEF EncoderMoves, BorrowerMoves, Ask
  <2>2. m \in EncoderMoves \union BorrowerMoves \/ u = Panel
    BY Zenon DEF Moves
  <2> QED
    BY <2>1, <2>2 DEF Hollow
<1>2. at[Panel] \in {"failed", "ending"}
  BY <1>1 DEF Hollow
<1>3. at[Checker] = "out" /\ at[Recovery] = "out"
  BY <1>2 DEF Borrowed, Unini, Borrowers
<1>4. caller # Checker /\ caller # Recovery
  BY UsersApart DEF Users
<1> QED
  BY <1>1, <1>3, <1>4, KindsValues, Zenon DEF Holding

LEMMA EnterExact ==
  ASSUME TypeOK, CountsExact, VotesExact, NEW u \in Users, NEW m \in Moves(u),
         m.from = at[u], caller = None, caller' = u, move' = m, UNCHANGED at,
         refcount' = NewRefcount(u, m), vote' = NewVote(u, m), Borrowed,
         at[Panel] # "unswitched"
  PROVE  CountsExact' /\ VotesExact'
<1>1. Mdp \in Clients /\ Dsi \in Clients /\ m.on \in BOOLEAN
  BY MoveTypes DEF Clients
<1>2. CountsExact'
  <2> SUFFICES ASSUME NEW k \in Kinds
               PROVE  /\ refcount'[Mdp][k] = Holds(Encoder, k)'
                      /\ refcount'[Dsi][k] = Holds(Panel, k)' + Holds(Checker, k)'
                                               + Holds(Recovery, k)'
    BY Zenon DEF CountsExact
  <2> DEFINE e == Holds(Encoder, k)
             p == Holds(Panel, k)
             c == Holds(Checker, k)
             r == Holds(Recovery, k)
             mine == Holds(u, k)
  <2>1. /\ e \in {0, 1} /\ p \in {0, 1} /\ c \in {0, 1} /\ r \in {0, 1}
    BY HoldsTypes, Zenon
  <2>2. refcount[Mdp][k] = e /\ refcount[Dsi][k] = p + c + r
    BY Zenon DEF CountsExact
  <2>3. \A v \in Users \ {u} : Holds(v, k)' = Holds(v, k)
    BY EnterHolds, Zenon
  <2>4. /\ mine' = IF k \in m.kinds THEN IF m.on THEN 1 ELSE 0 ELSE mine
        /\ k \in m.kinds /\ ~ Hollow(m) => mine = IF m.on THEN 0 ELSE 1
        /\ Hollow(m) => mine = 0 /\ ~ m.on
    BY EnterHolds, Zenon DEF Hollow
  <2>5. \A d \in Clients :
          refcount'[d][k] = IF d = Client(u) /\ k \in m.kinds
                              THEN IF m.on THEN refcount[d][k] + 1
                                   ELSE IF refcount[d][k] = 0 THEN 0
                                   ELSE refcount[d][k] - 1
                              ELSE refcount[d][k]
    BY EnterCounts, Zenon
  <2>6. {Encoder, Panel, Checker, Recovery} \subseteq Users
    BY DEF Users
  <2>0. Hollow(m) => u = Panel /\ c = 0 /\ r = 0
    <3> SUFFICES ASSUME Hollow(m) PROVE u = Panel /\ c = 0 /\ r = 0
      OBVIOUS
    <3>1. u = Panel /\ Holding(Checker) = {} /\ Holding(Recovery) = {}
      BY HollowAlone
    <3> QED
      BY <3>1, Zenon DEF Holds
  <2>7. CASE u = Encoder
    <3>0. ~ Hollow(m)
      BY <2>0, <2>7, UsersApart, Zenon
    <3>1. p' = p /\ c' = c /\ r' = r /\ mine = e /\ mine' = e'
      BY <2>3, <2>6, <2>7, UsersApart, Zenon
    <3>2. Client(u) = Mdp /\ Dsi # Mdp
      BY <2>7, UsersApart, Zenon
    <3>3. refcount'[Dsi][k] = refcount[Dsi][k]
      BY <1>1, <2>5, <3>2, Zenon
    <3>4. refcount'[Mdp][k] = IF k \in m.kinds
                                THEN IF m.on THEN refcount[Mdp][k] + 1
                                     ELSE IF refcount[Mdp][k] = 0 THEN 0
                                     ELSE refcount[Mdp][k] - 1
                                ELSE refcount[Mdp][k]
      BY <1>1, <2>5, <3>2, Zenon
    <3> HIDE DEF e, p, c, r, mine
    <3>5. refcount'[Mdp][k] = e' /\ refcount'[Dsi][k] = p' + c' + r'
      BY <2>1, <2>2, <2>4, <3>0, <3>1, <3>3, <3>4
    <3> QED
      BY <3>5 DEF e, p, c, r
  <2>8. CASE u # Encoder
    <3>1. e' = e
      BY <2>3, <2>6, <2>8, Zenon
    <3>2. Client(u) = Dsi /\ Dsi # Mdp
      BY <2>8, UsersApart, Zenon
    <3>3. refcount'[Mdp][k] = refcount[Mdp][k]
      BY <1>1, <2>5, <3>2, Zenon
    <3>4. refcount'[Dsi][k] = IF k \in m.kinds
                                THEN IF m.on THEN refcount[Dsi][k] + 1
                                     ELSE IF refcount[Dsi][k] = 0 THEN 0
                                     ELSE refcount[Dsi][k] - 1
                                ELSE refcount[Dsi][k]
      BY <1>1, <2>5, <3>2, Zenon
    <3>5. \/ mine = p /\ mine' = p' /\ c' = c /\ r' = r
          \/ mine = c /\ mine' = c' /\ p' = p /\ r' = r
          \/ mine = r /\ mine' = r' /\ p' = p /\ c' = c
      <4>1. CASE u = Panel
        BY <4>1, <2>3, <2>6, UsersApart, Zenon
      <4>2. CASE u = Checker
        BY <4>2, <2>3, <2>6, UsersApart, Zenon
      <4>3. CASE u = Recovery
        BY <4>3, <2>3, <2>6, UsersApart, Zenon
      <4> QED
        BY <4>1, <4>2, <4>3, <2>8, UsersApart, Zenon
    <3>0. Hollow(m) => mine = p /\ mine' = p' /\ c' = c /\ r' = r
      BY <2>0, <2>3, <2>6, UsersApart, Zenon
    <3> HIDE DEF e, p, c, r, mine
    <3>6. refcount'[Mdp][k] = e'
      BY <2>2, <3>1, <3>3
    <3>7. refcount'[Dsi][k] = p' + c' + r'
      <4>1. CASE Hollow(m)
        BY <2>0, <2>1, <2>2, <2>4, <3>0, <3>4, <4>1
      <4>2. CASE ~ Hollow(m)
        BY <2>1, <2>2, <2>4, <3>4, <3>5, <4>2
      <4> QED
        BY <4>1, <4>2
    <3> QED
      BY <3>6, <3>7 DEF e, p, c, r
  <2> QED
    BY <2>7, <2>8
<1>3. VotesExact'
  <2> SUFFICES ASSUME NEW c \in Clients, NEW k \in Kinds
               PROVE  k \in vote'[c] <=> refcount'[c][k] > 0
    BY Zenon DEF VotesExact
  <2>1. k \in vote[c] <=> refcount[c][k] > 0
    BY Zenon DEF VotesExact
  <2>2. refcount[c][k] \in Nat
    BY DEF TypeOK
  <2>3. refcount'[c][k] = IF c = Client(u) /\ k \in m.kinds
                            THEN IF m.on THEN refcount[c][k] + 1
                                 ELSE IF refcount[c][k] = 0 THEN 0
                                 ELSE refcount[c][k] - 1
                            ELSE refcount[c][k]
    BY EnterCounts, Zenon
  <2>4. k \in vote'[c] <=> IF c = Client(u) /\ k \in m.kinds
                             THEN m.on \/ (k \in vote[c] /\ refcount[c][k] # 1)
                             ELSE k \in vote[c]
    BY EnterVoted, Zenon
  <2>5. CASE c = Client(u) /\ k \in m.kinds /\ m.on
    <3>1. refcount'[c][k] = refcount[c][k] + 1
      BY <2>3, <2>5, Zenon
    <3>2. k \in vote'[c]
      BY <2>4, <2>5, Zenon
    <3> QED
      BY <2>2, <3>1, <3>2
  <2>6. CASE c = Client(u) /\ k \in m.kinds /\ ~ m.on
    <3>1. refcount'[c][k] = IF refcount[c][k] = 0 THEN 0 ELSE refcount[c][k] - 1
      BY <2>3, <2>6, Zenon
    <3>2. k \in vote'[c] <=> k \in vote[c] /\ refcount[c][k] # 1
      BY <2>4, <2>6, Zenon
    <3> QED
      BY <2>1, <2>2, <3>1, <3>2
  <2>7. CASE ~ (c = Client(u) /\ k \in m.kinds)
    <3>1. refcount'[c][k] = refcount[c][k] /\ (k \in vote'[c] <=> k \in vote[c])
      BY <2>3, <2>4, <2>7, Zenon
    <3> QED
      BY <2>1, <3>1
  <2> QED
    BY <2>5, <2>6, <2>7
<1> QED
  BY <1>2, <1>3

-----------------------------------------------------------------------------
(* A request enters, until a step fails.                                   *)

(* With nothing to do the recorded state is what is wanted.                *)
LEMMA AtRest ==
  ASSUME TypeOK, CountsExact, VotesExact, Tracks, Todo = {}
  PROVE  /\ state = W
         /\ power <=> "core" \in W
         /\ \A clk \in Clocks, c \in Ctrls :
              running[clk][c] = IF KindOf(clk) \in W THEN 1 ELSE 0
<1>1. /\ \A op, clk, c : ~ Pending(op, clk, c)
      /\ \A op, clk : ~ Planned(op, clk)
  BY NothingPending, Zenon
<1>2. \A k \in Kinds : k \in state <=> k \in W
  BY <1>1, Zenon DEF Tracks, StateTracks
<1>3. state \subseteq Kinds /\ W \subseteq Kinds
  BY WantedIs DEF TypeOK
<1>4. state = W
  BY <1>2, <1>3
<1>5. power <=> "core" \in W
  BY Zenon DEF Tracks, PowerTracks
<1>6. \A clk \in Clocks, c \in Ctrls :
        running[clk][c] = IF KindOf(clk) \in W THEN 1 ELSE 0
  BY <1>1, Zenon DEF Tracks, RunningTracks, Level
<1> QED
  BY <1>4, <1>5, <1>6

LEMMA KindOfKinds ==
  /\ \A clk \in Clocks : KindOf(clk) \in Kinds
  /\ KindOf("core") = "core" /\ KindOf("lp") = "link" /\ KindOf("hs") = "link"
  /\ \A clk \in LinkClocks : KindOf(clk) = "link"
  /\ \A clk \in Clocks : clk = "core" \/ clk \in LinkClocks
BY DEF KindOf, Kinds, Clocks, LinkClocks

(* What the plan of a request is for, in terms of the new votes.           *)
LEMMA EnterServes ==
  ASSUME TypeOK, CountsExact, VotesExact, Tracks, Todo = {},
         CountsExact', VotesExact', TypeOK',
         NEW u \in Users, NEW m \in Moves(u), vote' = NewVote(u, m),
         todo' = Only(NewVote(u, m) # vote, Plan(Wanted(NewVote(u, m))))
  PROVE  Serves(Todo', W' \ W, W \ W')
<1>1. state = W
  BY AtRest
<1>2. W' = Wanted(vote')
  BY Zenon DEF W, Wanted
<1>3. CASE vote' = vote
  <2>1. todo' = <<>>
    BY <1>3 DEF Only
  <2>2. Todo' = {}
    BY <2>1, SortedEmpty DEF Todo
  <2>3. W' = W
    BY <1>3, Zenon DEF W, Wanted
  <2> QED
    BY <2>2, <2>3 DEF Serves
<1>4. CASE vote' # vote
  <2>1. todo' = Plan(W')
    BY <1>2, <1>4, Zenon DEF Only
  <2>2. Todo' = Steps(Plan(W'))
    BY <2>1, Zenon DEF Todo, Steps
  <2>3. Serves(Steps(Plan(W')), W' \ state, state \ W')
    BY PlanServes
  <2> QED
    BY <1>1, <2>2, <2>3, Zenon
<1> QED
  BY <1>3, <1>4

(* The plan is the difference of the hardware to what is wanted.           *)
LEMMA ServesTracks ==
  ASSUME TypeOK, CountsExact, VotesExact, Tracks, Todo = {},
         CountsExact', VotesExact', TypeOK',
         Sorted(todo'), Serves(Todo', W' \ W, W \ W'), UNCHANGED hardware
  PROVE  Purpose' /\ Nested' /\ Tracks'
<1> DEFINE on == W' \ W
           off == W \ W'
<1>1. /\ state = W
      /\ power <=> "core" \in W
      /\ \A clk \in Clocks, c \in Ctrls :
           running[clk][c] = IF KindOf(clk) \in W THEN 1 ELSE 0
  BY AtRest
<1>2. /\ "link" \in W => "core" \in W
  BY WantedIs
<1>3. ("link" \in W => "core" \in W)'
  BY WantedIs, PTL
<1>4. \A x \in Todo' :
        /\ x.op = "start" => KindOf(x.clk) \in on
        /\ x.op = "stop" => KindOf(x.clk) \in off
        /\ x.op = "set" => x.clk \in on
        /\ x.op = "clear" => x.clk \in off
        /\ x.op = "power_on" => "core" \in on
        /\ x.op = "power_off" => "core" \in off
  BY Zenon DEF Serves
<1>5. \A clk \in Clocks, c \in Ctrls :
        /\ KindOf(clk) \in on => Pending("start", clk, c)'
        /\ KindOf(clk) \in off => Pending("stop", clk, c)'
  BY Zenon DEF Serves, Pending
<1>6. \A k \in Kinds : /\ k \in on => Planned("set", k)'
                       /\ k \in off => Planned("clear", k)'
  BY Zenon DEF Serves, Planned
<1>7. /\ "core" \in on => \E x \in Todo' : x.op = "power_on"
      /\ "core" \in off => \E x \in Todo' : x.op = "power_off"
  BY Zenon DEF Serves
<1>8. UNCHANGED <<state, running, power>>
  BY DEF hardware
<1>9. Purpose'
  <2>1. \A x \in Todo' :
          /\ x.op = "start" => KindOf(x.clk) \in W'
          /\ x.op = "stop" => KindOf(x.clk) \notin W'
          /\ x.op = "set" => x.clk \in W'
          /\ x.op = "clear" => x.clk \notin W'
          /\ x.op = "power_on" => "core" \in W'
          /\ x.op = "power_off" => "core" \notin W'
    BY <1>4
  <2> QED
    BY <2>1, Zenon DEF Purpose, KindOf
<1>10. \A clk \in Clocks, c \in Ctrls :
         /\ Pending("start", clk, c)' <=> KindOf(clk) \in on
         /\ Pending("stop", clk, c)' <=> KindOf(clk) \in off
  <2>1. \A clk, c : /\ Pending("start", clk, c)' => KindOf(clk) \in on
                    /\ Pending("stop", clk, c)' => KindOf(clk) \in off
    BY <1>4, Zenon DEF Pending
  <2> QED
    BY <2>1, <1>5, Zenon
<1>11. \A k \in Kinds : /\ Planned("set", k)' <=> k \in on
                        /\ Planned("clear", k)' <=> k \in off
  <2>1. \A k : /\ Planned("set", k)' => k \in on
               /\ Planned("clear", k)' => k \in off
    BY <1>4, Zenon DEF Planned
  <2> QED
    BY <2>1, <1>6, Zenon
<1>12. Tracks'
  <2>1. RunningTracks'
    <3> SUFFICES ASSUME NEW clk \in Clocks, NEW c \in Ctrls
                 PROVE  running'[clk][c] = Level(clk, c)'
      BY Zenon DEF RunningTracks
    <3>1. Level(clk, c)' = IF KindOf(clk) \in off THEN 1
                           ELSE IF KindOf(clk) \in on THEN 0
                           ELSE IF KindOf(clk) \in W' THEN 1 ELSE 0
      BY <1>10, Zenon DEF Level, KindOf
    <3>2. running'[clk][c] = IF KindOf(clk) \in W THEN 1 ELSE 0
      BY <1>1, <1>8
    <3> QED
      BY <3>1, <3>2
  <2>2. PowerTracks'
    <3>1. power' <=> "core" \in W
      BY <1>1, <1>8, Zenon
    <3>2. /\ (\E x \in Todo' : x.op = "power_off") <=> "core" \in off
          /\ (\E x \in Todo' : x.op = "power_on") <=> "core" \in on
      BY <1>4, <1>7, Zenon
    <3>3. "core" \in W <=> "core" \in off \/ ("core" \in W' /\ "core" \notin on)
      OBVIOUS
    <3> HIDE DEF on, off
    <3> QED
      BY <3>1, <3>2, <3>3, Zenon DEF PowerTracks
  <2>3. StateTracks'
    <3> SUFFICES ASSUME NEW k \in Kinds
                 PROVE  k \in state' <=> \/ Planned("clear", k)'
                                         \/ k \in W' /\ ~ Planned("set", k)'
      BY Zenon DEF StateTracks
    <3> QED
      BY <1>1, <1>8, <1>11
  <2> QED
    BY <2>1, <2>2, <2>3 DEF Tracks
<1>13. Nested'
  <2> SUFFICES ASSUME NEW x \in Todo'
               PROVE  /\ x.op = "stop" /\ x.clk \in LinkClocks =>
                           "core" \in W' \/ Pending("stop", "core", x.ctrl)'
                      /\ x.op = "start" /\ x.clk = "core" =>
                           /\ \A y \in Todo' : y.op # "stop"
                           /\ "link" \in W' =>
                                \A clk \in LinkClocks :
                                  Pending("start", clk, x.ctrl)'
    BY Zenon DEF Nested
  <2>1. "core" \in Clocks /\ LinkClocks \subseteq Clocks
    BY DEF Clocks, LinkClocks
  <2>2. /\ x.op \in {"start", "stop"} => x.ctrl \in Ctrls
        /\ \A y \in Todo' : y.op = "stop" => y.clk \in Clocks
    BY StepKinds DEF Sorted, Todo
  <2>3. ASSUME x.op = "stop", x.clk \in LinkClocks
        PROVE  "core" \in W' \/ Pending("stop", "core", x.ctrl)'
    <3>1. "link" \in W
      BY <1>4, <2>3, KindOfKinds
    <3> QED
      BY <1>2, <1>5, <2>1, <2>2, <2>3, <3>1, KindOfKinds
  <2>4. ASSUME x.op = "start", x.clk = "core"
        PROVE  /\ \A y \in Todo' : y.op # "stop"
               /\ "link" \in W' =>
                    \A clk \in LinkClocks : Pending("start", clk, x.ctrl)'
    <3>1. "core" \in W' /\ "core" \notin W
      BY <1>4, <2>4, KindOfKinds
    <3>2. "link" \notin W
      BY <1>2, <3>1
    <3>3. \A y \in Todo' : y.op # "stop"
      BY <1>4, <2>2, <3>1, <3>2, KindOfKinds
    <3>4. "link" \in W' => "link" \in on
      BY <3>2
    <3>5. x.ctrl \in Ctrls
      BY <2>2, <2>4
    <3> HIDE DEF on, off
    <3> QED
      BY <1>5, <2>1, <3>3, <3>4, <3>5, KindOfKinds
  <2> QED
    BY <2>3, <2>4
<1> QED
  BY <1>9, <1>12, <1>13

LEMMA QuietEnter ==
  ASSUME TypeOK, TypeOK', Call, Call', Quiet, NEW u \in Users, Enter(u),
         Borrowed, at[Panel] # "unswitched"
  PROVE  Quiet'
<1>1. PICK m \in Moves(u) :
        /\ m.from = at[u]
        /\ refcount' = NewRefcount(u, m)
        /\ vote' = NewVote(u, m)
        /\ move' = m
        /\ todo' = Only(NewVote(u, m) # vote, Plan(Wanted(NewVote(u, m))))
  BY DEF Enter
<1>2. /\ caller = None /\ caller' = u
      /\ UNCHANGED at /\ UNCHANGED hardware /\ UNCHANGED rc
  BY DEF Enter
<1>3. rc /\ CountsExact /\ VotesExact /\ Tracks
  BY Zenon DEF Quiet
<1>4. Todo = {}
  BY <1>2, NothingPending DEF Call
<1>5. CountsExact' /\ VotesExact'
  BY <1>1, <1>2, <1>3, EnterExact
<1>6. Serves(Todo', W' \ W, W \ W')
  BY <1>1, <1>3, <1>4, <1>5, EnterServes
<1>7. Purpose' /\ Nested' /\ Tracks'
  <2>1. Sorted(todo')
    BY DEF Call
  <2> QED
    BY <2>1, <1>2, <1>3, <1>4, <1>5, <1>6, ServesTracks
<1>8. ~ Forced'
  <2>1. m.kinds # {}
    BY NoForceMove
  <2> QED
    BY <2>1, <1>1, Zenon DEF Forced
<1>9. ASSUME NEW x \in Todo', x.op = "start", NEW v \in Users \ {u}
      PROVE  KindOf(x.clk) \notin KindsAt(at'[v])
  <2>1. KindOf(x.clk) \in W' \ W
    BY <1>6, <1>9, Zenon DEF Serves
  <2>2. KindOf(x.clk) \in Kinds
    BY DEF KindOf, Kinds
  <2>3. KindOf(x.clk) \notin Holding(v)
    BY <2>1, <2>2, <1>3, WantedIs
  <2>4. Holding(v) = KindsAt(at[v])
    BY <1>2, UsersApart, Zenon DEF Holding
  <2> QED
    BY <2>3, <2>4, <1>2, Zenon
<1>10. Undisturbed'
  BY <1>2, <1>8, <1>9, Zenon DEF Undisturbed, KindOf, KindsAt
<1>11. rc'
  BY <1>2, <1>3
<1> QED
  BY <1>5, <1>7, <1>10, <1>11, Zenon DEF Quiet

-----------------------------------------------------------------------------
(* A request leaves, and the forced update enters.                         *)

LEMMA SameUsersSameVotes ==
  ASSUME CountsExact, VotesExact, UNCHANGED votes,
         \A u \in Users : Holding(u)' = Holding(u)
  PROVE  CountsExact' /\ VotesExact'
<1>1. refcount' = refcount /\ vote' = vote
  BY DEF votes
<1>2. \A u \in Users, k \in Kinds : Holds(u, k)' = Holds(u, k)
  BY Zenon DEF Holds
<1>3. {Encoder, Panel, Checker, Recovery} \subseteq Users
  BY DEF Users
<1>4. CountsExact'
  BY <1>1, <1>2, <1>3 DEF CountsExact
<1>5. VotesExact'
  BY <1>1, Zenon DEF VotesExact
<1> QED
  BY <1>4, <1>5

LEMMA SameWanted ==
  ASSUME UNCHANGED votes
  PROVE  W' = W
<1>1. vote' = vote
  BY DEF votes
<1> QED
  BY <1>1, Zenon DEF W, Wanted

LEMMA QuietReturn ==
  ASSUME TypeOK, TypeOK', Call, Quiet, NEW u \in Users, Return(u)
  PROVE  Quiet'
<1>1. rc /\ CountsExact /\ VotesExact /\ Tracks
  BY Zenon DEF Quiet
<1>2. /\ caller = u /\ caller' = None /\ todo = <<>> /\ rc'
      /\ at' = [at EXCEPT ![u] = move.good]
      /\ UNCHANGED votes /\ UNCHANGED hardware /\ UNCHANGED todo
  BY <1>1 DEF Return
<1>3. Todo = {} /\ Todo' = {}
  BY <1>2, SortedEmpty DEF Todo
<1>4. \A v \in Users : Holding(v)' = Holding(v)
  <2> TAKE v \in Users
  <2>1. at'[v] = IF v = u THEN move.good ELSE at[v]
    BY <1>2 DEF TypeOK
  <2>2. v # None
    BY UsersApart
  <2> QED
    BY <1>2, <2>1, <2>2, Zenon DEF Holding
<1>5. CountsExact' /\ VotesExact'
  BY <1>1, <1>2, <1>4, SameUsersSameVotes
<1>6. Purpose' /\ Nested'
  BY <1>3, Zenon DEF Purpose, Nested
<1>7. Tracks'
  <2>1. UNCHANGED <<running, power, state>>
    BY <1>2 DEF hardware
  <2>2. W' = W
    BY <1>2, SameWanted
  <2>3. /\ \A op, clk, c : Pending(op, clk, c)' <=> Pending(op, clk, c)
        /\ \A op, clk : Planned(op, clk)' <=> Planned(op, clk)
    BY <1>3, Zenon DEF Pending, Planned
  <2>4. RunningTracks'
    BY <1>1, <2>1, <2>2, <2>3, Zenon DEF Tracks, RunningTracks, Level, KindOf
  <2>5. PowerTracks'
    BY <1>1, <1>3, <2>1, <2>2, Zenon DEF Tracks, PowerTracks
  <2>6. StateTracks'
    BY <1>1, <2>1, <2>2, <2>3, Zenon DEF Tracks, StateTracks
  <2> QED
    BY <2>4, <2>5, <2>6 DEF Tracks
<1>8. ~ Forced'
  <2>1. Encoder # None
    BY UsersApart DEF Users
  <2> QED
    BY <1>2, <2>1, Zenon DEF Forced
<1>9. Undisturbed'
  BY <1>3, <1>8, Zenon DEF Undisturbed
<1> QED
  BY <1>2, <1>5, <1>6, <1>7, <1>9 DEF Quiet

LEMMA QuietForce ==
  ASSUME TypeOK, TypeOK', Call, Quiet, ForceUpdate
  PROVE  Quiet'
<1>1. rc /\ CountsExact /\ VotesExact /\ Tracks
  BY Zenon DEF Quiet
<1>2. /\ caller = None /\ caller' = Encoder /\ at[Encoder] = "using"
      /\ move' = ForceMove /\ todo' = ForcePlan
      /\ UNCHANGED at /\ UNCHANGED votes /\ UNCHANGED hardware /\ UNCHANGED rc
      /\ at[Recovery] = "out" /\ at[Checker] = "out" /\ "link" \in state
  BY DEF ForceUpdate, StartForce, ForceMove
<1>3. Todo = {} /\ Todo' = ForceSteps
  <2>1. Todo = {}
    BY <1>2, NothingPending DEF Call
  <2>2. Todo' = Steps(ForcePlan)
    BY <1>2, Zenon DEF Todo, Steps
  <2> QED
    BY <2>1, <2>2, ForceSorted
<1>4. /\ state = W
      /\ power <=> "core" \in W
      /\ \A clk \in Clocks, c \in Ctrls :
           running[clk][c] = IF KindOf(clk) \in W THEN 1 ELSE 0
  BY <1>1, <1>3, AtRest
<1>5. W' = W /\ "link" \in W /\ "core" \in W
  BY <1>1, <1>2, <1>4, SameWanted, WantedIs
<1>6. \A v \in Users : Holding(v)' = Holding(v)
  <2> TAKE v \in Users
  <2>1. v # None /\ move'.good = "using"
    BY <1>2, UsersApart, ForceFields
  <2> QED
    BY <1>2, <2>1, Zenon DEF Holding
<1>7. CountsExact' /\ VotesExact'
  BY <1>1, <1>2, <1>6, SameUsersSameVotes
<1>8. \A x \in Todo' : /\ x.op \in {"stop", "start", "post"}
                       /\ Switches(x) => x.clk \in LinkClocks /\ x.ctrl \in Ctrls
  <2>1. Sorted(ForcePlan) /\ Steps(ForcePlan) = ForceSteps
    BY ForceSorted
  <2>2. \A x \in ForceSteps : Sound(x)
    BY <2>1 DEF Sorted
  <2> QED
    BY <1>3, <2>2, StepKinds, ForceContents DEF Switches
<1>9. \A clk \in LinkClocks, c \in Ctrls :
        Pending("stop", clk, c)' /\ Pending("start", clk, c)'
  BY <1>3, ForceContents DEF Pending
<1>10. Purpose'
  <2> SUFFICES ASSUME NEW x \in Todo'
               PROVE  /\ x.op = "start" => KindOf(x.clk) \in W'
                      /\ x.op = "stop" => Pending("start", x.clk, x.ctrl)'
                      /\ x.op \notin {"set", "clear", "power_on", "power_off"}
    BY Zenon DEF Purpose, KindOf
  <2> QED
    BY <1>5, <1>8, <1>9, KindOfKinds DEF Switches
<1>11. Nested'
  <2>1. \A x \in Todo' : ~ (x.op = "start" /\ x.clk = "core")
    BY <1>8 DEF Switches, LinkClocks
  <2> QED
    BY <1>5, <2>1, Zenon DEF Nested
<1>12. Tracks'
  <2>1. UNCHANGED <<running, power, state>>
    BY <1>2 DEF hardware
  <2>2. RunningTracks'
    <3> SUFFICES ASSUME NEW clk \in Clocks, NEW c \in Ctrls
                 PROVE  running'[clk][c] = Level(clk, c)'
      BY Zenon DEF RunningTracks
    <3>1. running'[clk][c] = 1
      BY <1>4, <1>5, <2>1, KindOfKinds
    <3>2. CASE clk \in LinkClocks
      BY <1>9, <3>1, <3>2, Zenon DEF Level
    <3>3. CASE clk = "core"
      <4>1. \A x \in Todo' : Switches(x) => x.clk # "core"
        BY <1>8 DEF LinkClocks
      <4>2. ~ Pending("stop", "core", c)' /\ ~ Pending("start", "core", c)'
        BY <4>1 DEF Pending, Switches
      <4>3. KindOf("core") = "core"
        BY KindOfKinds
      <4>4. Level("core", c)' = 1
        BY <4>2, <4>3, <1>5 DEF Level, KindOf
      <4> QED
        BY <3>1, <3>3, <4>4
    <3> QED
      BY <3>2, <3>3, KindOfKinds
  <2>3. PowerTracks'
    <3>1. power' <=> "core" \in W
      BY <1>4, <2>1, Zenon
    <3>2. \A x \in Todo' : x.op # "power_off" /\ x.op # "power_on"
      BY <1>8
    <3> QED
      BY <1>5, <3>1, <3>2, Zenon DEF PowerTracks
  <2>4. StateTracks'
    <3>1. \A k : ~ Planned("set", k)' /\ ~ Planned("clear", k)'
      BY <1>8 DEF Planned
    <3> QED
      BY <1>4, <1>5, <2>1, <3>1, Zenon DEF StateTracks
  <2> QED
    BY <2>2, <2>3, <2>4 DEF Tracks
<1>13. Undisturbed'
  <2>1. Forced'
    BY <1>2, ForceFields, Zenon DEF Forced
  <2> QED
    BY <1>2, <2>1, Zenon DEF Undisturbed
<1>14. rc'
  BY <1>1, <1>2
<1> QED
  BY <1>7, <1>10, <1>11, <1>12, <1>13, <1>14, Zenon DEF Quiet

-----------------------------------------------------------------------------
(* The walk, until a step fails.                                           *)

LEMMA StillQuiet ==
  ASSUME Call, Quiet, todo # <<>>, todo' = Tail(todo),
         UNCHANGED <<at, votes, caller, move, rc>>
  PROVE  rc' /\ CountsExact' /\ VotesExact' /\ Purpose' /\ Nested' /\ Undisturbed'
<1> DEFINE x == Head(todo)
<1>1. /\ Todo' = Todo \ {x} /\ \A y \in Todo' : Before(x, y)
      /\ \A y \in Todo : Sound(y)
  BY Walked DEF Call, Sorted, Todo
<1>2. rc /\ CountsExact /\ VotesExact /\ Purpose /\ Nested /\ Undisturbed
  BY Zenon DEF Quiet
<1>3. W' = W
  BY SameWanted
<1>4. \A v : Holding(v)' = Holding(v)
  BY Zenon DEF Holding
<1>5. CountsExact' /\ VotesExact'
  BY <1>2, <1>4, SameUsersSameVotes
<1> HIDE DEF x
<1>6. Purpose'
  <2> SUFFICES ASSUME NEW y \in Todo'
               PROVE  /\ y.op = "start" => KindOf(y.clk) \in W'
                      /\ y.op = "stop" => \/ KindOf(y.clk) \notin W'
                                          \/ Pending("start", y.clk, y.ctrl)'
                      /\ y.op = "set" => y.clk \in W'
                      /\ y.op = "clear" => y.clk \notin W'
                      /\ y.op = "power_on" => "core" \in W'
                      /\ y.op = "power_off" => "core" \notin W'
    BY Zenon DEF Purpose, KindOf
  <2>1. y \in Todo
    BY <1>1
  <2>2. /\ y.op = "start" => KindOf(y.clk) \in W
        /\ y.op = "stop" => \/ KindOf(y.clk) \notin W
                            \/ Pending("start", y.clk, y.ctrl)
        /\ y.op = "set" => y.clk \in W
        /\ y.op = "clear" => y.clk \notin W
        /\ y.op = "power_on" => "core" \in W
        /\ y.op = "power_off" => "core" \notin W
    BY <1>2, <2>1, Zenon DEF Purpose
  <2>3. ASSUME y.op = "stop", Pending("start", y.clk, y.ctrl)
        PROVE  Pending("start", y.clk, y.ctrl)'
    <3>1. PICK z \in Todo : z.op = "start" /\ z.clk = y.clk /\ z.ctrl = y.ctrl
      BY <2>3, Zenon DEF Pending
    <3>2. z # x
      <4>1. SUFFICES ASSUME z = x PROVE FALSE
        OBVIOUS
      <4>2. Rank(z) < Rank(y)
        <5>1. Before(z, y)
          BY <1>1, <4>1
        <5> QED
          BY <5>1, <3>1, <2>3, Zenon DEF Before, Switches
      <4>3. Rank(z) \in {3, 4} /\ Rank(y) \in {1, 2}
        BY <3>1, <2>3 DEF Rank
      <4> QED
        BY <4>2, <4>3
    <3>3. z \in Todo'
      BY <1>1, <3>1, <3>2
    <3> QED
      BY <3>1, <3>3, Zenon DEF Pending
  <2> QED
    BY <1>3, <2>2, <2>3, Zenon
<1>7. Nested'
  <2> SUFFICES ASSUME NEW y \in Todo'
               PROVE  /\ y.op = "stop" /\ y.clk \in LinkClocks =>
                           "core" \in W' \/ Pending("stop", "core", y.ctrl)'
                      /\ y.op = "start" /\ y.clk = "core" =>
                           /\ \A z \in Todo' : z.op # "stop"
                           /\ "link" \in W' =>
                                \A clk \in LinkClocks :
                                  Pending("start", clk, y.ctrl)'
    BY Zenon DEF Nested
  <2>1. y \in Todo
    BY <1>1
  <2>2. /\ y.op = "stop" /\ y.clk \in LinkClocks =>
             "core" \in W \/ Pending("stop", "core", y.ctrl)
        /\ y.op = "start" /\ y.clk = "core" =>
             /\ \A z \in Todo : z.op # "stop"
             /\ "link" \in W =>
                  \A clk \in LinkClocks : Pending("start", clk, y.ctrl)
    BY <1>2, <2>1, Zenon DEF Nested
  <2>3. Before(x, y)
    BY <1>1
  <2>4. ASSUME y.op = "stop", y.clk \in LinkClocks,
               Pending("stop", "core", y.ctrl)
        PROVE  Pending("stop", "core", y.ctrl)'
    <3>1. PICK z \in Todo : z.op = "stop" /\ z.clk = "core" /\ z.ctrl = y.ctrl
      BY <2>4, Zenon DEF Pending
    <3>2. z # x
      BY <3>1, <2>3, <2>4, Zenon DEF Before
    <3>3. z \in Todo'
      BY <1>1, <3>1, <3>2
    <3> QED
      BY <3>1, <3>3, Zenon DEF Pending
  <2>5. ASSUME y.op = "start", y.clk = "core", NEW clk \in LinkClocks,
               Pending("start", clk, y.ctrl)
        PROVE  Pending("start", clk, y.ctrl)'
    <3>1. PICK z \in Todo : z.op = "start" /\ z.clk = clk /\ z.ctrl = y.ctrl
      BY <2>5, Zenon DEF Pending
    <3>2. z # x
      BY <3>1, <2>3, <2>5, Zenon DEF Before
    <3>3. z \in Todo'
      BY <1>1, <3>1, <3>2
    <3> QED
      BY <3>1, <3>3, Zenon DEF Pending
  <2>6. y.op = "start" /\ y.clk = "core" => \A z \in Todo' : z.op # "stop"
    BY <1>1, <2>2
  <2> QED
    BY <1>3, <2>2, <2>4, <2>5, <2>6, Zenon
<1>8. Undisturbed'
  <2>1. Forced' <=> Forced
    BY Zenon DEF Forced
  <2>2. Todo' \subseteq Todo
    BY <1>1
  <2> QED
    BY <1>2, <2>1, <2>2, Zenon DEF Undisturbed, KindOf, KindsAt
<1>9. rc'
  BY <1>2
<1> QED
  BY <1>5, <1>6, <1>7, <1>8, <1>9

LEMMA OpsApart == {"post", "set", "clear", "power_on", "power_off"} = Ops \ {"start", "stop"}
BY DEF Ops

(* A step that switches no clock leaves them where they should be ...      *)
LEMMA RunningTracked ==
  ASSUME Call, RunningTracks, todo # <<>>, todo' = Tail(todo),
         UNCHANGED <<votes, running>>, ~ Switches(Head(todo))
  PROVE  RunningTracks'
<1> SUFFICES ASSUME NEW clk \in Clocks, NEW c \in Ctrls
             PROVE  running'[clk][c] = Level(clk, c)'
  BY Zenon DEF RunningTracks
<1>1. \A op \in {"start", "stop"} : Pending(op, clk, c)' <=> Pending(op, clk, c)
  BY PendingWalked, Zenon DEF Switches
<1>2. W' = W
  BY SameWanted
<1>3. Level(clk, c)' = Level(clk, c)
  <2>1. Pending("start", clk, c)' <=> Pending("start", clk, c)
    BY <1>1
  <2>2. Pending("stop", clk, c)' <=> Pending("stop", clk, c)
    BY <1>1
  <2> QED
    BY <1>2, <2>1, <2>2, Zenon DEF Level, KindOf
<1> QED
  BY <1>3, Zenon DEF RunningTracks

(* ... one that is no power step the power ...                             *)
LEMMA PowerTracked ==
  ASSUME Call, PowerTracks, todo # <<>>, todo' = Tail(todo),
         UNCHANGED <<votes, power>>,
         Head(todo).op # "power_on", Head(todo).op # "power_off"
  PROVE  PowerTracks'
<1>1. \A op \in {"power_on", "power_off"} :
        (\E y \in Todo' : y.op = op) <=> (\E y \in Todo : y.op = op)
  BY PlannedWalked, OpsApart
<1>2. /\ (\E y \in Todo' : y.op = "power_on") <=> (\E y \in Todo : y.op = "power_on")
      /\ (\E y \in Todo' : y.op = "power_off") <=> (\E y \in Todo : y.op = "power_off")
  BY <1>1
<1>3. W' = W
  BY SameWanted
<1> QED
  BY <1>2, <1>3, Zenon DEF PowerTracks

(* ... and one that records nothing the state.                             *)
LEMMA StateTracked ==
  ASSUME Call, StateTracks, todo # <<>>, todo' = Tail(todo),
         UNCHANGED <<votes, state>>,
         Head(todo).op # "set", Head(todo).op # "clear"
  PROVE  StateTracks'
<1>1. \A op \in {"set", "clear"}, k \in Kinds :
        Planned(op, k)' <=> Planned(op, k)
  BY PlannedWalked, OpsApart
<1>2. \A k \in Kinds : /\ Planned("set", k)' <=> Planned("set", k)
                       /\ Planned("clear", k)' <=> Planned("clear", k)
  BY <1>1
<1>3. W' = W
  BY SameWanted
<1> QED
  BY <1>2, <1>3, Zenon DEF StateTracks

(* A clock that starts was off and one that stops was on, and then it is   *)
(* where it should be.                                                     *)
LEMMA RunningSwitched ==
  ASSUME TypeOK, Call, Quiet, todo # <<>>, todo' = Tail(todo), UNCHANGED votes,
         Switches(Head(todo)),
         NEW n \in Nat,
         running' = [running EXCEPT ![Head(todo).clk][Head(todo).ctrl] = n],
         n = IF Head(todo).op = "start" THEN 1 ELSE 0
  PROVE  RunningTracks'
<1> DEFINE x == Head(todo)
<1>1. /\ x \in Todo
      /\ Todo' = Todo \ {x} /\ \A y \in Todo' : Before(x, y)
      /\ Sound(x)
  BY Walked
<1>2. x.clk \in Clocks /\ x.ctrl \in Ctrls /\ x.op \in {"start", "stop"}
  BY <1>1, StepKinds DEF Switches
<1>3. W' = W
  BY SameWanted
<1>4. RunningTracks /\ Purpose
  BY DEF Quiet, Tracks
<1> SUFFICES ASSUME NEW clk \in Clocks, NEW c \in Ctrls
             PROVE  running'[clk][c] = Level(clk, c)'
  BY Zenon DEF RunningTracks
<1>5. running'[clk][c] = IF clk = x.clk /\ c = x.ctrl THEN n ELSE running[clk][c]
  BY <1>2, RunningKept
<1>6. running[clk][c] = Level(clk, c)
  BY <1>4, Zenon DEF RunningTracks
<1>7. \A op \in {"start", "stop"} :
        Pending(op, clk, c)' <=> Pending(op, clk, c)
                                   /\ ~ (x.op = op /\ x.clk = clk /\ x.ctrl = c)
  BY PendingWalked
<1>8. n = IF x.op = "start" THEN 1 ELSE 0
  OBVIOUS
<1> HIDE DEF x
<1>9. CASE ~ (clk = x.clk /\ c = x.ctrl)
  <2>1. /\ Pending("start", clk, c)' <=> Pending("start", clk, c)
        /\ Pending("stop", clk, c)' <=> Pending("stop", clk, c)
    BY <1>7, <1>9
  <2>2. Level(clk, c)' = Level(clk, c)
    BY <1>3, <2>1, Zenon DEF Level, KindOf
  <2> QED
    BY <1>5, <1>6, <1>9, <2>2, Zenon
<1>10. CASE clk = x.clk /\ c = x.ctrl /\ x.op = "start"
  <2>1. ~ Pending("start", clk, c)'
    BY <1>7, <1>10
  <2>2. ~ Pending("stop", clk, c)'
    <3> SUFFICES ASSUME NEW y \in Todo', y.op = "stop", y.clk = clk, y.ctrl = c
                 PROVE  FALSE
      BY DEF Pending
    <3>1. Rank(x) < Rank(y)
      BY <1>1, <1>10, Zenon DEF Before, Switches
    <3>2. Rank(x) \in {3, 4} /\ Rank(y) \in {1, 2}
      BY <1>10 DEF Rank
    <3> QED
      BY <3>1, <3>2
  <2>3. KindOf(clk) \in W
    BY <1>1, <1>4, <1>10, Zenon DEF Purpose
  <2>4. Level(clk, c)' = 1
    BY <1>3, <2>1, <2>2, <2>3, Zenon DEF Level, KindOf
  <2> QED
    BY <1>5, <1>8, <1>10, <2>4, Zenon
<1>11. CASE clk = x.clk /\ c = x.ctrl /\ x.op = "stop"
  <2>1. ~ Pending("stop", clk, c)'
    BY <1>7, <1>11
  <2>2. Pending("start", clk, c)' <=> Pending("start", clk, c)
    BY <1>7, <1>11
  <2>3. KindOf(clk) \notin W \/ Pending("start", clk, c)
    BY <1>1, <1>4, <1>11, Zenon DEF Purpose
  <2>4. Level(clk, c)' = 0
    BY <1>3, <2>1, <2>2, <2>3, Zenon DEF Level, KindOf
  <2>5. n = 0
    BY <1>8, <1>11
  <2> QED
    BY <1>5, <1>11, <2>4, <2>5, Zenon
<1> QED
  BY <1>2, <1>9, <1>10, <1>11

(* Until a step fails, no clock is stopped that is not running, nor        *)
(* started twice.                                                          *)
LEMMA OnceEach ==
  ASSUME TypeOK, Call, Quiet
  PROVE  /\ ClockStops => running[Head(todo).clk][Head(todo).ctrl] = 1
         /\ ClockStarts => running[Head(todo).clk][Head(todo).ctrl] = 0
<1> DEFINE x == Head(todo)
<1>1. RunningTracks
  BY DEF Quiet, Tracks
<1>2. ASSUME todo # <<>>, x.op \in {"start", "stop"}
      PROVE  /\ x \in Todo /\ x.clk \in Clocks /\ x.ctrl \in Ctrls
             /\ running[x.clk][x.ctrl] = Level(x.clk, x.ctrl)
             /\ Steps(Tail(todo)) = Todo \ {x}
             /\ \A y \in Steps(Tail(todo)) : Before(x, y)
  <2>1. x \in Todo /\ Sound(x)
    BY <1>2, HeadSound
  <2>2. x.clk \in Clocks /\ x.ctrl \in Ctrls
    BY <1>2, <2>1, StepKinds
  <2>3. /\ Steps(Tail(todo)) = Todo \ {x}
        /\ \A y \in Steps(Tail(todo)) : Before(x, y)
    BY <1>2, SortedTail DEF Call, Todo
  <2>4. running[x.clk][x.ctrl] = Level(x.clk, x.ctrl)
    BY <1>1, <2>2 DEF RunningTracks
  <2> QED
    BY <2>1, <2>2, <2>3, <2>4
<1>3. ClockStops => todo # <<>> /\ x.op = "stop"
  BY DEF ClockStops, Now
<1>4. ClockStarts => todo # <<>> /\ x.op = "start"
  BY DEF ClockStarts, Now
<1> HIDE DEF x
<1>5. ASSUME ClockStops
      PROVE  running[x.clk][x.ctrl] = 1
  <2>1. Pending("stop", x.clk, x.ctrl)
    BY <1>2, <1>3, <1>5 DEF Pending
  <2>2. Level(x.clk, x.ctrl) = 1
    BY <2>1, Zenon DEF Level
  <2> QED
    BY <1>2, <1>3, <1>5, <2>2
<1>6. ASSUME ClockStarts
      PROVE  running[x.clk][x.ctrl] = 0
  <2>1. Pending("start", x.clk, x.ctrl)
    BY <1>2, <1>4, <1>6 DEF Pending
  <2>2. ~ Pending("stop", x.clk, x.ctrl)
    <3> SUFFICES ASSUME NEW y \in Todo, y.op = "stop", y.clk = x.clk,
                        y.ctrl = x.ctrl
                 PROVE  FALSE
      BY DEF Pending
    <3>1. x.op = "start" /\ x # y
      BY <1>4, <1>6
    <3>2. Before(x, y)
      BY <1>2, <1>4, <1>6, <3>1
    <3>3. Rank(x) < Rank(y)
      BY <3>1, <3>2, Zenon DEF Before, Switches
    <3>4. Rank(x) \in {3, 4} /\ Rank(y) \in {1, 2}
      BY <3>1 DEF Rank
    <3> QED
      BY <3>3, <3>4
  <2>3. Level(x.clk, x.ctrl) = 0
    BY <2>1, <2>2, Zenon DEF Level
  <2> QED
    BY <1>2, <1>4, <1>6, <2>3
<1> QED
  BY <1>5, <1>6 DEF x

LEMMA QuietWalk ==
  ASSUME TypeOK, Call, Quiet, Walk, faults' = 0, faults \in Nat
  PROVE  Quiet'
<1> DEFINE x == Head(todo)
<1>0. RunningTracks /\ PowerTracks /\ StateTracks /\ Purpose
  BY DEF Quiet, Tracks
<1>1. ~ Fault
  BY DEF Fault
<1>2. ~ PowerOnRefused
  <2> SUFFICES ASSUME PowerOnRefused PROVE FALSE
    OBVIOUS
  <2>1. todo # <<>> /\ x.op = "power_on" /\ power
    BY DEF PowerOnRefused, Now
  <2>2. x \in Todo
    BY <2>1, HeadSound
  <2>3. "core" \in W
    BY <1>0, <2>1, <2>2, Zenon DEF Purpose
  <2>4. \A y \in Todo : y.op # "power_off"
    BY <1>0, <2>3, Zenon DEF Purpose
  <2> QED
    BY <1>0, <2>1, <2>2, <2>4, Zenon DEF PowerTracks
<1>3. \/ PowerOn \/ ClockStarts \/ ClockStops \/ PostOn \/ PowerOff \/ SetState
  BY <1>1, <1>2 DEF Walk, PowerOnFails, ClockStartFails, PostOnFails,
                    PowerOffFails
<1>4. todo # <<>> /\ todo' = Tail(todo) /\ UNCHANGED <<at, votes, caller, move, rc>>
  BY <1>3 DEF PowerOn, ClockStarts, ClockStops, PostOn, PowerOff, SetState,
              Now, Done
<1>5. rc' /\ CountsExact' /\ VotesExact' /\ Purpose' /\ Nested' /\ Undisturbed'
  BY <1>4, StillQuiet
<1>6. W' = W
  BY <1>4, SameWanted
<1>7. CASE PowerOn \/ PowerOff
  <2>1. /\ UNCHANGED running /\ UNCHANGED state
        /\ x.op \in {"power_on", "power_off"}
    BY <1>7 DEF PowerOn, PowerOff, Now
  <2>2. RunningTracks' /\ StateTracks'
    BY <1>0, <1>4, <2>1, RunningTracked, StateTracked DEF Switches
  <2>3. x \in Todo
    BY <1>4, HeadSound
  <2>4. PowerTracks'
    <3>1. CASE PowerOn
      <4>1. x.op = "power_on" /\ power'
        BY <3>1 DEF PowerOn, Now
      <4>2. "core" \in W
        BY <1>0, <2>3, <4>1, Zenon DEF Purpose
      <4>3. ~ \E y \in Todo' : y.op = "power_on"
        BY <1>4, <4>1, PlannedWalked, OpsApart
      <4> QED
        BY <1>6, <4>1, <4>2, <4>3, Zenon DEF PowerTracks
    <3>2. CASE PowerOff
      <4>1. x.op = "power_off" /\ ~ power'
        BY <3>2 DEF PowerOff, Now
      <4>2. "core" \notin W
        BY <1>0, <2>3, <4>1, Zenon DEF Purpose
      <4>3. ~ \E y \in Todo' : y.op = "power_off"
        BY <1>4, <4>1, PlannedWalked, OpsApart
      <4> QED
        BY <1>6, <4>1, <4>2, <4>3, Zenon DEF PowerTracks
    <3> QED
      BY <1>7, <3>1, <3>2
  <2> QED
    BY <1>5, <2>2, <2>4 DEF Quiet, Tracks
<1>8. CASE ClockStarts \/ ClockStops
  <2>1. /\ UNCHANGED power /\ UNCHANGED state
        /\ x.op \in {"start", "stop"}
    BY <1>8 DEF ClockStarts, ClockStops, Now
  <2>2. PowerTracks' /\ StateTracks'
    BY <1>0, <1>4, <2>1, PowerTracked, StateTracked
  <2>3. RunningTracks'
    <3>1. CASE ClockStarts
      <4>1. /\ x.op = "start"
            /\ running' = [running EXCEPT ![x.clk][x.ctrl] = @ + 1]
        BY <3>1 DEF ClockStarts, Now
      <4>2. running[x.clk][x.ctrl] = 0
        BY <3>1, OnceEach
      <4>3. running' = [running EXCEPT ![x.clk][x.ctrl] = 1]
        BY <4>1, <4>2
      <4> QED
        BY <1>4, <4>1, <4>3, RunningSwitched DEF Switches
    <3>2. CASE ClockStops
      <4>1. /\ x.op = "stop"
            /\ running' = [running EXCEPT ![x.clk][x.ctrl] = Down(@)]
        BY <3>2 DEF ClockStops, Now
      <4>2. running[x.clk][x.ctrl] = 1
        BY <3>2, OnceEach
      <4>3. Down(1) = 0
        BY DEF Down
      <4>4. running' = [running EXCEPT ![x.clk][x.ctrl] = 0]
        BY <4>1, <4>2, <4>3
      <4>5. x.op # "start"
        BY <4>1
      <4> QED
        BY <1>4, <4>1, <4>4, <4>5, RunningSwitched DEF Switches
    <3> QED
      BY <1>8, <3>1, <3>2
  <2> QED
    BY <1>5, <2>2, <2>3 DEF Quiet, Tracks
<1>9. CASE PostOn
  <2>1. /\ UNCHANGED running /\ UNCHANGED power /\ UNCHANGED state
        /\ x.op = "post"
    BY <1>9 DEF PostOn, Now, hardware
  <2>2. RunningTracks' /\ PowerTracks' /\ StateTracks'
    BY <1>0, <1>4, <2>1, RunningTracked, PowerTracked, StateTracked DEF Switches
  <2> QED
    BY <1>5, <2>2 DEF Quiet, Tracks
<1>10. CASE SetState
  <2>1. /\ UNCHANGED running /\ UNCHANGED power
        /\ \/ x.op = "set" /\ state' = state \union {x.clk}
           \/ x.op = "clear" /\ state' = state \ {x.clk}
    BY <1>10 DEF SetState, Now
  <2>2. RunningTracks' /\ PowerTracks'
    BY <1>0, <1>4, <2>1, RunningTracked, PowerTracked DEF Switches
  <2>3. x \in Todo
    BY <1>4, HeadSound
  <2>4. StateTracks'
    <3> SUFFICES ASSUME NEW k \in Kinds
                 PROVE  k \in state' <=> \/ Planned("clear", k)'
                                         \/ k \in W' /\ ~ Planned("set", k)'
      BY Zenon DEF StateTracks
    <3>1. k \in state <=> Planned("clear", k) \/ (k \in W /\ ~ Planned("set", k))
      BY <1>0, Zenon DEF StateTracks
    <3>2. /\ Planned("set", k)' <=>
               Planned("set", k) /\ ~ (x.op = "set" /\ x.clk = k)
          /\ Planned("clear", k)' <=>
               Planned("clear", k) /\ ~ (x.op = "clear" /\ x.clk = k)
      BY <1>4, PlannedWalked, OpsApart
    <3>3. /\ x.op = "set" => x.clk \in W
          /\ x.op = "clear" => x.clk \notin W
      BY <1>0, <2>3, Zenon DEF Purpose
    <3>4. Planned("clear", k) => k \notin W
      BY <1>0, Zenon DEF Purpose, Planned
    <3> HIDE DEF x
    <3> QED
      BY <1>6, <2>1, <3>1, <3>2, <3>3, <3>4
  <2> QED
    BY <1>5, <2>2, <2>4 DEF Quiet, Tracks
<1> QED
  BY <1>3, <1>7, <1>8, <1>9, <1>10

LEMMA CalmKept ==
  ASSUME TypeOK, TypeOK', Call, Call', Borrowed, Switched, Calm, [Next]_vars
  PROVE  Calm'
<1> SUFFICES ASSUME faults' = 0 PROVE Quiet'
  BY Zenon DEF Calm
<1>1. faults \in Nat
  BY BoundAssumption DEF TypeOK
<1>2. faults = 0
  BY FaultsGrow
<1>3. Quiet /\ at[Panel] # "unswitched"
  BY <1>2 DEF Calm, Switched
<1>4. CASE UNCHANGED vars
  <2>1. UNCHANGED <<at, refcount, vote, state, running, power, caller, move,
                    todo, rc>>
    BY <1>4 DEF vars, votes, hardware, call
  <2>2. Todo' = Todo /\ W' = W
    BY <2>1, Zenon DEF Todo, Steps, W, Wanted
  <2>3. /\ \A op, clk, c : Pending(op, clk, c)' <=> Pending(op, clk, c)
        /\ \A op, clk : Planned(op, clk)' <=> Planned(op, clk)
    BY <2>2, Zenon DEF Pending, Planned
  <2>4. CountsExact' /\ VotesExact'
    <3>1. \A u \in Users : Holding(u)' = Holding(u)
      BY <2>1, Zenon DEF Holding
    <3>2. UNCHANGED votes
      BY <2>1 DEF votes
    <3> QED
      BY <1>3, <3>1, <3>2, SameUsersSameVotes DEF Quiet
  <2>5. Purpose'
    BY <1>3, <2>2, <2>3, Zenon DEF Quiet, Purpose, KindOf
  <2>6. Nested'
    BY <1>3, <2>2, <2>3, Zenon DEF Quiet, Nested
  <2>7. RunningTracks'
    BY <1>3, <2>1, <2>2, <2>3, Zenon DEF Quiet, Tracks, RunningTracks, Level, KindOf
  <2>8. PowerTracks' /\ StateTracks'
    BY <1>3, <2>1, <2>2, <2>3, Zenon DEF Quiet, Tracks, PowerTracks, StateTracks
  <2>9. Undisturbed'
    BY <1>3, <2>1, <2>2, Zenon DEF Quiet, Undisturbed, Forced, KindOf, KindsAt
  <2>10. rc'
    BY <1>3, <2>1 DEF Quiet
  <2> QED
    BY <2>4, <2>5, <2>6, <2>7, <2>8, <2>9, <2>10 DEF Quiet, Tracks
<1> QED
  BY <1>1, <1>3, <1>4, QuietEnter, QuietReturn, QuietForce, QuietWalk DEF Next

-----------------------------------------------------------------------------
(* The theorems.                                                           *)

LEMMA Starting ==
  ASSUME Init
  PROVE  IInv
<1>1. TypeOK
  <2>1. /\ at \in [Users -> Positions]
        /\ vote \in [Clients -> SUBSET Kinds]
        /\ state \in SUBSET Kinds
    BY DEF Init, Positions
  <2>2. refcount \in [Clients -> [Kinds -> Nat]]
    BY DEF Init
  <2>3. running \in [Clocks -> [Ctrls -> Nat]]
    BY DEF Init
  <2>4. /\ power \in BOOLEAN /\ rc \in BOOLEAN
        /\ caller \in Users \union {None}
    BY DEF Init
  <2>5. faults \in 0 .. MaxFaults
    BY BoundAssumption DEF Init
  <2> QED
    BY <2>1, <2>2, <2>3, <2>4, <2>5 DEF TypeOK, Positions
<1>2. Todo = {}
  BY SortedEmpty DEF Init, Todo
<1>3. /\ \A op, clk, c : ~ Pending(op, clk, c)
      /\ \A op, clk : ~ Planned(op, clk)
  BY <1>2, NothingPending, Zenon
<1>4. Call
  BY SortedEmpty, UserAssumption DEF Init, Call
<1>5. running = [clk \in Clocks |-> [c \in Ctrls |-> 0]]
  BY DEF Init
<1>6. \A clk \in Clocks, c \in Ctrls : running[clk][c] = 0
  BY <1>5
<1>7. SlaveBehind
  <2> SUFFICES ASSUME Slave # None, NEW clk \in Clocks
               PROVE  running[clk][Slave] <= running[clk][Master]
    BY <1>3, Zenon DEF SlaveBehind
  <2>1. running[clk][Slave] = 0 /\ running[clk][Master] = 0
    BY <1>6, ControllersDiffer
  <2> QED
    BY <2>1
<1>8. W = {}
  <2>1. \A c \in Clients : vote[c] = {}
    BY DEF Init
  <2> QED
    BY <2>1 DEF W, Wanted
<1>9. \A u \in Users : Holding(u) = {}
  <2> SUFFICES ASSUME NEW u \in Users PROVE Holding(u) = {}
    OBVIOUS
  <2>1. at[u] = "out" /\ caller # u
    BY UsersApart DEF Init
  <2> QED
    BY <2>1, KindsValues, Zenon DEF Holding
<1>10. CountsExact /\ VotesExact
  <2>1. \A u \in Users : \A k : Holds(u, k) = 0
    BY <1>9 DEF Holds
  <2>2. \A k \in Kinds : refcount[Mdp][k] = 0 /\ refcount[Dsi][k] = 0
    BY DEF Init, Clients
  <2>3. CountsExact
    BY <2>1, <2>2 DEF CountsExact, Users
  <2>4. VotesExact
    BY DEF VotesExact, Init
  <2> QED
    BY <2>3, <2>4
<1>11. Purpose /\ Nested
  BY <1>2, Zenon DEF Purpose, Nested
<1>12. RunningTracks
  <2> SUFFICES ASSUME NEW clk \in Clocks, NEW c \in Ctrls
               PROVE  running[clk][c] = Level(clk, c)
    BY Zenon DEF RunningTracks
  <2>1. Level(clk, c) = 0
    BY <1>3, <1>8, Zenon DEF Level
  <2> QED
    BY <1>6, <2>1
<1>13. PowerTracks
  BY <1>2, <1>8 DEF PowerTracks, Init
<1>14. StateTracks
  <2>1. state = {}
    BY DEF Init
  <2> QED
    BY <1>3, <1>8, <2>1 DEF StateTracks
<1>15. Undisturbed
  <2>1. at[Checker] = "out" /\ at[Recovery] = "out"
    BY DEF Init, Users
  <2> QED
    BY <1>2, <2>1, Zenon DEF Undisturbed
<1>16. rc
  BY DEF Init
<1>17. Borrowed
  <2>1. \A b \in Borrowers : b \in Users
    BY DEF Borrowers, Users
  <2>2. Panel # None
    BY UsersApart DEF Users
  <2> QED
    BY <2>1, <2>2, UsersApart DEF Init, Borrowed
<1>18. Switched
  BY DEF Init, Switched, Users
<1> QED
  BY <1>1, <1>4, <1>7, <1>10, <1>11, <1>12, <1>13, <1>14, <1>15, <1>16, <1>17,
     <1>18 DEF IInv, Calm, Quiet, Tracks

(* Whatever threads vote and whatever steps fail, the walk through a plan  *)
(* keeps the slave behind the master; until a step fails, it keeps counts, *)
(* votes, clocks, supplies and recorded state together.                    *)
THEOREM Invariance == Spec => []IInv
<1>1. Init => IInv
  BY Starting
<1>2. IInv /\ [Next]_vars => IInv'
  <2> SUFFICES ASSUME IInv, [Next]_vars PROVE IInv'
    OBVIOUS
  <2>1. TypeOK'
    BY TypeKept DEF IInv
  <2>2. Call'
    BY CallKept DEF IInv
  <2>3. SlaveBehind'
    BY SlaveKept DEF IInv
  <2>4. Calm'
    BY <2>1, <2>2, CalmKept DEF IInv
  <2>5. Borrowed'
    BY BorrowedKept DEF IInv
  <2>6. Switched'
    BY SwitchedKept DEF IInv
  <2> QED
    BY <2>1, <2>2, <2>3, <2>4, <2>5, <2>6 DEF IInv
<1> QED
  BY <1>1, <1>2, PTL DEF Spec

(* Every enable count is a natural number: none ever falls below zero, also*)
(* when a half-finished request is followed by any other.                  *)
THEOREM TypeCorrect == Spec => []TypeOK
<1>1. IInv => TypeOK
  BY DEF IInv
<1> QED
  BY <1>1, Invariance, PTL

(* Until a step fails, a link clock of a controller runs only while its    *)
(* core clocks do: one that is about to stop still has them, one that has  *)
(* just started has them already.                                          *)
LEMMA CoreServesLink ==
  ASSUME TypeOK, Quiet
  PROVE  CoreUnderLink
<1>1. /\ RunningTracks /\ Nested /\ CountsExact /\ VotesExact
  BY DEF Quiet, Tracks
<1>2. "link" \in W => "core" \in W
  BY <1>1, WantedIs
<1>3. \A clk \in Clocks, c \in Ctrls : running[clk][c] \in Nat
  BY DEF TypeOK
<1>4. ASSUME NEW c \in Ctrls, NEW clk \in LinkClocks, running[clk][c] # 0
      PROVE  running["core"][c] # 0
  <2> SUFFICES ASSUME running["core"][c] = 0 PROVE FALSE
    OBVIOUS
  <2>1. "core" \in Clocks /\ clk \in Clocks
    BY DEF Clocks, LinkClocks
  <2>2. Level("core", c) = 0 /\ Level(clk, c) # 0
    BY <1>1, <1>4, <2>1, Zenon DEF RunningTracks
  <2>3. 1 # 0
    OBVIOUS
  <2>4. KindOf("core") = "core" /\ KindOf(clk) = "link"
    BY KindOfKinds
  <2>5. /\ ~ Pending("stop", "core", c)
        /\ Pending("start", "core", c) \/ "core" \notin W
    BY <2>2, <2>3, <2>4, Zenon DEF Level
  <2>6. \/ Pending("stop", clk, c)
        \/ "link" \in W /\ ~ Pending("start", clk, c)
    BY <2>2, <2>4, Zenon DEF Level
  <2>7. CASE Pending("stop", clk, c)
    <3>1. PICK x \in Todo : x.op = "stop" /\ x.clk = clk /\ x.ctrl = c
      BY <2>7, Zenon DEF Pending
    <3>2. "core" \in W \/ Pending("stop", "core", c)
      BY <1>1, <3>1, Zenon DEF Nested
    <3>3. Pending("start", "core", c)
      BY <2>5, <3>2, Zenon
    <3>4. PICK y \in Todo : y.op = "start" /\ y.clk = "core" /\ y.ctrl = c
      BY <3>3, Zenon DEF Pending
    <3>5. x.op # "stop"
      BY <1>1, <3>1, <3>4, Zenon DEF Nested
    <3> QED
      BY <3>1, <3>5
  <2>8. CASE "link" \in W /\ ~ Pending("start", clk, c)
    <3>1. Pending("start", "core", c)
      BY <1>2, <2>5, <2>8, Zenon
    <3>2. PICK y \in Todo : y.op = "start" /\ y.clk = "core" /\ y.ctrl = c
      BY <3>1, Zenon DEF Pending
    <3>3. Pending("start", clk, y.ctrl)
      BY <1>1, <2>8, <3>2, Zenon DEF Nested
    <3> QED
      BY <2>8, <3>2, <3>3, Zenon
  <2> QED
    BY <2>6, <2>7, <2>8
<1>5. ASSUME NEW c \in Ctrls
      PROVE  running["lp"][c] > 0 \/ running["hs"][c] > 0
               => running["core"][c] > 0
  <2>1. /\ running["lp"][c] \in Nat /\ running["hs"][c] \in Nat
        /\ running["core"][c] \in Nat
    BY <1>3 DEF Clocks
  <2>2. running["lp"][c] # 0 \/ running["hs"][c] # 0 => running["core"][c] # 0
    BY <1>4 DEF LinkClocks
  <2> QED
    BY <2>1, <2>2
<1> QED
  BY <1>5 DEF CoreUnderLink

(* The slave's clocks never run without the master's that they divide,     *)
(* whatever steps have failed half way through whatever requests; and until*)
(* one fails, no link clock runs without the core clocks.                  *)
THEOREM ClocksInOrder == Spec => []ClocksOrdered
<1>1. IInv => ClocksOrdered
  <2> SUFFICES ASSUME IInv PROVE ClocksOrdered
    OBVIOUS
  <2>1. SlaveUnderMaster
    BY Zenon DEF IInv, SlaveBehind, SlaveUnderMaster
  <2>2. faults = 0 => CoreUnderLink
    BY CoreServesLink DEF IInv, Calm
  <2> QED
    BY <2>1, <2>2 DEF ClocksOrdered
<1> QED
  BY <1>1, Invariance, PTL

(* No plan of another thread has still to start what a thread is using.    *)
LEMMA ServedHaveClocks ==
  ASSUME TypeOK, Quiet
  PROVE  UsersHaveClocks
<1> SUFFICES ASSUME NEW u \in Users, Served(u), NEW clk \in Clocks, NEW c \in Ctrls
             PROVE  running[clk][c] > 0
  BY Zenon DEF UsersHaveClocks
<1>1. RunningTracks /\ CountsExact /\ VotesExact /\ Undisturbed
  BY DEF Quiet, Tracks
<1>2. at[u] \in {"using", "stopping", "dying"} /\ caller # u
  BY Zenon DEF Served
<1>3. KindsAt(at[u]) = Kinds
  BY <1>2, KindsTable
<1>4. Holding(u) = Kinds
  BY <1>2, <1>3, Zenon DEF Holding
<1>5. KindOf(clk) \in Kinds
  BY KindOfKinds
<1>6. KindOf(clk) \in W
  BY <1>1, <1>4, <1>5, WantedIs
<1>7. ~ Pending("start", clk, c)
  <2>1. CASE ~ Forced
    <3>1. u \in Users \ {caller}
      BY <1>2
    <3>2. ASSUME NEW x \in Todo, x.op = "start" PROVE KindOf(x.clk) \notin Kinds
      BY <1>1, <1>3, <2>1, <3>1, <3>2, Zenon DEF Undisturbed
    <3> QED
      BY <1>5, <3>2, Zenon DEF Pending
  <2>2. CASE Forced
    <3>1. u \in {Checker, Recovery}
      BY <2>2, Zenon DEF Served
    <3>2. at[u] = "out"
      BY <1>1, <2>2, <3>1 DEF Undisturbed
    <3> QED
      BY <1>2, <3>2
  <2> QED
    BY <2>1, <2>2
<1>8. Level(clk, c) = 1
  BY <1>6, <1>7, Zenon DEF Level
<1>9. running[clk][c] = 1
  BY <1>1, <1>8, Zenon DEF RunningTracks
<1> QED
  BY <1>9

(* Nobody holds a vote, so nothing is wanted, and no step is left.         *)
LEMMA NothingLeftOn ==
  ASSUME TypeOK, Call, Quiet
  PROVE  UnusedIsOff
<1> SUFFICES ASSUME \A u \in Users :
                      at[u] \in {"out", "parked", "failed", "dead"} /\ caller = None
             PROVE  /\ \A clk \in Clocks, c \in Ctrls : running[clk][c] = 0
                    /\ ~ power
  BY Zenon DEF UnusedIsOff
<1>1. CountsExact /\ VotesExact /\ Tracks
  BY DEF Quiet
<1>2. caller = None
  BY DEF Users
<1>3. Todo = {}
  BY <1>2, NothingPending DEF Call
<1>4. \A u \in Users : Holding(u) = {}
  <2> SUFFICES ASSUME NEW u \in Users PROVE Holding(u) = {}
    OBVIOUS
  <2>1. at[u] \in {"out", "parked", "failed", "dead"} /\ caller # u
    BY <1>2, UsersApart
  <2>2. KindsAt(at[u]) = {}
    BY <2>1, KindsValues
  <2> QED
    BY <2>1, <2>2, Zenon DEF Holding
<1>5. \A k \in Kinds : k \notin W
  BY <1>1, <1>4, WantedIs
<1>6. "core" \notin W
  BY <1>5 DEF Kinds
<1>7. /\ power <=> "core" \in W
      /\ \A clk \in Clocks, c \in Ctrls :
           running[clk][c] = IF KindOf(clk) \in W THEN 1 ELSE 0
  BY <1>1, <1>3, AtRest
<1>8. \A clk \in Clocks : KindOf(clk) \notin W
  BY <1>5, KindOfKinds
<1> QED
  BY <1>6, <1>7, <1>8

(* Two clients, three threads voting as one of them and the forced update  *)
(* switch the same clocks: until a step fails, a thread between its ON and *)
(* its OFF has them all, and nothing is on that nobody uses.               *)
THEOREM ClocksServeUsers == Spec => []ClocksFollowUsers
<1>1. IInv => ClocksFollowUsers
  <2> SUFFICES ASSUME IInv, faults = 0 PROVE UsersHaveClocks /\ UnusedIsOff
    BY DEF ClocksFollowUsers
  <2>1. TypeOK /\ Call /\ Quiet
    BY DEF IInv, Calm
  <2> QED
    BY <2>1, ServedHaveClocks, NothingLeftOn
<1> QED
  BY <1>1, Invariance, PTL

(* Until a step fails, every stop finds its clock running and every start  *)
(* finds it stopped, in requests and forced updates alike: the clock       *)
(* framework's enable counts neither leak nor underflow.                   *)
THEOREM CountsStayBalanced == Spec => CountsBalanced
<1>1. IInv =>
        (faults = 0 =>
           /\ ClockStops => running[Head(todo).clk][Head(todo).ctrl] = 1
           /\ ClockStarts => running[Head(todo).clk][Head(todo).ctrl] = 0)
  <2> SUFFICES ASSUME IInv, faults = 0
               PROVE  /\ ClockStops =>
                           running[Head(todo).clk][Head(todo).ctrl] = 1
                      /\ ClockStarts =>
                           running[Head(todo).clk][Head(todo).ctrl] = 0
    OBVIOUS
  <2>1. TypeOK /\ Call /\ Quiet
    BY DEF IInv, Calm
  <2> QED
    BY <2>1, OnceEach
<1> QED
  BY <1>1, Invariance, PTL DEF CountsBalanced
=============================================================================
