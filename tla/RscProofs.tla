----------------------------- MODULE RscProofs -----------------------------
(***************************************************************************)
(* Theorems about Rsc, for any external displays and RSC versions.  The    *)
(* votes alone do not show that the arbitration is right: what matters is  *)
(* that an encoder votes only with a power reference, so that the power    *)
(* handle's own vote covers it, and that a collapse is never asked for     *)
(* meanwhile (PowerInv).  Then the hardware cannot refuse an encoder's     *)
(* update, and what an update leaves follows from the votes (UpdateOn).    *)
(***************************************************************************)
EXTENDS Rsc, FiniteSetTheorems, TLAPS

(* What the order of the references means for the votes.                   *)
PowerInv ==
  /\ state[Power] \in {"IDLE", "CLK"}
  /\ \A e \in Externals : state[e] \in {"IDLE", "CLK"}
  /\ \A e \in Encoders \ users : state[e] = "IDLE"
  /\ power = "on" \/ users = {}
  /\ power # "off" => state[Power] = "CLK" /\ current = Wanted
  /\ power = "off" => current \in {"IDLE", "CLK"} /\ (failed \/ current = Wanted)

(* The hardware, its references and the waiting update.                    *)
HwInv ==
  /\ hw = "IDLE" <=> current = "IDLE"
  /\ refcount = Vote(current # "IDLE")
  /\ holder # None => power = "on" /\ current = "CLK"

(* The vsync count; version 3 has no video state.                          *)
CountInv ==
  /\ vsync_wait <= Cardinality(asked \union owes)
  /\ rev >= 3 => /\ state[Primary] # "VID" /\ current # "VID"
                 /\ waits = owes
                 /\ vsync_wait = Cardinality(asked \union owes)

IInv == TypeOK /\ PowerInv /\ HwInv /\ CountInv

-----------------------------------------------------------------------------
(* The encoders are finitely many, so the counts are numbers.              *)
LEMMA EncodersFinite ==
  ASSUME NEW S, S \subseteq Encoders
  PROVE  IsFiniteSet(S) /\ Cardinality(S) \in Nat
<1>1. IsFiniteSet({Primary} \union Externals)
  BY ExternalsAssumption, FS_Singleton, FS_Union
<1> QED
  BY <1>1, FS_Subset, FS_CardinalityType DEF Encoders

(* An encoder that asks or has waited changes the count by one.            *)
LEMMA OneMore ==
  ASSUME NEW S, S \subseteq Encoders, NEW e \in Encoders \ S
  PROVE  Cardinality(S \union {e}) = Cardinality(S) + 1
BY EncodersFinite, FS_AddElement

LEMMA OneLess ==
  ASSUME NEW S, S \subseteq Encoders, NEW e \in S
  PROVE  Cardinality(S \ {e}) = Cardinality(S) - 1
BY EncodersFinite, FS_RemoveElement

LEMMA NothingCounted == Cardinality({}) = 0
BY FS_EmptySet

-----------------------------------------------------------------------------
(* Nothing is initially voted for.                                         *)
LEMMA InitInv == Init => IInv
<1> SUFFICES ASSUME Init PROVE IInv
  OBVIOUS
<1> USE DEF Init
<1>1. TypeOK
  BY DEF TypeOK, States
<1>2. PowerInv
  BY ClientsAssumption DEF PowerInv, Wanted, Clients, Encoders
<1>3. HwInv
  BY DEF HwInv, Vote
<1>4. CountInv
  <2>1. asked \union owes = {}
    OBVIOUS
  <2> QED
    BY <2>1, NothingCounted, ClientsAssumption DEF CountInv, Clients, Encoders
<1> QED
  BY <1>1, <1>2, <1>3, <1>4 DEF IInv

-----------------------------------------------------------------------------
(* What an update tells an encoder about a vblank to wait for.             *)
Told(e) ==
  \/ asked' = asked /\ vsync_wait' = vsync_wait
  \/ asked' = asked \union {e} /\ vsync_wait' = vsync_wait + 1
  \/ asked' = asked \union {e} /\ vsync_wait' = vsync_wait /\ rev < 3

(* An update of a powered RSC that takes it to s.                          *)
Reaches(e, s) ==
  /\ current' = s
  /\ hw' \in States \ {"IDLE"}
  /\ refcount' = 1
  /\ failed' \in BOOLEAN
  /\ holder' = None \/ (holder' = e /\ s = "CLK")
  /\ Told(e)

Powered ==
  /\ current \in States \ {"IDLE"}
  /\ hw \in States \ {"IDLE"}
  /\ refcount = 1
  /\ failed \in BOOLEAN
  /\ vsync_wait \in Nat
  /\ holder = None
  /\ rev \in Nat

LEMMA ReachesClk ==
  ASSUME Powered, NEW e \in Encoders, NEW st,
         MultiDisplay(st) \/ ~(Shows(st, "VID") \/ Shows(st, "CMD")),
         SwitchToClk(e, st)
  PROVE  Reaches(e, "CLK")
<1> USE DEF Powered
<1>0. /\ asked \union ({e} \intersect Encoders) = asked \union {e}
      /\ Vote(e \in Encoders) = 1
      /\ Enabled = 1 /\ Vote("CLK" = "IDLE") = 0
      /\ "CLK" \in States \ {"IDLE"}
  BY DEF Vote, Enabled, States
<1>1. CASE current \in {"CMD", "VID"}
  <2>1. /\ Program("CLK") /\ Changed("CLK") /\ AskForVblank(e)
        /\ vsync_wait' = vsync_wait + Vote(e \in Encoders)
        /\ UNCHANGED holder
    BY <1>1 DEF SwitchToClk
  <2>2. current' = "CLK" /\ hw' = "CLK" /\ refcount' = 1 /\ failed' = FALSE
    BY <2>1, <1>0 DEF Program, Changed
  <2>3. asked' = asked \union {e} /\ vsync_wait' = vsync_wait + 1
    BY <2>1, <1>0 DEF AskForVblank
  <2> QED
    BY <2>1, <2>2, <2>3, <1>0 DEF Reaches, Told
<1>2. CASE current = "CLK" /\ vsync_wait > 0
  <2>0. current \notin {"CMD", "VID"} /\ ~(vsync_wait = 0)
    BY <1>2
  <2>1. /\ Program("CLK") \/ ProgramFails("CLK")
        /\ holder' = e /\ refcount' = Enabled
        /\ UNCHANGED <<current, failed, vsync_wait, asked>>
    BY <2>0, Zenon DEF SwitchToClk
  <2>2. hw' \in States \ {"IDLE"}
    BY <2>1, <1>0 DEF Program, ProgramFails
  <2> QED
    BY <2>1, <2>2, <1>0, <1>2 DEF Reaches, Told
<1>3. CASE current = "CLK" /\ vsync_wait = 0
  <2>0. current \notin {"CMD", "VID"} /\ ~(vsync_wait > 0)
    BY <1>3
  <2>1. ~ProgramFails("CLK")
    BY DEF ProgramFails
  <2>2. Program("CLK") /\ Changed("CLK") /\ NoWait
    BY <2>0, <2>1, Zenon DEF SwitchToClk
  <2>3. current' = "CLK" /\ hw' = "CLK" /\ refcount' = 1 /\ failed' = FALSE
    BY <2>2, <1>0 DEF Program, Changed
  <2> QED
    BY <2>2, <2>3, <1>0 DEF NoWait, Reaches, Told
<1> QED
  BY <1>1, <1>2, <1>3 DEF States

LEMMA ReachesShow ==
  ASSUME Powered, NEW e \in Encoders, NEW st, NEW s \in {"CMD", "VID"},
         NEW config \in BOOLEAN,
         rev >= 3 => s # "VID" /\ current # "VID",
         current = s \/ ~MultiDisplay(st),
         SwitchToShow(e, st, s, config)
  PROVE  Reaches(e, s)
<1> USE DEF Powered
<1>0. /\ asked \union ({e} \intersect Encoders) = asked \union {e}
      /\ Enabled = 1 /\ Vote(s = "IDLE") = 0
      /\ s \in States \ {"IDLE"}
  BY DEF Vote, Enabled, States
<1>1. Changed(s) => current' = s /\ refcount' = 1 /\ failed' = FALSE
  BY <1>0 DEF Changed
<1>2. CASE current = s
  <2>1. Changed(s) /\ UNCHANGED <<hw, vsync_wait, holder>>
    BY <1>2 DEF SwitchToShow
  <2>2. \/ rev < 3 /\ asked' = asked \union {e}
        \/ asked' = asked
    BY <1>0, <1>2 DEF SwitchToShow, AskForVblank
  <2> QED
    BY <1>1, <2>1, <2>2 DEF Reaches, Told
<1>3. CASE current # s
  <2>1. ~ProgramFails(s)
    BY DEF ProgramFails
  <2>2. Program(s) /\ Changed(s) /\ UNCHANGED <<vsync_wait, holder>>
    BY <1>3, <2>1 DEF SwitchToShow
  <2>3. \/ current \in {"CMD", "VID"} /\ rev < 4 /\ asked' = asked \union {e}
        \/ asked' = asked
    BY <1>0, <1>3, <2>1 DEF SwitchToShow, AskForVblank
  <2>4. current \in {"CMD", "VID"} => rev < 3
    BY <1>3
  <2>5. hw' \in States \ {"IDLE"}
    BY <2>2, <1>0 DEF Program
  <2> QED
    BY <1>1, <2>2, <2>3, <2>4, <2>5 DEF Reaches, Told
<1> QED
  BY <1>2, <1>3

(* The vote of an encoder under the power handle's: the hardware follows   *)
(* at once, to the state that all votes ask for.                           *)
LEMMA UpdateOn ==
  ASSUME IInv, power = "on", NEW e \in users, e \notin asked \union waits,
         NEW request \in States, NEW config \in BOOLEAN,
         e # Primary => request \in {"IDLE", "CLK"} /\ ~config,
         Update(e, request, config)
  PROVE  /\ state' \in [Clients -> States]
         /\ state'[Power] = "CLK"
         /\ \A d \in Externals : state'[d] \in {"IDLE", "CLK"}
         /\ \A d \in Encoders \ users : state'[d] = "IDLE"
         /\ rev >= 3 => state'[Primary] # "VID" /\ current' # "VID"
         /\ Reaches(e, Wanted') /\ Wanted' \in States \ {"IDLE"}
         /\ UNCHANGED <<rev, vblanks>>
<1> DEFINE s == IF request = "VID" /\ rev >= 3 THEN "CLK" ELSE request
           st == [state EXCEPT ![e] = s]
<1> USE DEF Encoders, Clients
<1>1. /\ s \in States
      /\ e # Primary => s \in {"IDLE", "CLK"} /\ ~config
      /\ rev >= 3 => s # "VID"
      /\ e \in Encoders /\ e # Power /\ rev \in Nat
  BY ClientsAssumption, RevsAssumption DEF IInv, TypeOK, States
<1>2. state' = st /\ holder = None
  BY DEF Update
<1>3. /\ st \in [Clients -> States] /\ st[Power] = "CLK" /\ st[e] = s
      /\ \A d \in Encoders \ {e} : st[d] = state[d]
      /\ \A d \in Externals : st[d] \in {"IDLE", "CLK"}
      /\ \A d \in Encoders \ users : st[d] = "IDLE"
      /\ rev >= 3 => st[Primary] # "VID" /\ current # "VID"
      /\ Primary \notin Externals
  BY <1>1, ClientsAssumption DEF IInv, TypeOK, PowerInv, CountInv, States
<1>4. current = Wanted /\ current # "IDLE" /\ Powered
  <2>1. current = Wanted /\ state[Power] = "CLK"
    BY DEF IInv, PowerInv
  <2>2. current # "IDLE"
    BY <2>1 DEF Wanted
  <2> QED
    BY <1>1, <1>2, <2>1, <2>2 DEF IInv, TypeOK, HwInv, Vote, Powered
<1>5. /\ Shows(st, "VID") <=> st[Primary] = "VID"
      /\ Shows(st, "CMD") <=> st[Primary] = "CMD"
  BY <1>3 DEF Shows
<1>6. Wanted' = IF st[Primary] \in {"CMD", "VID"} /\ ~MultiDisplay(st)
                  THEN st[Primary] ELSE "CLK"
  BY <1>2, <1>3 DEF Wanted, MultiDisplay
<1>7. Reaches(e, Wanted')
  <2>1. CASE current = s /\ ~config
    <3>1. current = Wanted'
      <4>1. CASE s = "CLK"
        <5>1. st[e] = "CLK"
          BY <4>1, <1>3
        <5>2. MultiDisplay(st) \/ st[Primary] = "CLK"
          BY <5>1, <1>1 DEF MultiDisplay
        <5> QED
          BY <2>1, <4>1, <5>2, <1>6
      <4>2. CASE s \in {"CMD", "VID"}
        BY <2>1, <4>2, <1>1, <1>3, <1>4, <1>6 DEF MultiDisplay, Wanted
      <4> QED
        BY <2>1, <4>1, <4>2, <1>1, <1>4 DEF States
    <3>2. failed' = FALSE /\ UNCHANGED <<current, hw, refcount>> /\ NoWait
      BY <2>1 DEF Update
    <3>3. /\ current' = Wanted' /\ hw' = hw /\ refcount' = refcount
          /\ failed' = FALSE /\ holder' = None
          /\ asked' = asked /\ vsync_wait' = vsync_wait
      BY <3>1, <3>2, <1>4 DEF NoWait, Powered
    <3> QED
      BY <3>3, <1>4 DEF Powered, Reaches, Told
  <2>2. CASE ~(current = s /\ ~config) /\ s = "IDLE"
    <3>1. SwitchToIdle(e, st)
      BY <2>2 DEF Update
    <3>2. CASE st[Primary] \in {"CMD", "VID"} /\ ~MultiDisplay(st)
      <4>1. SwitchToShow(e, st, st[Primary], FALSE)
        BY <3>1, <3>2, <1>5 DEF SwitchToIdle
      <4> QED
        <5>1. st[Primary] \in {"CMD", "VID"} /\ ~MultiDisplay(st)
              /\ (rev >= 3 => st[Primary] # "VID" /\ current # "VID")
          BY <3>2, <1>3
        <5>2. Wanted' = st[Primary]
          BY <3>2, <1>6
        <5> HIDE DEF st
        <5>3. Reaches(e, st[Primary])
          BY <4>1, <5>1, <1>1, <1>4, ReachesShow
        <5> QED
          BY <5>2, <5>3
    <3>3. CASE ~(st[Primary] \in {"CMD", "VID"} /\ ~MultiDisplay(st))
      <4>1. SwitchToClk(e, st)
        BY <3>1, <3>3, <1>3, <1>5 DEF SwitchToIdle
      <4> QED
        BY <4>1, <3>3, <1>1, <1>4, <1>5, <1>6, ReachesClk
    <3> QED
      BY <3>2, <3>3
  <2>3. CASE ~(current = s /\ ~config) /\ s = "CLK"
    <3>1. SwitchToClk(e, st)
      BY <2>3 DEF Update
    <3>2. MultiDisplay(st) \/ st[Primary] \notin {"CMD", "VID"}
      BY <2>3, <1>1, <1>3 DEF MultiDisplay
    <3> QED
      BY <3>1, <3>2, <1>1, <1>4, <1>5, <1>6, ReachesClk
  <2>4. CASE ~(current = s /\ ~config) /\ s \in {"CMD", "VID"}
    <3>1. SwitchToShow(e, st, s, config) /\ e = Primary
      BY <2>4, <1>1 DEF Update
    <3>2. MultiDisplay(st) <=> MultiDisplay(state)
      BY <3>1, <1>3 DEF MultiDisplay
    <3>3. current = s => ~MultiDisplay(st)
      BY <2>4, <3>2, <1>4 DEF Wanted
    <3>4. CASE ~MultiDisplay(st)
      BY <2>4, <3>1, <3>4, <1>1, <1>3, <1>4, <1>6, ReachesShow
    <3>5. CASE MultiDisplay(st)
      <4>1. Refused /\ NoWait
        BY <3>1, <3>3, <3>5 DEF SwitchToShow
      <4>2. current = "CLK" /\ Wanted' = "CLK"
        BY <3>2, <3>5, <1>4, <1>6 DEF Wanted
      <4>3. /\ current' = current /\ hw' = hw /\ refcount' = 1
            /\ failed' = FALSE /\ holder' = None
            /\ asked' = asked /\ vsync_wait' = vsync_wait
        BY <4>1, <1>4 DEF Refused, Kept, NoWait, Enabled, Vote, Powered
      <4> QED
        BY <4>2, <4>3, <1>4 DEF Powered, Reaches, Told
    <3> QED
      BY <3>4, <3>5
  <2> QED
    BY <2>1, <2>2, <2>3, <2>4, <1>1 DEF States
<1>8. rev >= 3 => current' # "VID"
  BY <1>3, <1>6, <1>7 DEF Reaches
<1>9. Wanted' \in States \ {"IDLE"}
  BY <1>6 DEF States
<1>10. UNCHANGED <<rev, vblanks>>
  BY DEF Update
<1> QED
  BY <1>2, <1>3, <1>7, <1>8, <1>9, <1>10

(* An encoder's update: the hardware follows, the count grows with asked.  *)
LEMMA AskInv ==
  ASSUME IInv, NEW e \in Encoders, Ask(e)
  PROVE  IInv'
<1>0. e \in users /\ e \notin asked \union waits /\ power = "on" /\ holder = None
  BY DEF Ask, Free, Update, IInv, PowerInv
<1>1. PICK s \in States, config \in BOOLEAN :
        /\ e # Primary => s \in {"IDLE", "CLK"} /\ ~config
        /\ Update(e, s, config)
  BY Zenon DEF Ask, States
<1>2. /\ state' \in [Clients -> States]
      /\ state'[Power] = "CLK"
      /\ \A d \in Externals : state'[d] \in {"IDLE", "CLK"}
      /\ \A d \in Encoders \ users : state'[d] = "IDLE"
      /\ rev >= 3 => state'[Primary] # "VID" /\ current' # "VID"
      /\ Reaches(e, Wanted') /\ Wanted' \in States \ {"IDLE"}
      /\ UNCHANGED <<rev, vblanks>>
  BY <1>0, <1>1, UpdateOn
<1>3. /\ current' = Wanted' /\ hw' \in States \ {"IDLE"} /\ refcount' = 1
      /\ failed' \in BOOLEAN
      /\ holder' = None \/ (holder' = e /\ current' = "CLK")
      /\ Told(e)
  BY <1>2, Zenon DEF Reaches
<1>4. power' = power /\ users' = users
  BY DEF Ask, clients
<1>5. TypeOK'
  <2>1. asked' \in {asked, asked \union {e}} /\ vsync_wait' \in Nat
    BY <1>3 DEF Told, IInv, TypeOK
  <2>2. holder' \in Clients \union {None}
    BY <1>3, ClientsAssumption DEF Clients
  <2>3. /\ asked' \subseteq users' /\ waits' \subseteq users' \ asked'
        /\ owes' \subseteq waits'
    BY <2>1, <1>0, <1>2, <1>4 DEF IInv, TypeOK, vblanks
  <2>4. refcount' \in {0, 1} /\ current' \in States /\ hw' \in States
    BY <1>2, <1>3
  <2> QED
    BY <1>2, <1>3, <1>4, <2>1, <2>2, <2>3, <2>4, Zenon DEF IInv, TypeOK
<1>6. PowerInv'
  BY <1>0, <1>2, <1>3, <1>4 DEF PowerInv
<1>7. HwInv'
  <2>1. current' # "IDLE" /\ hw' # "IDLE"
    BY <1>2, <1>3
  <2>2. refcount' = Vote(current' # "IDLE")
    BY <2>1, <1>3 DEF Vote
  <2>3. holder' # None => power' = "on" /\ current' = "CLK"
    BY <1>0, <1>3, <1>4
  <2> QED
    BY <2>1, <2>2, <2>3 DEF HwInv
<1>8. CountInv'
  <2>1. waits' = waits /\ owes' = owes /\ rev' = rev /\ rev \in Nat /\ vsync_wait \in Nat
    BY <1>2, RevsAssumption DEF vblanks, IInv, TypeOK
  <2>2. e \notin asked \union owes /\ asked \union owes \subseteq Encoders
    BY <1>0 DEF IInv, TypeOK
  <2>3. /\ (asked \union {e}) \union owes = (asked \union owes) \union {e}
        /\ Cardinality((asked \union owes) \union {e}) = Cardinality(asked \union owes) + 1
        /\ Cardinality(asked \union owes) \in Nat
    BY <2>2, OneMore, EncodersFinite
  <2>4. CountInv
    BY DEF IInv
  <2>5. CASE asked' = asked /\ vsync_wait' = vsync_wait
    BY <2>5, <2>1, <2>4, <1>2 DEF CountInv
  <2>6. CASE asked' = asked \union {e} /\ vsync_wait' = vsync_wait + 1
    <3>1. Cardinality(asked' \union owes') = Cardinality(asked \union owes) + 1
      BY <2>1, <2>3, <2>6
    <3>2. vsync_wait' <= Cardinality(asked' \union owes')
      BY <3>1, <2>1, <2>3, <2>4, <2>6 DEF CountInv
    <3>3. rev >= 3 => waits' = owes' /\ vsync_wait' = Cardinality(asked' \union owes')
      BY <3>1, <2>1, <2>3, <2>4, <2>6 DEF CountInv
    <3> QED
      BY <3>2, <3>3, <2>1, <1>2 DEF CountInv
  <2>7. CASE asked' = asked \union {e} /\ vsync_wait' = vsync_wait /\ rev < 3
    <3>1. Cardinality(asked' \union owes') = Cardinality(asked \union owes) + 1
      BY <2>1, <2>3, <2>7
    <3>2. vsync_wait' <= Cardinality(asked' \union owes')
      BY <3>1, <2>1, <2>3, <2>4, <2>7 DEF CountInv
    <3>3. ~(rev' >= 3)
      BY <2>1, <2>7
    <3> QED
      BY <3>2, <3>3 DEF CountInv
  <2> QED
    BY <1>3, <2>5, <2>6, <2>7 DEF Told
<1> QED
  BY <1>5, <1>6, <1>7, <1>8 DEF IInv

-----------------------------------------------------------------------------
(* Without a power reference nobody votes and nobody waits.                *)
LEMMA Unused ==
  ASSUME IInv, users = {}
  PROVE  /\ asked = {} /\ waits = {} /\ owes = {} /\ vsync_wait = 0
         /\ \A e \in Encoders : state[e] = "IDLE"
         /\ current \in {"IDLE", "CLK"}
         /\ power # "off" => current = "CLK"
<1>1. asked = {} /\ waits = {} /\ owes = {}
  BY DEF IInv, TypeOK
<1>2. asked \union owes = {}
  BY <1>1
<1>3. vsync_wait = 0
  BY <1>2, NothingCounted DEF IInv, TypeOK, CountInv
<1>4. \A e \in Encoders : state[e] = "IDLE"
  BY DEF IInv, PowerInv
<1>5. power # "off" => current = "CLK"
  BY <1>4, ClientsAssumption DEF IInv, PowerInv, Wanted, Encoders, Clients
<1> QED
  BY <1>1, <1>3, <1>4, <1>5 DEF IInv, PowerInv

(* What the power handle's update leaves when no display is on.            *)
Settles(s) ==
  /\ state' = [state EXCEPT ![Power] = s]
  /\ \/ current' = s /\ failed' = FALSE
     \/ current' = current /\ failed' = TRUE
  /\ current' \in {"IDLE", "CLK"}
  /\ hw' \in States /\ (hw' = "IDLE" <=> current' = "IDLE")
  /\ refcount' = Vote(current' # "IDLE")
  /\ holder' = None
  /\ UNCHANGED <<rev, vsync_wait, asked, vblanks, users>>

LEMMA SettlesInv ==
  ASSUME IInv, users = {}, NEW s \in {"IDLE", "CLK"}, Settles(s),
         power' \in {"off", "on", "undo"},
         power' # "off" => s = "CLK" /\ failed' = FALSE
  PROVE  IInv'
<1> USE DEF Settles
<1>1. /\ users' = {} /\ asked' = {} /\ waits' = {} /\ owes' = {}
      /\ vsync_wait' = 0 /\ rev' = rev
      /\ \A e \in Encoders : state[e] = "IDLE"
  BY Unused DEF vblanks
<1>2. /\ state \in [Clients -> States] /\ state' \in [Clients -> States]
      /\ state'[Power] = s
      /\ \A e \in Encoders : state'[e] = "IDLE"
  BY <1>1, ClientsAssumption DEF IInv, TypeOK, Clients, States
<1>3. Wanted' = s
  BY <1>2 DEF Wanted, Clients, Encoders
<1>4. TypeOK'
  <2>1. current' \in States /\ hw' \in States /\ failed' \in BOOLEAN
    BY DEF States
  <2>2. refcount' \in {0, 1} /\ holder' \in Clients \union {None}
    BY DEF Vote
  <2> QED
    BY <1>1, <1>2, <2>1, <2>2, Zenon DEF IInv, TypeOK
<1>5. PowerInv'
  <2>1. failed' \/ current' = Wanted'
    BY <1>3
  <2>2. power' # "off" => state'[Power] = "CLK" /\ current' = Wanted'
    BY <1>2, <1>3
  <2> QED
    BY <1>1, <1>2, <2>1, <2>2 DEF PowerInv, Encoders
<1>6. HwInv'
  BY DEF HwInv
<1>7. CountInv'
  <2>1. asked' \union owes' = {} /\ state'[Primary] = "IDLE"
    BY <1>1, <1>2 DEF Encoders
  <2> QED
    BY <2>1, <1>1, NothingCounted DEF CountInv
<1> QED
  BY <1>4, <1>5, <1>6, <1>7 DEF IInv

LEMMA PowerOnInv ==
  ASSUME IInv, PowerOn
  PROVE  IInv'
<1> DEFINE st == [state EXCEPT ![Power] = "CLK"]
<1>1. /\ power = "off" /\ users = {} /\ holder = None
      /\ \A e \in Encoders : state[e] = "IDLE"
      /\ vsync_wait = 0 /\ current \in {"IDLE", "CLK"}
  BY Unused DEF PowerOn, IInv, PowerInv, HwInv
<1>2. ~Shows(st, "VID") /\ ~Shows(st, "CMD")
  BY <1>1, ClientsAssumption DEF Shows, Clients, IInv, TypeOK
<1>3. /\ state' = st /\ rev' = rev /\ waits' = waits /\ owes' = owes
      /\ IF current = "CLK"
           THEN failed' = FALSE /\ UNCHANGED <<current, hw, refcount>> /\ NoWait
           ELSE SwitchToClk(Power, st)
  BY DEF PowerOn, Update, vblanks
<1>4. HwInv /\ hw \in States
  BY DEF IInv, TypeOK
<1>5. users' = users /\ power' \in IF failed' THEN {"off"} ELSE {"on", "undo"}
  BY DEF PowerOn
<1>6. /\ UNCHANGED <<vsync_wait, holder, asked>>
      /\ \/ current' = "CLK" /\ failed' = FALSE /\ hw' \in States \ {"IDLE"} /\ refcount' = 1
         \/ current = "IDLE" /\ current' = "IDLE" /\ failed' = TRUE
            /\ hw' = "IDLE" /\ refcount' = 0
  <2>1. CASE current = "CLK"
    <3>1. failed' = FALSE /\ UNCHANGED <<current, hw, refcount>> /\ NoWait
      BY <2>1, <1>3
    <3>2. hw # "IDLE" /\ refcount = 1
      BY <2>1, <1>4 DEF HwInv, Vote
    <3> QED
      BY <2>1, <3>1, <3>2, <1>4 DEF NoWait
  <2>2. CASE current = "IDLE"
    <3>1. SwitchToClk(Power, st)
      BY <2>2, <1>3
    <3>2. current \notin {"CMD", "VID"} /\ ~(vsync_wait > 0)
      BY <2>2, <1>1
    <3>3. /\ \/ Program("CLK") /\ Changed("CLK")
             \/ ProgramFails("CLK") /\ Kept(TRUE)
          /\ NoWait
      BY <1>2, <3>1, <3>2, Zenon DEF SwitchToClk
    <3>4. refcount = 0 /\ hw = "IDLE"
      BY <2>2, <1>4 DEF HwInv, Vote
    <3>5. Enabled = 1 /\ Vote("CLK" = "IDLE") = 0 /\ Vote(current = "IDLE") = 1
      BY <2>2, <3>4 DEF Enabled, Vote
    <3>6. CASE Program("CLK") /\ Changed("CLK")
      <4>1. current' = "CLK" /\ failed' = FALSE /\ hw' = "CLK" /\ refcount' = 1
        BY <3>5, <3>6 DEF Program, Changed
      <4> QED
        BY <3>3, <4>1 DEF NoWait, States
    <3>7. CASE ProgramFails("CLK") /\ Kept(TRUE)
      <4>1. current' = current /\ failed' = TRUE /\ hw' = hw /\ refcount' = 0
        BY <3>5, <3>7 DEF ProgramFails, Kept
      <4> QED
        BY <3>3, <3>4, <2>2, <4>1 DEF NoWait
    <3> QED
      BY <3>3, <3>6, <3>7
  <2> QED
    BY <1>1, <2>1, <2>2
<1>7. Settles("CLK")
  BY <1>1, <1>3, <1>5, <1>6 DEF Settles, Vote, States, vblanks
<1>8. power' \in {"off", "on", "undo"} /\ (power' # "off" => failed' = FALSE)
  BY <1>5, <1>6
<1> QED
  BY <1>1, <1>7, <1>8, SettlesInv

LEMMA PowerOffInv ==
  ASSUME IInv, PowerOff
  PROVE  IInv'
<1> DEFINE st == [state EXCEPT ![Power] = "IDLE"]
<1>1. /\ power # "off" /\ users = {} /\ holder = None
      /\ \A e \in Encoders : state[e] = "IDLE"
      /\ current = "CLK"
  BY Unused DEF PowerOff, Update, IInv, PowerInv
<1>2. ~Shows(st, "VID") /\ ~Shows(st, "CMD") /\ st[Power] = "IDLE"
  BY <1>1, ClientsAssumption DEF Shows, Clients, IInv, TypeOK
<1>3. /\ state' = st /\ rev' = rev /\ waits' = waits /\ owes' = owes
      /\ SwitchToIdle(Power, st)
  BY <1>1 DEF PowerOff, Update, vblanks
<1>4. HwInv /\ hw \in States
  BY DEF IInv, TypeOK
<1>5. /\ \/ Program("IDLE") /\ Changed("IDLE")
         \/ ProgramFails("IDLE") /\ Kept(TRUE)
      /\ NoWait
  BY <1>2, <1>3, Zenon DEF SwitchToIdle
<1>6. hw # "IDLE" /\ refcount = 1
  BY <1>1, <1>4 DEF HwInv, Vote
<1>7. Enabled = 1 /\ Vote("IDLE" = "IDLE") = 1 /\ Vote(current = "IDLE") = 0
  BY <1>1, <1>6 DEF Enabled, Vote
<1>8. \/ current' = "IDLE" /\ failed' = FALSE /\ hw' = "IDLE" /\ refcount' = 0
      \/ current' = "CLK" /\ failed' = TRUE /\ hw' = hw /\ refcount' = 1
  <2>1. CASE Program("IDLE") /\ Changed("IDLE")
    BY <1>7, <2>1 DEF Program, Changed
  <2>2. CASE ProgramFails("IDLE") /\ Kept(TRUE)
    BY <1>1, <1>6, <1>7, <2>2 DEF ProgramFails, Kept
  <2> QED
    BY <1>5, <2>1, <2>2
<1>9. power' = "off" /\ users' = users
  BY DEF PowerOff
<1>10. Settles("IDLE")
  BY <1>1, <1>3, <1>4, <1>5, <1>6, <1>8, <1>9 DEF Settles, Vote, States, vblanks, NoWait
<1> QED
  BY <1>1, <1>9, <1>10, SettlesInv

-----------------------------------------------------------------------------
(* The remaining steps leave the votes alone: with them Wanted.            *)
LEMMA SameVotes ==
  ASSUME PowerInv, UNCHANGED <<state, power, current>>,
         users \subseteq users', power = "on" \/ users' = {},
         failed' = failed \/ current = Wanted \/ (failed' /\ power = "on")
  PROVE  PowerInv'
BY DEF PowerInv, Wanted, MultiDisplay

(* The waiting update ends: the RSC has been in CLK all along.             *)
LEMMA WaitInv ==
  ASSUME IInv, WaitOver \/ WaitTimesOut
  PROVE  IInv'
<1>1. /\ holder # None /\ power = "on" /\ current = "CLK" /\ current = Wanted
      /\ refcount = 1 /\ hw # "IDLE"
  BY DEF WaitOver, WaitTimesOut, IInv, PowerInv, HwInv, Vote
<1>2. /\ UNCHANGED <<rev, current, hw, state, refcount, vsync_wait, asked, power, users,
                     waits, owes>>
      /\ holder' = None /\ failed' \in BOOLEAN
  <2>1. Vote(current = "IDLE") = 0 /\ refcount - 0 = refcount
    BY <1>1 DEF Vote
  <2>2. CASE WaitOver
    BY <1>1, <2>2, Zenon DEF WaitOver, clients, vblanks
  <2>3. CASE WaitTimesOut
    BY <2>1, <2>3, Zenon DEF WaitTimesOut, clients, vblanks
  <2> QED
    BY <2>2, <2>3
<1>3. TypeOK'
  BY <1>2, Zenon DEF IInv, TypeOK
<1>4. PowerInv'
  BY <1>1, <1>2, SameVotes DEF IInv
<1>5. HwInv'
  BY <1>1, <1>2 DEF IInv, HwInv, Vote
<1>6. CountInv'
  BY <1>2 DEF IInv, CountInv
<1> QED
  BY <1>3, <1>4, <1>5, <1>6 DEF IInv

LEMMA ReferenceInv ==
  ASSUME IInv, NEW e \in Encoders, GetPower(e) \/ PutPower(e)
  PROVE  IInv'
<1>1. /\ power = "on"
      /\ UNCHANGED <<rev, current, hw, refcount, failed, state, vsync_wait, holder,
                     asked, power, waits, owes>>
      /\ users' \subseteq Encoders /\ asked \subseteq users' /\ waits \subseteq users'
      /\ \A d \in Encoders \ users' : state[d] = "IDLE"
  BY DEF GetPower, PutPower, Free, IInv, TypeOK, PowerInv, rsc, vblanks
<1>2. TypeOK'
  BY <1>1, Zenon DEF IInv, TypeOK
<1>3. PowerInv'
  <2>1. current = Wanted /\ Wanted' = Wanted
    BY <1>1 DEF IInv, PowerInv, Wanted, MultiDisplay
  <2> QED
    BY <1>1, <2>1 DEF IInv, PowerInv
<1>4. HwInv'
  BY <1>1 DEF IInv, HwInv, Vote
<1>5. CountInv'
  BY <1>1 DEF IInv, CountInv
<1> QED
  BY <1>2, <1>3, <1>4, <1>5 DEF IInv

-----------------------------------------------------------------------------
(* The count is read: from version 3 on it is never zero then.             *)
LEMMA ReadRefcountInv ==
  ASSUME IInv, NEW e \in Encoders, ReadRefcount(e)
  PROVE  IInv'
<1>1. /\ e \in asked /\ asked' = asked \ {e} /\ waits' = waits \union {e}
      /\ owes' = IF vsync_wait > 0 THEN owes \union {e} ELSE owes
      /\ UNCHANGED <<rev, current, hw, refcount, failed, state, vsync_wait, holder,
                     power, users>>
  BY DEF ReadRefcount, rsc, clients
<1>2. /\ asked \subseteq users /\ waits \subseteq users \ asked /\ owes \subseteq waits
      /\ vsync_wait \in Nat /\ users \subseteq Encoders
      /\ rev \in Nat
  BY RevsAssumption DEF IInv, TypeOK
<1>3. TypeOK'
  <2>1. /\ asked' \subseteq users' /\ waits' \subseteq users' \ asked'
        /\ owes' \subseteq waits' /\ owes' \in {owes, owes \union {e}}
    BY <1>1, <1>2
  <2> QED
    BY <1>1, <2>1, Zenon DEF IInv, TypeOK
<1>4. PowerInv'
  BY <1>1, SameVotes DEF IInv, PowerInv
<1>5. HwInv'
  BY <1>1 DEF IInv, HwInv, Vote
<1>6. CountInv'
  <2>1. Cardinality(asked \union owes) # 0
    <3>1. (asked \union owes) \ {e} \subseteq Encoders /\ e \in asked \union owes
          /\ asked \union owes \subseteq Encoders
      BY <1>1, <1>2
    <3>2. /\ Cardinality((asked \union owes) \ {e}) = Cardinality(asked \union owes) - 1
          /\ Cardinality((asked \union owes) \ {e}) \in Nat
          /\ Cardinality(asked \union owes) \in Nat
      BY <3>1, OneLess, EncodersFinite
    <3> QED
      BY <3>2
  <2>2. CASE vsync_wait > 0
    <3>1. owes' = owes \union {e} /\ asked' \union owes' = asked \union owes
      BY <1>1, <2>2
    <3>2. rev >= 3 => waits' = owes'
      BY <3>1, <1>1 DEF IInv, CountInv
    <3> QED
      BY <3>1, <3>2, <1>1 DEF IInv, CountInv
  <2>3. CASE vsync_wait = 0
    <3>1. ~(rev >= 3)
      BY <2>1, <2>3 DEF IInv, CountInv
    <3>2. asked' \union owes' \subseteq Encoders
      BY <1>1, <1>2
    <3>3. Cardinality(asked' \union owes') \in Nat
      BY <3>2, EncodersFinite
    <3>4. vsync_wait' = 0 /\ rev' = rev
      BY <1>1, <2>3
    <3> QED
      BY <3>1, <3>3, <3>4 DEF CountInv
  <2> QED
    BY <1>2, <2>2, <2>3
<1> QED
  BY <1>3, <1>4, <1>5, <1>6 DEF IInv

(* The wait ends and takes back what it has read.                          *)
LEMMA VblankDoneInv ==
  ASSUME IInv, NEW e \in Encoders, VblankDone(e)
  PROVE  IInv'
<1>1. /\ e \in waits /\ waits' = waits \ {e} /\ owes' = owes \ {e}
      /\ vsync_wait' = vsync_wait - Vote(e \in owes /\ vsync_wait > 0)
      /\ UNCHANGED <<rev, current, hw, refcount, failed, state, asked, holder,
                     power, users>>
  BY DEF VblankDone, rsc, clients
<1>2. /\ asked \subseteq users /\ waits \subseteq users \ asked /\ owes \subseteq waits
      /\ vsync_wait \in Nat /\ users \subseteq Encoders
  BY DEF IInv, TypeOK
<1>3. TypeOK'
  <2>1. /\ asked' \subseteq users' /\ waits' \subseteq users' \ asked'
        /\ owes' \subseteq waits'
    BY <1>1, <1>2
  <2>2. vsync_wait' \in Nat
    BY <1>1, <1>2 DEF Vote
  <2> QED
    BY <1>1, <2>1, <2>2, Zenon DEF IInv, TypeOK
<1>4. PowerInv'
  BY <1>1, SameVotes DEF IInv, PowerInv
<1>5. HwInv'
  BY <1>1 DEF IInv, HwInv, Vote
<1>6. CountInv'
  <2>1. CASE e \in owes
    <3>1. /\ asked \union owes \subseteq Encoders /\ e \in asked \union owes
          /\ asked' \union owes' = (asked \union owes) \ {e}
          /\ (asked \union owes) \ {e} \subseteq Encoders
      BY <1>1, <1>2, <2>1
    <3>2. /\ Cardinality(asked' \union owes') = Cardinality(asked \union owes) - 1
          /\ Cardinality(asked \union owes) \in Nat
          /\ Cardinality(asked' \union owes') \in Nat
      BY <3>1, OneLess, EncodersFinite
    <3>3. vsync_wait' = IF vsync_wait > 0 THEN vsync_wait - 1 ELSE 0
      BY <1>1, <1>2, <2>1 DEF Vote
    <3>4. vsync_wait' <= Cardinality(asked' \union owes')
      BY <1>2, <3>2, <3>3 DEF IInv, CountInv
    <3>5. rev >= 3 => vsync_wait' = Cardinality(asked' \union owes')
      BY <1>2, <3>2, <3>3 DEF IInv, CountInv
    <3>6. rev >= 3 => waits' = owes'
      BY <1>1 DEF IInv, CountInv
    <3> QED
      BY <1>1, <3>4, <3>5, <3>6 DEF IInv, CountInv
  <2>2. CASE e \notin owes
    <3>1. owes' = owes /\ vsync_wait' = vsync_wait
      BY <1>1, <1>2, <2>2 DEF Vote
    <3>2. ~(rev >= 3)
      BY <1>1, <2>2 DEF IInv, CountInv
    <3> QED
      BY <1>1, <3>1, <3>2 DEF IInv, CountInv
  <2> QED
    BY <2>1, <2>2
<1> QED
  BY <1>3, <1>4, <1>5, <1>6 DEF IInv

LEMMA StutterInv ==
  ASSUME IInv, UNCHANGED vars
  PROVE  IInv'
BY DEF IInv, TypeOK, PowerInv, HwInv, CountInv, Wanted, MultiDisplay, Vote,
       vars, rsc, clients, vblanks

-----------------------------------------------------------------------------
(* The inductive invariant, for any displays and versions.                 *)
THEOREM Invariance == Spec => []IInv
<1>1. Init => IInv
  BY InitInv
<1>2. IInv /\ [Next]_vars => IInv'
  <2> SUFFICES ASSUME IInv, [Next]_vars PROVE IInv'
    OBVIOUS
  <2>1. CASE WaitOver \/ WaitTimesOut
    BY <2>1, WaitInv
  <2>2. CASE PowerOn
    BY <2>2, PowerOnInv
  <2>3. CASE PowerOff
    BY <2>3, PowerOffInv
  <2>4. ASSUME NEW e \in Encoders, Encoder(e) PROVE IInv'
    <3>1. CASE Ask(e)
      BY <3>1, AskInv
    <3>2. CASE GetPower(e) \/ PutPower(e)
      BY <3>2, ReferenceInv
    <3>3. CASE ReadRefcount(e)
      BY <3>3, ReadRefcountInv
    <3>4. CASE VblankDone(e)
      BY <3>4, VblankDoneInv
    <3> QED
      BY <2>4, <3>1, <3>2, <3>3, <3>4 DEF Encoder
  <2>5. CASE UNCHANGED vars
    BY <2>5, StutterInv
  <2> QED
    BY <2>1, <2>2, <2>3, <2>4, <2>5 DEF Next
<1> QED
  BY <1>1, <1>2, PTL DEF Spec

(* The variables of the RSC and its clients keep their types.              *)
THEOREM TypeCorrect == Spec => []TypeOK
<1>1. IInv => TypeOK
  BY DEF IInv
<1> QED
  BY <1>1, Invariance, PTL

(* After sde_rsc_client_state_update has succeeded the RSC is in the state *)
(* that all votes together ask for, whatever was refused before.           *)
THEOREM FollowsVotes == Spec => []StateFollowsVotes
<1>1. IInv => StateFollowsVotes
  BY DEF IInv, PowerInv, StateFollowsVotes, TypeOK
<1> QED
  BY <1>1, Invariance, PTL

(* sde_rsc_switch_to_idle never collapses the hardware under a display     *)
(* that votes: the power handle's vote is there as long as the display's.  *)
THEOREM NeverCollapsed == Spec => []NoCollapseUnderDisplay
<1>1. IInv => NoCollapseUnderDisplay
  <2> SUFFICES ASSUME IInv, hw = "IDLE", NEW e \in Encoders PROVE state[e] = "IDLE"
    BY DEF NoCollapseUnderDisplay
  <2>1. current = "IDLE"
    BY DEF IInv, HwInv
  <2>2. power = "on" => Wanted # "IDLE"
    BY DEF IInv, PowerInv, Wanted, Clients
  <2>3. users = {}
    BY <2>1, <2>2 DEF IInv, PowerInv
  <2> QED
    BY <2>3 DEF IInv, PowerInv
<1> QED
  BY <1>1, Invariance, PTL

(* The RSC's clocks are on exactly while it is out of its collapse.        *)
THEOREM ResourcesPowered == Spec => []PoweredWhileActive
<1>1. IInv => PoweredWhileActive
  BY DEF IInv, HwInv, PoweredWhileActive, Vote
<1> QED
  BY <1>1, Invariance, PTL

(* rsc_vsync_wait never counts a wait that is over, and from version 3 on  *)
(* every wait that has read it takes back its own count.                   *)
THEOREM VsyncCount == Spec => []VsyncWaitExact
<1>1. IInv => VsyncWaitExact
  <2> SUFFICES ASSUME IInv, rev >= 3 PROVE Cardinality(owes) <= vsync_wait
    BY DEF IInv, CountInv, VsyncWaitExact
  <2>1. /\ owes \subseteq Encoders /\ asked \union owes \subseteq Encoders
        /\ owes \subseteq asked \union owes
    BY DEF IInv, TypeOK
  <2>2. Cardinality(owes) <= Cardinality(asked \union owes)
    BY <2>1, EncodersFinite, FS_Subset
  <2> QED
    BY <2>2 DEF IInv, CountInv
<1> QED
  BY <1>1, Invariance, PTL

=============================================================================
