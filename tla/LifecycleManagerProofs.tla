------------------------ MODULE LifecycleManagerProofs ------------------------
(***************************************************************************)
(* Theorems about the lifecycle manager, for every list of nodes and every *)
(* number of crashes and commands: its types, that nothing counts as       *)
(* active that nobody watches, and that a takedown reaches every node it   *)
(* does not give up on.  The invariant follows a bringup node by node:     *)
(* those activated have their bonds, and a formed bond is that of an       *)
(* active node, but for the moment between a deactivation and its check.   *)
(***************************************************************************)
EXTENDS LifecycleManager, TLAPS

\* A command that takes nodes down has marked the system inactive.
DownInv == mgr.cmd \in {"pause", "reset", "hard_reset", "shutdown"} => ~system_active

\* The node at hand has been deactivated and its bond is not yet dropped.
Dropping(n) == Running /\ mgr.at = "check" /\ Transition = "deactivate" /\ n = Node
                 /\ lc[n] = "inactive"

BondInv == \A n \in Nodes : bond_map[n] = "formed" => lc[n] = "active" \/ Dropping(n)

\* A bringup that activates nodes has bonds with those behind it.
BringupInv ==
  mgr.cmd \in {"startup", "resume"} /\ Transition = "activate" =>
    \A j \in 1..(mgr.i - 1) : bond_map[node_names[j]] # "none"

WatchInv == system_active => bond_timer /\ \A n \in Nodes : bond_map[n] # "none"

IInv == TypeOK /\ DownInv /\ BondInv /\ BringupInv /\ WatchInv

Bonds == [Nodes -> {"none", "unformed", "formed", "stale", "broken"}]
Cmds  == {"startup", "resume", "pause", "reset", "hard_reset", "shutdown"}

LEMMA Names == /\ N \in Nat /\ N > 0
               /\ \A j \in 1..N : node_names[j] \in Nodes
               /\ \A n \in Nodes : \E j \in 1..N : n = node_names[j]
BY ManagerAssumption DEF N, Nodes

LEMMA Limits ==
  /\ MaxPolls \in Nat /\ MaxPolls > 0 /\ attempt_respawn_reconnection \in BOOLEAN
  /\ MaxCommands \in Nat /\ MaxFaults \in Nat
BY ManagerAssumption

LEMMA Plans ==
  /\ DOMAIN Plan = Cmds
  /\ \A c \in Cmds : /\ Len(Plan[c]) \in 1..3 /\ DOMAIN Plan[c] = 1..Len(Plan[c])
                     /\ \A s \in DOMAIN Plan[c] : Plan[c][s] \in DOMAIN Target
  /\ Len(Plan["startup"]) = 2 /\ Plan["startup"][1] = "configure" /\ Plan["startup"][2] = "activate"
  /\ Len(Plan["resume"]) = 1 /\ Plan["resume"][1] = "activate"
BY DEF Plan, Cmds, Target

LEMMA Targets ==
  /\ DOMAIN Target = {"configure", "activate", "deactivate", "cleanup", "shutdown"}
  /\ DOMAIN Source = DOMAIN Target
  /\ \A t \in DOMAIN Target :
       /\ Target[t] \in {"unconfigured", "inactive", "active", "finalized"}
       /\ Source[t] \in {"unconfigured", "inactive", "active"}
       /\ Source[t] = "active" <=> t = "deactivate"
  /\ Target["deactivate"] = "inactive"
BY DEF Target, Source

\* What the command at hand does next is one of its transitions, with one of the nodes.
LEMMA AtHand == ASSUME TypeOK, Running
                PROVE  Transition \in DOMAIN Target /\ Place \in 1..N /\ Node \in Nodes
<1>1. mgr.cmd \in Cmds /\ mgr.step \in DOMAIN Plan[mgr.cmd] /\ mgr.i \in 1..N
  BY Plans DEF TypeOK, Running
<1>2. Transition \in DOMAIN Target BY <1>1, Plans DEF Transition
<1>3. Place \in 1..N BY <1>1, Names DEF Place
<1> QED BY <1>2, <1>3, Names DEF Node

\* A bringup takes the nodes in the order of the list.
LEMMA BringupGoesDown ==
  ASSUME TypeOK, mgr.cmd \in {"startup", "resume"}
  PROVE  Running /\ Node = node_names[mgr.i]
<1>1. Running BY Plans DEF Running, Cmds
<1>2. Transition \in {"configure", "activate"}
  BY <1>1, Plans DEF Transition, TypeOK
<1> QED BY <1>1, <1>2 DEF Node, Place

-----------------------------------------------------------------------------
\* The ways on from a node: to the next one, to the next transition, to the end of the
\* command, or to a failure.
LEMMA Ways ==
  ASSUME TypeOK, Running, NEW bonds, NEW ok \in BOOLEAN, NEW thrown \in BOOLEAN,
         Proceed(bonds, ok, thrown)
  PROVE  /\ polls' = polls
         /\ \/ /\ GoesOn(ok, thrown) /\ mgr.i < N
               /\ mgr' = [mgr EXCEPT !.i = @ + 1, !.at = "request"]
               /\ bond_map' = bonds
               /\ UNCHANGED <<system_active, bond_timer, respawn_timer, clients>>
            \/ /\ mgr.step < Len(Plan[mgr.cmd])
               /\ mgr' = [mgr EXCEPT !.step = @ + 1, !.i = 1, !.at = "request"]
               /\ bond_map' = bonds
               /\ UNCHANGED <<system_active, bond_timer, respawn_timer, clients>>
            \/ /\ mgr' = Idle /\ Complete(bonds)
               /\ \/ mgr.cmd \in {"shutdown", "hard_reset"}
                  \/ GoesOn(ok, thrown) /\ mgr.i = N /\ mgr.step = Len(Plan[mgr.cmd])
            \/ /\ mgr' = Idle /\ bond_map' = bonds
               /\ UNCHANGED <<system_active, bond_timer, respawn_timer, clients>>
<1> DEFINE go   == GoesOn(ok, thrown)
           more == mgr.step < Len(Plan[mgr.cmd])
<1>1. /\ mgr.cmd \in Cmds /\ mgr.i \in 1..N /\ mgr.step \in 1..Len(Plan[mgr.cmd])
      /\ Len(Plan[mgr.cmd]) \in 1..3
      /\ mgr = [cmd |-> mgr.cmd, step |-> mgr.step, i |-> mgr.i, at |-> mgr.at]
  BY Plans DEF TypeOK, Running
<1>2. ASSUME NEW m, m.cmd = mgr.cmd PROVE m # Idle
  BY <1>1, <1>2 DEF Idle, Cmds
<1>3. polls' = polls BY DEF Proceed
<1>4. CASE go /\ mgr.i < N
  <2>1. mgr' = [mgr EXCEPT !.i = @ + 1, !.at = "request"] BY <1>4 DEF Proceed
  <2>2. mgr' # Idle BY <1>1, <1>2, <2>1
  <2> QED BY <1>3, <1>4, <2>1, <2>2 DEF Proceed
<1>5. CASE ~(go /\ mgr.i < N) /\ (go \/ mgr.cmd = "shutdown") /\ more
  <2>1. mgr' = [mgr EXCEPT !.step = @ + 1, !.i = 1, !.at = "request"] BY <1>5 DEF Proceed
  <2>2. mgr' # Idle BY <1>1, <1>2, <2>1
  <2> QED BY <1>3, <1>5, <2>1, <2>2 DEF Proceed
<1>6. CASE ~(go /\ mgr.i < N) /\ ~((go \/ mgr.cmd = "shutdown") /\ more)
  <2>1. mgr' = Idle BY <1>6 DEF Proceed
  <2>2. CASE go \/ mgr.cmd \in {"shutdown", "hard_reset"}
    <3>1. Complete(bonds) BY <2>1, <2>2 DEF Proceed
    <3>2. go => mgr.i = N /\ mgr.step = Len(Plan[mgr.cmd])
      BY <1>1, <1>6, Names
    <3> QED BY <1>3, <2>1, <2>2, <3>1, <3>2
  <2>3. CASE ~(go \/ mgr.cmd \in {"shutdown", "hard_reset"})
    BY <1>3, <2>1, <2>3 DEF Proceed
  <2> QED BY <2>2, <2>3
<1> QED BY <1>4, <1>5, <1>6

\* Going on keeps the invariant when the bonds it leaves are those of active nodes, and a
\* node that was activated has one.
LEMMA ProceedNext ==
  ASSUME IInv, Running, NEW bonds \in Bonds, NEW ok \in BOOLEAN, NEW thrown \in BOOLEAN,
         Proceed(bonds, ok, thrown), UNCHANGED <<lc, commands>>, faults' \in 0..MaxFaults,
         \A n \in Nodes : bonds[n] = "formed" => lc[n] = "active",
         \A n \in Nodes : bonds[n] = "none" => bond_map[n] = "none" \/ Transition = "deactivate",
         ok /\ Transition = "activate" => bonds[Node] # "none"
  PROVE  IInv'
<1>1. /\ TypeOK /\ DownInv /\ BringupInv /\ WatchInv BY DEF IInv
<1>2. /\ mgr.cmd \in Cmds /\ mgr.i \in 1..N /\ mgr.step \in 1..Len(Plan[mgr.cmd])
      /\ Len(Plan[mgr.cmd]) \in 1..3
      /\ mgr \in [cmd : DOMAIN Plan \cup {"idle", "dead"}, step : 1..3, i : 1..N,
                  at : {"request", "answer", "check", "bond", "hung"}]
  BY Plans DEF TypeOK, Running, IInv
<1>2a. mgr.step < Len(Plan[mgr.cmd]) => mgr.step + 1 \in 1..3
  <2> DEFINE length == Len(Plan[mgr.cmd])
  <2>1. length \in 1..3 /\ mgr.step \in 1..length BY <1>2
  <2> HIDE DEF length
  <2>2. mgr.step < length => mgr.step + 1 \in 1..3 BY <2>1
  <2> QED BY <2>2 DEF length
<1>3. Transition # "deactivate" \/ ~system_active
  BY <1>1, <1>2, Plans DEF DownInv, Transition, Cmds
<1>4. mgr.cmd \in {"startup", "resume"} => GoesOn(ok, thrown) = ok
  BY DEF GoesOn
<1>5. system_active => \A n \in Nodes : bonds[n] # "none"
  BY <1>1, <1>3 DEF WatchInv
<1>6. CASE /\ GoesOn(ok, thrown) /\ mgr.i < N
           /\ mgr' = [mgr EXCEPT !.i = @ + 1, !.at = "request"]
           /\ bond_map' = bonds /\ polls' = polls
           /\ UNCHANGED <<system_active, bond_timer, respawn_timer, clients>>
  <2>1. mgr' = [cmd |-> mgr.cmd, step |-> mgr.step, i |-> mgr.i + 1, at |-> "request"]
    BY <1>2, <1>6
  <2>2. TypeOK' BY <1>1, <1>2, <1>6, <2>1, Names, Plans DEF TypeOK, Bonds, Running
  <2>3. BondInv' BY <1>6 DEF BondInv
  <2>4. BringupInv'
    <3> SUFFICES ASSUME mgr.cmd \in {"startup", "resume"}, Transition = "activate",
                        NEW j \in 1..mgr.i
                 PROVE  bonds[node_names[j]] # "none"
      BY <1>2, <1>6, <2>1 DEF BringupInv, Transition
    <3>1. CASE j < mgr.i
      <4>1. bond_map[node_names[j]] # "none" BY <1>1, <1>2, <3>1 DEF BringupInv
      <4> QED BY <1>2, <4>1, Names
    <3>2. CASE j = mgr.i
      BY <1>1, <1>4, <1>6, <3>2, BringupGoesDown
    <3> QED BY <1>2, <3>1, <3>2
  <2>5. DownInv' /\ WatchInv' BY <1>1, <1>5, <1>6, <2>1 DEF DownInv, WatchInv
  <2> QED BY <2>2, <2>3, <2>4, <2>5 DEF IInv
<1>7. CASE /\ mgr.step < Len(Plan[mgr.cmd])
           /\ mgr' = [mgr EXCEPT !.step = @ + 1, !.i = 1, !.at = "request"]
           /\ bond_map' = bonds /\ polls' = polls
           /\ UNCHANGED <<system_active, bond_timer, respawn_timer, clients>>
  <2>1. mgr' = [cmd |-> mgr.cmd, step |-> mgr.step + 1, i |-> 1, at |-> "request"]
    BY <1>2, <1>7
  <2>2. TypeOK'
    <3>1. /\ mgr' \in [cmd : DOMAIN Plan \cup {"idle", "dead"}, step : 1..3, i : 1..N,
                       at : {"request", "answer", "check", "bond", "hung"}]
      <4>1. mgr.step + 1 \in 1..3 BY <1>2a, <1>7
      <4>3. 1 \in 1..N BY Names
      <4>2. mgr.cmd \in DOMAIN Plan BY <1>2, Plans
      <4> QED BY <2>1, <4>1, <4>2, <4>3
    <3>2. Running' => mgr'.step \in DOMAIN Plan[mgr'.cmd]
      BY <1>2, <1>7, <2>1, Plans
    <3> QED BY <1>1, <1>7, <3>1, <3>2 DEF TypeOK, Bonds
  <2>3. BondInv' BY <1>7 DEF BondInv
  <2>4. BringupInv' BY <2>1 DEF BringupInv
  <2>5. DownInv' /\ WatchInv' BY <1>1, <1>5, <1>7, <2>1 DEF DownInv, WatchInv
  <2> QED BY <2>2, <2>3, <2>4, <2>5 DEF IInv
<1>8. CASE /\ mgr' = Idle /\ Complete(bonds) /\ polls' = polls
           /\ \/ mgr.cmd \in {"shutdown", "hard_reset"}
              \/ GoesOn(ok, thrown) /\ mgr.i = N /\ mgr.step = Len(Plan[mgr.cmd])
  <2>1. /\ mgr'.cmd = "idle" /\ mgr' \in [cmd : {"idle"}, step : {1}, i : {1}, at : {"request"}]
    BY <1>8 DEF Idle
  <2>2. TypeOK'
    <3>1. /\ ~Running'
          /\ mgr' \in [cmd : DOMAIN Plan \cup {"idle", "dead"}, step : 1..3, i : 1..N,
                       at : {"request", "answer", "check", "bond", "hung"}]
      BY <2>1, Names, Plans DEF Running, Cmds
    <3>2. bond_map' \in Bonds
      BY <1>8 DEF Complete, Bonds
    <3>3. {system_active', bond_timer', clients'} \subseteq BOOLEAN
      BY <1>1, <1>8 DEF TypeOK, Complete, createBondTimer
    <3>4. respawn_timer' \in BOOLEAN
      BY <1>1, <1>8, ManagerAssumption DEF TypeOK, Complete, createRespawnTimer
    <3> QED BY <1>1, <1>8, <3>1, <3>2, <3>3, <3>4 DEF TypeOK, Bonds
  <2>3. BondInv' BY <1>8 DEF BondInv, Complete
  <2>4. BringupInv' /\ DownInv' BY <2>1 DEF BringupInv, DownInv
  <2>5. WatchInv'
    <3>1. CASE mgr.cmd \in {"startup", "resume"}
      <4>1. GoesOn(ok, thrown) /\ mgr.i = N /\ mgr.step = Len(Plan[mgr.cmd]) BY <1>8, <3>1
      <4>2. Transition = "activate" BY <3>1, <4>1, Plans DEF Transition
      <4>3. Running /\ Node = node_names[N] BY <1>1, <3>1, <4>1, BringupGoesDown
      <4>4. \A j \in 1..N : bonds[node_names[j]] # "none"
        <5> TAKE j \in 1..N
        <5>1. CASE j < N
          <6>1. j \in 1..(mgr.i - 1) BY <4>1, <5>1, Names
          <6>2. bond_map[node_names[j]] # "none" BY <1>1, <3>1, <4>2, <6>1 DEF BringupInv
          <6> QED BY <4>2, <6>2, Names
        <5>2. CASE j = N BY <1>4, <3>1, <4>1, <4>2, <4>3, <5>2
        <5> QED BY <5>1, <5>2, Names
      <4>5. bond_map' = bonds /\ bond_timer' BY <1>8, <3>1 DEF Complete, createBondTimer
      <4> QED BY <4>4, <4>5, Names DEF WatchInv
    <3>2. CASE mgr.cmd \notin {"startup", "resume"}
      <4>1. ~system_active BY <1>1, <1>2, <3>2 DEF DownInv, Cmds
      <4>2. ~system_active' BY <1>8, <3>2, <4>1 DEF Complete
      <4> QED BY <4>2 DEF WatchInv
    <3> QED BY <3>1, <3>2
  <2> QED BY <2>2, <2>3, <2>4, <2>5 DEF IInv
<1>9. CASE /\ mgr' = Idle /\ bond_map' = bonds /\ polls' = polls
           /\ UNCHANGED <<system_active, bond_timer, respawn_timer, clients>>
  <2>1. /\ mgr'.cmd = "idle" /\ mgr' \in [cmd : {"idle"}, step : {1}, i : {1}, at : {"request"}]
    BY <1>9 DEF Idle
  <2>2. TypeOK' BY <1>1, <1>2, <1>9, <2>1, Names, Plans DEF TypeOK, Bonds, Running, Cmds
  <2>3. BondInv' BY <1>9 DEF BondInv
  <2>4. BringupInv' /\ DownInv' BY <2>1 DEF BringupInv, DownInv
  <2>5. WatchInv' BY <1>1, <1>5, <1>9 DEF WatchInv
  <2> QED BY <2>2, <2>3, <2>4, <2>5 DEF IInv
<1> QED BY <1>1, <1>6, <1>7, <1>8, <1>9, Ways

-----------------------------------------------------------------------------
(* The steps. *)

\* A command that begins: only a bringup leaves the system marked as it is.
LEMMA BeginNext ==
  ASSUME IInv, NEW c \in Cmds, Begin(c), mgr = Idle, UNCHANGED <<lc, bond_map, polls, clients>>,
         commands' \in 0..MaxCommands, UNCHANGED <<respawn_timer, faults>>
  PROVE  IInv'
<1>1. mgr' = [cmd |-> c, step |-> 1, i |-> 1, at |-> "request"] BY DEF Begin, Run
<1>2. TypeOK'
  <2>1. /\ mgr' \in [cmd : DOMAIN Plan \cup {"idle", "dead"}, step : 1..3, i : 1..N,
                     at : {"request", "answer", "check", "bond", "hung"}]
    <3>1. 1 \in 1..N /\ 1 \in 1..3 /\ c \in DOMAIN Plan BY Names, Plans
    <3> QED BY <1>1, <3>1
  <2>2. mgr'.step \in DOMAIN Plan[mgr'.cmd] BY <1>1, Plans
  <2>3. {system_active', bond_timer'} \subseteq BOOLEAN BY DEF Begin, IInv, TypeOK
  <2> QED BY <2>1, <2>2, <2>3 DEF IInv, TypeOK
<1>3. DownInv' BY <1>1 DEF Begin, DownInv
<1>4. BondInv' BY DEF IInv, BondInv, Dropping, Running, Idle, Plan
<1>5. BringupInv' BY <1>1 DEF BringupInv
<1>6. WatchInv' BY DEF IInv, WatchInv, Begin
<1> QED BY <1>2, <1>3, <1>4, <1>5, <1>6 DEF IInv

\* The manager that follows a null pointer is at its end.
LEMMA Dies ==
  ASSUME IInv, mgr = Idle, mgr' = Dead,
         UNCHANGED <<lc, bond_map, system_active, bond_timer, respawn_timer, polls, clients, faults>>,
         commands' \in 0..MaxCommands
  PROVE  IInv'
<1>1. mgr' = [cmd |-> "dead", step |-> 1, i |-> 1, at |-> "request"] BY DEF Dead, Idle
<1>2. TypeOK'
  <2>1. mgr' \in [cmd : DOMAIN Plan \cup {"idle", "dead"}, step : 1..3, i : 1..N,
                  at : {"request", "answer", "check", "bond", "hung"}]
    BY <1>1, Names
  <2>2. ~Running' BY <1>1, Plans DEF Running, Cmds
  <2> QED BY <2>1, <2>2 DEF IInv, TypeOK
<1>3. BondInv' BY DEF IInv, BondInv, Dropping, Running, Idle, Plan
<1> QED BY <1>1, <1>2, <1>3 DEF IInv, DownInv, BringupInv, WatchInv

\* A step within the command at hand that leaves the manager's variables alone.
LEMMA MovesOn ==
  ASSUME IInv, Running, NEW a \in {"answer", "check", "bond", "hung"}, mgr' = [mgr EXCEPT !.at = a],
         UNCHANGED <<system_active, bond_timer, respawn_timer, polls, clients>>
  PROVE  /\ mgr' \in [cmd : DOMAIN Plan \cup {"idle", "dead"}, step : 1..3, i : 1..N,
                       at : {"request", "answer", "check", "bond", "hung"}]
         /\ mgr'.cmd = mgr.cmd /\ mgr'.step = mgr.step /\ mgr'.i = mgr.i /\ mgr'.at = a
         /\ Running' /\ mgr'.step \in DOMAIN Plan[mgr'.cmd]
         /\ Transition' = Transition /\ Node' = Node
<1>1. mgr \in [cmd : DOMAIN Plan \cup {"idle", "dead"}, step : 1..3, i : 1..N,
               at : {"request", "answer", "check", "bond", "hung"}]
  BY DEF IInv, TypeOK
<1>2. mgr' = [cmd |-> mgr.cmd, step |-> mgr.step, i |-> mgr.i, at |-> a] BY <1>1
<1>3. mgr.cmd \in DOMAIN Plan /\ mgr.step \in DOMAIN Plan[mgr.cmd] BY DEF IInv, TypeOK, Running
<1> QED BY <1>1, <1>2, <1>3 DEF Running, Transition, Node, Place

LEMMA RequestNext == ASSUME IInv, RequestChange PROVE IInv'
<1>1. Running /\ mgr.at = "request" /\ UNCHANGED <<lc, commands, faults>> BY DEF RequestChange
<1>2. \A n \in Nodes : ~Dropping(n) BY <1>1 DEF Dropping
<1>3. CASE lc[Node] = "down"
  <2>1. Proceed(bond_map, FALSE, TRUE) BY <1>3 DEF RequestChange
  <2>2. bond_map \in Bonds /\ faults' \in 0..MaxFaults BY <1>1 DEF IInv, TypeOK, Bonds
  <2>3. \A n \in Nodes : bond_map[n] = "formed" => lc[n] = "active" BY <1>2 DEF IInv, BondInv
  <2> QED BY <1>1, <2>1, <2>2, <2>3, ProceedNext
<1>4. CASE lc[Node] # "down"
  <2>1. /\ mgr' = [mgr EXCEPT !.at = "answer"]
        /\ UNCHANGED <<bond_map, system_active, bond_timer, respawn_timer, polls, clients>>
    BY <1>4 DEF RequestChange
  <2>2. TypeOK' BY <1>1, <2>1, MovesOn DEF IInv, TypeOK
  <2>3. BondInv' BY <1>1, <1>2, <2>1 DEF IInv, BondInv
  <2>4. DownInv' /\ BringupInv' /\ WatchInv'
    BY <1>1, <2>1, MovesOn DEF IInv, DownInv, BringupInv, WatchInv
  <2> QED BY <2>2, <2>3, <2>4 DEF IInv
<1> QED BY <1>3, <1>4

LEMMA AnswerNext == ASSUME IInv, AnswerChange PROVE IInv'
<1>1. /\ Running /\ mgr.at = "answer" /\ mgr' = [mgr EXCEPT !.at = "check"]
      /\ UNCHANGED <<bond_map, system_active, bond_timer, respawn_timer, polls, clients, commands>>
  BY DEF AnswerChange
<1>2. Transition \in DOMAIN Target /\ Node \in Nodes BY <1>1, AtHand DEF IInv
<1>3. \/ lc' = lc
      \/ /\ lc[Node] = Source[Transition]
         /\ lc' = [lc EXCEPT ![Node] = Target[Transition]]
  BY DEF AnswerChange
<1>4. lc \in [Nodes -> {"down", "unconfigured", "inactive", "active", "finalized"}]
  BY DEF IInv, TypeOK
<1>5. lc' \in [Nodes -> {"down", "unconfigured", "inactive", "active", "finalized"}]
  BY <1>2, <1>3, <1>4, Targets
<1>6. faults' \in 0..MaxFaults BY Limits DEF AnswerChange, IInv, TypeOK
<1>7. TypeOK' BY <1>1, <1>5, <1>6, MovesOn DEF IInv, TypeOK
<1>8. BondInv'
  <2> SUFFICES ASSUME NEW n \in Nodes, bond_map[n] = "formed" PROVE lc'[n] = "active" \/ Dropping(n)'
    BY <1>1 DEF BondInv
  <2>1. lc[n] = "active" BY <1>1 DEF IInv, BondInv, Dropping
  <2>2. CASE n # Node \/ lc' = lc BY <1>2, <1>3, <1>4, <2>1, <2>2
  <2>3. CASE n = Node /\ lc' # lc
    <3>1. Transition = "deactivate" /\ lc'[n] = "inactive"
      BY <1>2, <1>3, <1>4, <2>1, <2>3, Targets
    <3> QED BY <1>1, <2>3, <3>1, MovesOn DEF Dropping
  <2> QED BY <2>2, <2>3
<1>9. DownInv' /\ BringupInv' /\ WatchInv'
  BY <1>1, MovesOn DEF IInv, DownInv, BringupInv, WatchInv
<1> QED BY <1>7, <1>8, <1>9 DEF IInv

LEMMA CheckNext == ASSUME IInv, CheckState PROVE IInv'
<1>1. Running /\ mgr.at = "check" /\ UNCHANGED <<lc, commands, faults>> BY DEF CheckState
<1>2. Transition \in DOMAIN Target /\ Node \in Nodes BY <1>1, AtHand DEF IInv
<1>3. bond_map \in Bonds /\ faults' \in 0..MaxFaults BY <1>1 DEF IInv, TypeOK, Bonds
<1>4. CASE lc[Node] # Target[Transition]
  <2>1. \E thrown \in BOOLEAN : Proceed(bond_map, FALSE, thrown)
    BY <1>2, <1>4, Targets DEF CheckState
  <2>2. \A n \in Nodes : bond_map[n] = "formed" => lc[n] = "active"
    BY <1>4, Targets DEF IInv, BondInv, Dropping
  <2> QED BY <1>1, <1>3, <2>1, <2>2, ProceedNext
<1>5. CASE lc[Node] = Target[Transition] /\ Transition = "activate"
  <2>1. /\ mgr' = [mgr EXCEPT !.at = "bond"]
        /\ UNCHANGED <<bond_map, system_active, bond_timer, respawn_timer, polls, clients>>
    BY <1>2, <1>5, Targets DEF CheckState
  <2>2. TypeOK' BY <1>1, <2>1, MovesOn DEF IInv, TypeOK
  <2>3. BondInv' BY <1>1, <1>5, <2>1 DEF IInv, BondInv, Dropping
  <2>4. DownInv' /\ BringupInv' /\ WatchInv'
    BY <1>1, <2>1, MovesOn DEF IInv, DownInv, BringupInv, WatchInv
  <2> QED BY <2>2, <2>3, <2>4 DEF IInv
<1>6. CASE lc[Node] = Target[Transition] /\ Transition # "activate"
  <2> DEFINE bonds == IF Transition = "deactivate" THEN [bond_map EXCEPT ![Node] = "none"]
                      ELSE bond_map
  <2>1. Proceed(bonds, TRUE, FALSE) BY <1>2, <1>6, Targets DEF CheckState
  <2>2. bonds \in Bonds BY <1>3 DEF Bonds
  <2>3. \A n \in Nodes : bonds[n] = "formed" => lc[n] = "active"
    BY <1>2, <1>3 DEF IInv, BondInv, Dropping, Bonds
  <2>4. \A n \in Nodes : bonds[n] = "none" => bond_map[n] = "none" \/ Transition = "deactivate"
    OBVIOUS
  <2> HIDE DEF bonds
  <2> QED BY <1>1, <1>3, <1>6, <2>1, <2>2, <2>3, <2>4, ProceedNext
<1> QED BY <1>4, <1>5, <1>6

LEMMA BondNext == ASSUME IInv, createBondConnection PROVE IInv'
<1>1. Running /\ mgr.at = "bond" /\ UNCHANGED <<lc, commands>> BY DEF createBondConnection
<1>2. Node \in Nodes BY <1>1, AtHand DEF IInv
<1>3. bond_map \in Bonds BY DEF IInv, TypeOK, Bonds
<1>4. \A n \in Nodes : bond_map[n] = "formed" => lc[n] = "active"
  BY <1>1 DEF IInv, BondInv, Dropping
<1>5. faults' \in 0..MaxFaults
  <2>1. faults' = faults \/ (faults > 0 /\ faults' = faults - 1) BY DEF createBondConnection
  <2>2. faults \in 0..MaxFaults BY DEF IInv, TypeOK
  <2> QED BY <2>1, <2>2, Limits
<1>6. CASE bond_map[Node] # "none" /\ Proceed(bond_map, TRUE, FALSE)
  BY <1>1, <1>3, <1>4, <1>5, <1>6, ProceedNext
<1>7. ASSUME NEW how \in {"formed", "unformed"}, NEW ok \in BOOLEAN,
             how = "formed" => lc[Node] = "active",
             Proceed([bond_map EXCEPT ![Node] = how], ok, FALSE)
      PROVE  IInv'
  <2> DEFINE bonds == [bond_map EXCEPT ![Node] = how]
  <2>1. bonds \in Bonds BY <1>2, <1>3 DEF Bonds
  <2>2. \A n \in Nodes : bonds[n] = "formed" => lc[n] = "active"
    BY <1>2, <1>3, <1>4, <1>7 DEF Bonds
  <2>3. \A n \in Nodes : bonds[n] = "none" => bond_map[n] = "none" BY <1>2, <1>3, <1>7 DEF Bonds
  <2>4. bonds[Node] # "none" BY <1>2, <1>3, <1>7 DEF Bonds
  <2>5. Proceed(bonds, ok, FALSE) BY <1>7
  <2> HIDE DEF bonds
  <2> QED BY <1>1, <1>5, <2>1, <2>2, <2>3, <2>4, <2>5, ProceedNext
<1> QED BY <1>6, <1>7 DEF createBondConnection

LEMMA CrashNext == ASSUME IInv, NEW n \in Nodes, Crash(n) PROVE IInv'
<1>1. /\ lc' = [lc EXCEPT ![n] = "down"]
      /\ bond_map' = IF bond_map[n] = "formed" THEN [bond_map EXCEPT ![n] = "stale"] ELSE bond_map
      /\ UNCHANGED <<system_active, bond_timer, respawn_timer, polls, clients, commands>>
  BY DEF Crash
<1>2. /\ lc \in [Nodes -> {"down", "unconfigured", "inactive", "active", "finalized"}]
      /\ bond_map \in Bonds
  BY DEF IInv, TypeOK, Bonds
<1>3. /\ lc' \in [Nodes -> {"down", "unconfigured", "inactive", "active", "finalized"}]
      /\ bond_map' \in Bonds /\ faults' \in 0..MaxFaults
  BY <1>1, <1>2, Limits DEF Crash, IInv, TypeOK, Bonds
<1>4. /\ \A m \in Nodes : bond_map'[m] = "none" <=> bond_map[m] = "none"
      /\ \A m \in Nodes : bond_map'[m] = "formed" => bond_map[m] = "formed" /\ m # n /\ lc'[m] = lc[m]
  BY <1>1, <1>2 DEF Bonds
<1>5. CASE mgr' = mgr
  <2>1. TypeOK' BY <1>1, <1>3, <1>5 DEF IInv, TypeOK, Running, Bonds
  <2>2. BondInv' BY <1>4, <1>5 DEF IInv, BondInv, Dropping, Running, Transition, Node, Place
  <2>3. BringupInv'
    <3> SUFFICES ASSUME mgr.cmd \in {"startup", "resume"}, Transition = "activate",
                        NEW j \in 1..(mgr.i - 1)
                 PROVE  bond_map'[node_names[j]] # "none"
      BY <1>5 DEF BringupInv, Transition
    <3>1. j \in 1..N BY Names DEF IInv, TypeOK
    <3>2. bond_map[node_names[j]] # "none" BY DEF IInv, BringupInv
    <3> QED BY <1>4, <3>1, <3>2, Names
  <2>4. DownInv' /\ WatchInv' BY <1>1, <1>4, <1>5 DEF IInv, DownInv, WatchInv
  <2> QED BY <2>1, <2>2, <2>3, <2>4 DEF IInv
<1>6. CASE Running /\ mgr.at = "answer" /\ mgr' = [mgr EXCEPT !.at = "hung"]
  <2>1. TypeOK' BY <1>1, <1>3, <1>6, MovesOn DEF IInv, TypeOK, Bonds
  <2>2. BondInv' BY <1>4, <1>6 DEF IInv, BondInv, Dropping
  <2>3. BringupInv'
    <3> SUFFICES ASSUME mgr.cmd \in {"startup", "resume"}, Transition = "activate",
                        NEW j \in 1..(mgr.i - 1)
                 PROVE  bond_map'[node_names[j]] # "none"
      BY <1>1, <1>6, MovesOn DEF BringupInv
    <3>1. j \in 1..N BY Names DEF IInv, TypeOK
    <3>2. bond_map[node_names[j]] # "none" BY DEF IInv, BringupInv
    <3> QED BY <1>4, <3>1, <3>2, Names
  <2>4. DownInv' /\ WatchInv' BY <1>1, <1>4, <1>6, MovesOn DEF IInv, DownInv, WatchInv
  <2> QED BY <2>1, <2>2, <2>3, <2>4 DEF IInv
<1> QED BY <1>5, <1>6 DEF Crash

LEMMA RestartNext == ASSUME IInv, NEW n \in Nodes, Restart(n) PROVE IInv'
<1>1. lc[n] = "down" /\ lc' = [lc EXCEPT ![n] = "unconfigured"]
      /\ UNCHANGED <<bond_map, mgr, system_active, bond_timer, respawn_timer, polls, clients,
                     commands, faults>>
  BY DEF Restart, mgrVars
<1>2. TypeOK' BY <1>1 DEF IInv, TypeOK, Running
<1>3. BondInv'
  BY <1>1 DEF IInv, TypeOK, BondInv, Dropping, Running, Transition, Node, Place
<1> QED BY <1>1, <1>2, <1>3 DEF IInv, DownInv, BringupInv, WatchInv, Transition

LEMMA BreakNext == ASSUME IInv, NEW n \in Nodes, BondBreaks(n) PROVE IInv'
<1>1. /\ bond_map' = [bond_map EXCEPT ![n] = "broken"] /\ bond_map[n] # "none"
      /\ UNCHANGED <<lc, mgr, system_active, bond_timer, respawn_timer, polls, clients, commands>>
  BY DEF BondBreaks, mgrVars
<1>2. faults' \in 0..MaxFaults /\ bond_map \in Bonds
  BY Limits DEF BondBreaks, IInv, TypeOK, Bonds
<1>3. TypeOK' BY <1>1, <1>2 DEF IInv, TypeOK, Running, Bonds
<1>4. BondInv'
  BY <1>1, <1>2 DEF IInv, BondInv, Dropping, Running, Transition, Node, Place, Bonds
<1>5. \A m \in Nodes : bond_map'[m] = "none" <=> bond_map[m] = "none" BY <1>1, <1>2 DEF Bonds
<1>6. BringupInv'
  <2> SUFFICES ASSUME mgr.cmd \in {"startup", "resume"}, Transition = "activate",
                      NEW j \in 1..(mgr.i - 1)
               PROVE  bond_map'[node_names[j]] # "none"
    BY <1>1 DEF BringupInv, Transition
  <2>1. j \in 1..N BY Names DEF IInv, TypeOK
  <2>2. bond_map[node_names[j]] # "none" BY DEF IInv, BringupInv
  <2> QED BY <1>5, <2>1, <2>2, Names
<1> QED BY <1>1, <1>3, <1>4, <1>5, <1>6 DEF IInv, DownInv, WatchInv

LEMMA PollNext == ASSUME IInv, checkBondRespawnConnection PROVE IInv'
<1>1. mgr = Idle /\ UNCHANGED <<lc, bond_map, system_active, bond_timer, clients, commands, faults>>
  BY DEF checkBondRespawnConnection
<1>2. polls' \in 0..(MaxPolls - 1) /\ respawn_timer' \in BOOLEAN
  <2>1. polls \in 0..(MaxPolls - 1) /\ respawn_timer \in BOOLEAN BY DEF IInv, TypeOK
  <2>2. polls' \in {0, polls} \/ (polls + 1 < MaxPolls /\ polls' = polls + 1)
    BY DEF checkBondRespawnConnection
  <2> DEFINE more == polls + 1 < MaxPolls
  <2>3. respawn_timer' \in {FALSE, respawn_timer} \/ respawn_timer' = more
    BY DEF checkBondRespawnConnection
  <2>4. more \in BOOLEAN OBVIOUS
  <2>5. respawn_timer' \in BOOLEAN
    <3> HIDE DEF more
    <3> QED BY <2>1, <2>3, <2>4
  <2> QED BY <2>1, <2>2, <2>5, Limits
<1>3. mgr' = Idle \/ mgr' = Dead \/ mgr' = Run("startup") BY <1>1 DEF checkBondRespawnConnection
<1>4. /\ mgr' \in [cmd : DOMAIN Plan \cup {"idle", "dead"}, step : 1..3, i : 1..N,
                    at : {"request", "answer", "check", "bond", "hung"}]
      /\ mgr'.cmd \in {"idle", "dead", "startup"} /\ mgr'.i = 1 /\ mgr'.step = 1
  <2>1. 1 \in 1..N /\ 1 \in 1..3 /\ "startup" \in DOMAIN Plan BY Names, Plans DEF Cmds
  <2> QED BY <1>3, <2>1 DEF Idle, Dead, Run
<1>5. Running' => mgr'.step \in DOMAIN Plan[mgr'.cmd] BY <1>4, Plans DEF Running
<1>6. TypeOK' BY <1>1, <1>2, <1>4, <1>5 DEF IInv, TypeOK
<1>7. BondInv' BY <1>1 DEF IInv, BondInv, Dropping, Running, Idle, Plan
<1> QED BY <1>1, <1>4, <1>6, <1>7 DEF IInv, DownInv, BringupInv, WatchInv

LEMMA Invariance == Spec => []IInv
<1>1. Init => IInv
  <2> SUFFICES ASSUME Init PROVE IInv OBVIOUS
  <2>1. mgr = [cmd |-> "startup", step |-> 1, i |-> 1, at |-> "request"] BY DEF Init, Run
  <2>2. TypeOK
    <3>1. 1 \in 1..N /\ 1 \in 1..3 /\ "startup" \in DOMAIN Plan BY Names, Plans DEF Cmds
    <3>2. mgr.step \in DOMAIN Plan[mgr.cmd] BY <2>1, Plans
    <3>3. mgr \in [cmd : DOMAIN Plan \cup {"idle", "dead"}, step : 1..3, i : 1..N,
                   at : {"request", "answer", "check", "bond", "hung"}]
      BY <2>1, <3>1
    <3>4. lc \in [Nodes -> {"down", "unconfigured", "inactive", "active", "finalized"}]
          /\ bond_map \in [Nodes -> {"none", "unformed", "formed", "stale", "broken"}]
      BY DEF Init
    <3>5. polls \in 0..(MaxPolls - 1) /\ commands \in 0..MaxCommands /\ faults \in 0..MaxFaults
      BY Limits DEF Init
    <3>6. {system_active, bond_timer, respawn_timer, clients} \subseteq BOOLEAN BY DEF Init
    <3> QED BY <3>2, <3>3, <3>4, <3>5, <3>6 DEF TypeOK
  <2> QED BY <2>1, <2>2 DEF Init, IInv, DownInv, BondInv, BringupInv, WatchInv
<1>2. IInv /\ [Next]_vars => IInv'
  <2> SUFFICES ASSUME IInv, [Next]_vars PROVE IInv' OBVIOUS
  <2>1. ASSUME NEW c \in Requests, managerCallback(c) PROVE IInv'
    <3>1. mgr = Idle /\ commands' \in 0..MaxCommands
          /\ UNCHANGED <<lc, bond_map, respawn_timer, polls, clients, faults>>
      BY <2>1, Limits DEF managerCallback, IInv, TypeOK
    <3>2. c \in Cmds BY DEF Requests, Cmds
    <3>3. CASE clients BY <2>1, <3>1, <3>2, <3>3, BeginNext DEF managerCallback
    <3>4. CASE ~clients BY <2>1, <3>1, <3>4, Dies DEF managerCallback
    <3> QED BY <3>3, <3>4
  <2>2. CASE ManagerSteps BY <2>2, RequestNext, CheckNext, BondNext DEF ManagerSteps
  <2>3. CASE AnswerChange BY <2>3, AnswerNext
  <2>4. CASE checkBondConnections
    <3>1. mgr = Idle /\ commands' \in 0..MaxCommands
          /\ UNCHANGED <<lc, bond_map, respawn_timer, polls, clients, faults>>
      BY <2>4 DEF checkBondConnections, IInv, TypeOK
    <3>2. Begin("hard_reset") \/ (mgr' = Dead /\ UNCHANGED <<system_active, bond_timer>>)
      BY <2>4 DEF checkBondConnections
    <3> QED BY <3>1, <3>2, BeginNext, Dies DEF Cmds
  <2>5. CASE checkBondRespawnConnection BY <2>5, PollNext
  <2>6. CASE \E n \in Nodes : Crash(n) \/ Restart(n) \/ BondBreaks(n)
    BY <2>6, CrashNext, RestartNext, BreakNext
  <2>7. CASE UNCHANGED vars
    BY <2>7 DEF vars, mgrVars, IInv, TypeOK, DownInv, BondInv, BringupInv, WatchInv, Dropping,
                Running, Transition, Node, Place
  <2> QED BY <2>1, <2>2, <2>3, <2>4, <2>5, <2>6, <2>7 DEF Next
<1> QED BY <1>1, <1>2, PTL DEF Spec

\* Every reachable state of the manager, its nodes and their bonds is well typed.
THEOREM TypeCorrect == Spec => []TypeOK
BY Invariance, PTL DEF IInv

\* While the system counts as active, every node is watched over a bond that tells of it.
THEOREM Watched == Spec => []ActiveIsWatched
<1>1. IInv => ActiveIsWatched
  <2> SUFFICES ASSUME IInv, system_active, NEW n \in Nodes, bond_map[n] = "formed"
               PROVE  lc[n] = "active"
    BY DEF IInv, WatchInv, ActiveIsWatched
  <2>1. CASE Dropping(n)
    <3>1. mgr.cmd \in Cmds /\ mgr.step \in DOMAIN Plan[mgr.cmd] /\ Transition = "deactivate"
      BY <2>1, Plans DEF Dropping, Running, IInv, TypeOK
    <3>2. mgr.cmd \notin {"startup", "resume"} BY <3>1, Plans DEF Transition
    <3> QED BY <3>1, <3>2 DEF IInv, DownInv, Cmds
  <2> QED BY <2>1 DEF IInv, BondInv
<1> QED BY <1>1, Invariance, PTL
-----------------------------------------------------------------------------
(* The takedown.                                                           *)

\* A takedown goes up the list: only nodes it has not reached are active, and none is
\* once it cleans up.
ResetInv ==
  mgr.cmd = "hard_reset" =>
    /\ mgr.at # "bond"
    /\ \A j \in 1..N : lc[node_names[j]] = "active" =>
         mgr.step = 1 /\ j <= N + 1 - mgr.i /\ (mgr.at = "check" => j < N + 1 - mgr.i)

LEMMA HardReset ==
  ASSUME TypeOK, mgr.cmd = "hard_reset"
  PROVE  /\ Running /\ Place = N + 1 - mgr.i /\ Node = node_names[Place]
         /\ mgr.i \in 1..N /\ N \in Nat /\ mgr.step \in 1..2 /\ Len(Plan[mgr.cmd]) = 2
         /\ Transition = IF mgr.step = 1 THEN "deactivate" ELSE "cleanup"
         /\ mgr = [cmd |-> "hard_reset", step |-> mgr.step, i |-> mgr.i, at |-> mgr.at]
<1>1. /\ Len(Plan["hard_reset"]) = 2 /\ "hard_reset" \in DOMAIN Plan
      /\ DOMAIN Plan["hard_reset"] = 1..2
      /\ Plan["hard_reset"][1] = "deactivate" /\ Plan["hard_reset"][2] = "cleanup"
  BY DEF Plan
<1>2. Running /\ mgr.step \in 1..2 BY <1>1 DEF Running, TypeOK
<1>3. Transition = IF mgr.step = 1 THEN "deactivate" ELSE "cleanup" BY <1>1, <1>2 DEF Transition
<1>4. Place = N + 1 - mgr.i BY <1>3 DEF Place
<1>5. /\ mgr.i \in 1..N
      /\ mgr = [cmd |-> mgr.cmd, step |-> mgr.step, i |-> mgr.i, at |-> mgr.at]
  BY DEF TypeOK
<1> QED BY <1>1, <1>2, <1>3, <1>4, <1>5, Names DEF Node

\* A takedown goes on past a node that is not active, and gives up on one that is down.
LEMMA ResetProceeds ==
  ASSUME TypeOK, ResetInv, mgr.cmd = "hard_reset", UNCHANGED lc,
         NEW bonds, NEW ok \in BOOLEAN, NEW thrown \in BOOLEAN, Proceed(bonds, ok, thrown),
         IF GoesOn(ok, thrown) THEN mgr.at = "check" ELSE lc[Node] = "down"
  PROVE  /\ ResetInv'
         /\ mgr' = Idle =>
              \A j \in 1..N : lc[node_names[j]] = "active" => lc[Node] = "down" /\ j < Place
<1> DEFINE go == GoesOn(ok, thrown)
<1>1. /\ Place = N + 1 - mgr.i /\ Node = node_names[Place] /\ mgr.i \in 1..N /\ N \in Nat
      /\ mgr.step \in 1..2 /\ Len(Plan[mgr.cmd]) = 2
      /\ mgr = [cmd |-> "hard_reset", step |-> mgr.step, i |-> mgr.i, at |-> mgr.at]
  BY HardReset
<1>2. /\ go \in BOOLEAN /\ (go => mgr.at = "check") /\ (~go => lc[Node] = "down")
      /\ mgr' = CASE go /\ mgr.i < N -> [mgr EXCEPT !.i = @ + 1, !.at = "request"]
                  [] ~(go /\ mgr.i < N) /\ go /\ mgr.step < 2 ->
                       [mgr EXCEPT !.step = @ + 1, !.i = 1, !.at = "request"]
                  [] OTHER -> Idle
  BY <1>1 DEF Proceed, GoesOn
<1> HIDE DEF go
<1>3. \A j \in 1..N : lc[node_names[j]] = "active" =>
         mgr.step = 1 /\ j <= Place /\ (mgr.at = "check" => j < Place)
  BY <1>1 DEF ResetInv
<1>4. CASE go /\ mgr.i < N
  <2>1. mgr' = [cmd |-> "hard_reset", step |-> mgr.step, i |-> mgr.i + 1, at |-> "request"]
    BY <1>1, <1>2, <1>4
  <2>2. \A j \in 1..N : lc'[node_names[j]] = "active" => mgr.step = 1 /\ j <= N + 1 - (mgr.i + 1)
    BY <1>1, <1>2, <1>3, <1>4
  <2>3. ResetInv' BY <2>1, <2>2 DEF ResetInv
  <2> QED BY <2>1, <2>3 DEF Idle
<1>5. CASE ~(go /\ mgr.i < N) /\ go /\ mgr.step < 2
  <2>1. mgr' = [cmd |-> "hard_reset", step |-> mgr.step + 1, i |-> 1, at |-> "request"]
    BY <1>1, <1>2, <1>5
  <2>2. Place = 1 BY <1>1, <1>5
  <2>3. \A j \in 1..N : lc'[node_names[j]] # "active" BY <1>2, <1>3, <1>5, <2>2
  <2>4. ResetInv' BY <2>1, <2>3 DEF ResetInv
  <2> QED BY <2>1, <2>4 DEF Idle
<1>6. CASE ~(go /\ mgr.i < N) /\ ~(go /\ mgr.step < 2)
  <2>1. mgr' = Idle BY <1>2, <1>6
  <2>2. ResetInv' BY <2>1 DEF ResetInv, Idle
  <2>3. ASSUME NEW j \in 1..N, lc[node_names[j]] = "active" PROVE lc[Node] = "down" /\ j < Place
    <3>1. mgr.step = 1 /\ j <= Place BY <1>3, <2>3
    <3>2. CASE go
      <4>1. mgr.step = 2 BY <1>1, <1>6, <3>2
      <4> QED BY <3>1, <4>1
    <3>3. CASE ~go
      <4>1. lc[Node] = "down" BY <1>2, <3>3
      <4>2. j # Place BY <1>1, <2>3, <4>1
      <4> QED BY <1>1, <3>1, <4>1, <4>2
    <3> QED BY <1>2, <3>2, <3>3
  <2> QED BY <2>2, <2>3
<1> QED BY <1>2, <1>4, <1>5, <1>6

LEMMA ResetSteps ==
  ASSUME IInv, ResetInv, [Next]_vars
  PROVE  /\ ResetInv'
         /\ mgr.cmd = "hard_reset" /\ mgr' = Idle =>
              \A j \in 1..N : lc[node_names[j]] = "active" => lc[Node] = "down" /\ j < Place
<1>0. /\ TypeOK /\ Idle.cmd = "idle" /\ Dead.cmd = "dead"
      /\ lc \in [Nodes -> {"down", "unconfigured", "inactive", "active", "finalized"}]
  BY DEF IInv, TypeOK, Idle, Dead
<1>1. ASSUME Begin("hard_reset"), UNCHANGED lc PROVE ResetInv'
  <2>1. mgr' = [cmd |-> "hard_reset", step |-> 1, i |-> 1, at |-> "request"]
    BY <1>1 DEF Begin, Run
  <2>2. \A j \in 1..N : j <= N + 1 - 1 BY Names
  <2> QED BY <2>1, <2>2 DEF ResetInv
<1>2. ASSUME NEW c \in Requests, managerCallback(c) PROVE ResetInv' /\ mgr.cmd = "idle"
  <2>1. mgr = Idle /\ (mgr' = Run(c) \/ mgr' = Dead) BY <1>2 DEF managerCallback, Begin
  <2>2. mgr'.cmd # "hard_reset" BY <1>0, <2>1 DEF Run, Requests
  <2> QED BY <1>0, <2>1, <2>2 DEF ResetInv
<1>3. CASE checkBondConnections
  <2>1. mgr = Idle /\ UNCHANGED lc /\ (Begin("hard_reset") \/ mgr' = Dead)
    BY <1>3 DEF checkBondConnections
  <2>2. mgr' = Dead => ResetInv' BY <1>0 DEF ResetInv
  <2> QED BY <1>0, <1>1, <2>1, <2>2
<1>4. CASE checkBondRespawnConnection
  <2>1. mgr = Idle /\ (mgr' = mgr \/ mgr' = Dead \/ mgr' = Run("startup"))
    BY <1>4 DEF checkBondRespawnConnection
  <2>2. mgr'.cmd # "hard_reset" BY <1>0, <2>1 DEF Run
  <2> QED BY <1>0, <2>1, <2>2 DEF ResetInv
<1>5. CASE ManagerSteps /\ mgr.cmd = "hard_reset"
  <2>1. Running /\ UNCHANGED lc /\ Place \in 1..N
        /\ Transition \in {"deactivate", "cleanup"} /\ mgr.at # "bond"
    BY <1>0, <1>5, HardReset, AtHand
       DEF ManagerSteps, RequestChange, CheckState, createBondConnection, ResetInv
  <2>2. CASE RequestChange
    <3>1. CASE lc[Node] = "down"
      <4>1. Proceed(bond_map, FALSE, TRUE) /\ ~GoesOn(FALSE, TRUE)
        BY <2>2, <3>1 DEF RequestChange, GoesOn
      <4> QED BY <1>0, <1>5, <2>1, <3>1, <4>1, ResetProceeds
    <3>2. CASE lc[Node] # "down"
      <4>1. mgr' = [mgr EXCEPT !.at = "answer"] BY <2>2, <3>2 DEF RequestChange
      <4>2. mgr' = [cmd |-> "hard_reset", step |-> mgr.step, i |-> mgr.i, at |-> "answer"]
        BY <1>0, <1>5, <4>1, HardReset
      <4> QED BY <1>0, <1>5, <2>1, <4>2 DEF ResetInv
    <3> QED BY <3>1, <3>2
  <2>3. CASE CheckState
    <3>1. mgr.at = "check" BY <2>3 DEF CheckState
    <3>2. CASE lc[Node] = "down"
      <4>1. Proceed(bond_map, FALSE, TRUE) /\ ~GoesOn(FALSE, TRUE)
        BY <2>3, <3>2, Targets DEF CheckState, GoesOn, Target
      <4> QED BY <1>0, <1>5, <2>1, <3>2, <4>1, ResetProceeds
    <3>3. CASE lc[Node] \notin {"down", Target[Transition]}
      <4>1. Proceed(bond_map, FALSE, FALSE) /\ GoesOn(FALSE, FALSE)
        BY <1>5, <2>3, <3>3 DEF CheckState, GoesOn
      <4> QED BY <1>0, <1>5, <2>1, <3>1, <4>1, ResetProceeds
    <3>4. CASE lc[Node] # "down" /\ lc[Node] = Target[Transition]
      <4>1. PICK bonds : Proceed(bonds, TRUE, FALSE)
        BY <2>1, <2>3, <3>4 DEF CheckState
      <4>2. GoesOn(TRUE, FALSE) BY DEF GoesOn
      <4> QED BY <1>0, <1>5, <2>1, <3>1, <4>1, <4>2, ResetProceeds
    <3> QED BY <3>2, <3>3, <3>4
  <2> QED BY <1>5, <2>1, <2>2, <2>3 DEF ManagerSteps, createBondConnection
<1>6. CASE ManagerSteps /\ mgr.cmd # "hard_reset"
  <2>1. Running BY <1>6 DEF ManagerSteps, RequestChange, CheckState, createBondConnection
  <2>2. mgr'.cmd = mgr.cmd \/ mgr' = Idle
    <3>1. ASSUME NEW a PROVE [mgr EXCEPT !.at = a].cmd = mgr.cmd BY <1>0 DEF TypeOK
    <3>2. ASSUME NEW bonds, NEW ok, NEW thrown, Proceed(bonds, ok, thrown)
          PROVE  mgr'.cmd = mgr.cmd \/ mgr' = Idle
      BY <1>0, <3>2 DEF TypeOK, Proceed
    <3> QED BY <1>6, <3>1, <3>2
        DEF ManagerSteps, RequestChange, CheckState, createBondConnection
  <2> QED BY <1>0, <1>6, <2>2 DEF ResetInv
<1>7. CASE AnswerChange
  <2>1. Running /\ mgr' = [mgr EXCEPT !.at = "check"] /\ mgr'.cmd = mgr.cmd
    BY <1>0, <1>7 DEF AnswerChange, TypeOK
  <2>2. mgr' # Idle
    <3>1. mgr.cmd # "idle" BY <2>1, Plans DEF Running, Cmds
    <3> QED BY <1>0, <2>1, <3>1
  <2>3. ResetInv'
    <3> SUFFICES ASSUME mgr.cmd = "hard_reset" PROVE ResetInv' BY <2>1 DEF ResetInv
    <3>1. /\ Place = N + 1 - mgr.i /\ Node = node_names[Place] /\ mgr.i \in 1..N /\ N \in Nat
          /\ mgr' = [cmd |-> "hard_reset", step |-> mgr.step, i |-> mgr.i, at |-> "check"]
          /\ Transition \in {"deactivate", "cleanup"}
      BY <1>0, <2>1, HardReset
    <3>2. Node \in Nodes BY <1>0, <2>1, AtHand
    <3>3. lc' = IF lc[Node] = Source[Transition]
                THEN [lc EXCEPT ![Node] = Target[Transition]] ELSE lc
      BY <1>7, <3>1 DEF AnswerChange
    <3>4. Target[Transition] # "active" /\ (lc[Node] = "active" => mgr.step = 1)
      <4>1. Place \in 1..N BY <3>1
      <4> QED BY <3>1, <4>1 DEF Target, ResetInv
    <3>5. lc[Node] = "active" => lc[Node] = Source[Transition]
      BY <1>0, <3>1, <3>4, HardReset DEF Source
    <3>6. lc'[Node] # "active" BY <1>0, <3>2, <3>3, <3>4, <3>5
    <3>7. ASSUME NEW j \in 1..N, lc'[node_names[j]] = "active"
          PROVE  mgr.step = 1 /\ j <= N + 1 - mgr.i /\ j < N + 1 - mgr.i
      <4>1. j # Place BY <3>1, <3>6, <3>7
      <4>2. node_names[j] \in Nodes /\ node_names[j] # Node BY <3>1, <3>6, <3>7, Names
      <4>3. lc[node_names[j]] = "active" BY <1>0, <3>2, <3>3, <3>7, <4>2
      <4>4. mgr.step = 1 /\ j <= Place BY <3>1, <4>3 DEF ResetInv
      <4> QED BY <3>1, <4>1, <4>4
    <3> QED BY <3>1, <3>7 DEF ResetInv
  <2> QED BY <2>2, <2>3
<1>8. ASSUME mgr' = mgr \/ (mgr.at = "answer" /\ mgr' = [mgr EXCEPT !.at = "hung"]),
             \A j \in 1..N : lc'[node_names[j]] = "active" => lc[node_names[j]] = "active"
      PROVE  ResetInv' /\ (mgr.cmd = "hard_reset" => mgr' # Idle)
  <2>1. mgr'.cmd = mgr.cmd /\ mgr'.step = mgr.step /\ mgr'.i = mgr.i
        /\ mgr'.at \in {mgr.at, "hung"}
    BY <1>0, <1>8 DEF TypeOK
  <2> QED BY <1>0, <1>8, <2>1 DEF ResetInv
<1>9. CASE \E n \in Nodes : Crash(n) \/ Restart(n) \/ BondBreaks(n)
  <2>1. PICK n \in Nodes : Crash(n) \/ Restart(n) \/ BondBreaks(n) BY <1>9
  <2>2. mgr' = mgr \/ (mgr.at = "answer" /\ mgr' = [mgr EXCEPT !.at = "hung"])
    BY <2>1 DEF Crash, Restart, BondBreaks, mgrVars
  <2>3. lc' = lc \/ lc' = [lc EXCEPT ![n] = "down"] \/ lc' = [lc EXCEPT ![n] = "unconfigured"]
    BY <2>1 DEF Crash, Restart, BondBreaks
  <2>4. \A m \in Nodes : lc'[m] = "active" => lc[m] = "active" BY <1>0, <2>3
  <2> QED BY <1>8, <2>2, <2>4, Names
<1>10. CASE UNCHANGED vars BY <1>8, <1>10 DEF vars, mgrVars
<1> QED BY <1>0, <1>2, <1>3, <1>4, <1>5, <1>6, <1>7, <1>9, <1>10 DEF Next

\* "If one is down, bring them all down": whatever crashes and returns meanwhile, a
\* takedown leaves no node active but those before one it gave up on.
THEOREM TakesDown == Spec => TakeDownReachesAll
<1>1. Init => ResetInv BY DEF Init, Run, ResetInv
<1>2. IInv /\ ResetInv /\ [Next]_vars =>
        /\ ResetInv'
        /\ [mgr.cmd = "hard_reset" /\ mgr' = Idle =>
              \A i \in 1..N : lc[node_names[i]] = "active" => lc[Node] = "down" /\ i < Place]_vars
  BY ResetSteps
<1> QED BY <1>1, <1>2, Invariance, PTL DEF Spec, TakeDownReachesAll
===============================================================================
