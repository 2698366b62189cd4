---------------------------- MODULE LifecycleManager ----------------------------
(***************************************************************************)
(* nav2_lifecycle_manager as the launch file starts it: it brings up the   *)
(* planner and the controller server, watches them over bonds, takes all   *)
(* down when one falls silent, and starts all again when all are back.     *)
(*                                                                         *)
(* Commands, bond checks and respawn polls share one callback group: one   *)
(* runs to its end before the next begins.  A state change of a node is a  *)
(* request, the node's answer, a second request for its state and, after   *)
(* an activation, the forming of a bond; a node may crash between any two. *)
(* Waiting for a service ends by a timeout, waiting for an answer to a     *)
(* change does not.  A node that is back before the timeout was never gone *)
(* for the manager, so the timeouts are choices, not clocks.               *)
(***************************************************************************)
EXTENDS Integers, Sequences

CONSTANTS
  node_names,         \* the managed nodes, in the order of bringup
  MaxPolls,           \* polls of the respawn timer in bond_respawn_max_duration
  attempt_respawn_reconnection,
  MaxCommands,        \* bound on the requests of operators
  MaxFaults           \* bound on crashes, false alarms and failures of a node

Nodes == {node_names[i] : i \in DOMAIN node_names}
N == Len(node_names)

ASSUME ManagerAssumption ==
  /\ node_names \in Seq(Nodes) /\ N > 0
  /\ \A i, j \in 1..N : node_names[i] = node_names[j] => i = j
  /\ MaxPolls \in Nat \ {0} /\ attempt_respawn_reconnection \in BOOLEAN
  /\ {MaxCommands, MaxFaults} \subseteq Nat

VARIABLES
  lc,            \* state of each node's lifecycle, or "down"
  bond_map,      \* state of the manager's bond with each node
  mgr,           \* what the manager is doing
  system_active, \* system_active_
  bond_timer,    \* bond_timer_ exists
  respawn_timer, \* bond_respawn_timer_ exists
  polls,         \* polls since bond_respawn_start_time_, 0 when that is zero
  clients,       \* node_map_ holds its service clients
  commands, faults  \* still to come

mgrVars  == <<mgr, system_active, bond_timer, respawn_timer, polls, clients>>
vars     == <<lc, bond_map, mgrVars, commands, faults>>
-----------------------------------------------------------------------------
(* Transitions of a node, and the commands made of them.                   *)

Source == [configure |-> "unconfigured", activate |-> "inactive", deactivate |-> "active",
           cleanup |-> "inactive", shutdown |-> "unconfigured"]

\* transition_state_map_
Target == [configure |-> "inactive", activate |-> "active", deactivate |-> "inactive",
           cleanup |-> "unconfigured", shutdown |-> "finalized"]

Plan == [startup    |-> <<"configure", "activate">>,
         resume     |-> <<"activate">>,
         pause      |-> <<"deactivate">>,
         reset      |-> <<"deactivate", "cleanup">>,
         hard_reset |-> <<"deactivate", "cleanup">>,
         shutdown   |-> <<"deactivate", "cleanup", "shutdown">>]

Requests == {"startup", "resume", "pause", "reset", "shutdown"}

\* The callback that runs: its command, the transition of the plan it is at, how many
\* nodes have had that transition, and what it does with the next one.
Run(c) == [cmd |-> c, step |-> 1, i |-> 1, at |-> "request"]
Idle   == [cmd |-> "idle", step |-> 1, i |-> 1, at |-> "request"]
Dead   == [Idle EXCEPT !.cmd = "dead"]

Running    == mgr.cmd \in DOMAIN Plan
Transition == Plan[mgr.cmd][mgr.step]

\* Bringup goes down the list, everything else goes up.
Place == IF Transition \in {"configure", "activate"} THEN mgr.i ELSE N + 1 - mgr.i
Node  == node_names[Place]

\* The manager waited for the services of every node before it began.
Init ==
  /\ lc = [n \in Nodes |-> "unconfigured"]
  /\ bond_map = [n \in Nodes |-> "none"]
  /\ mgr = Run("startup")
  /\ system_active = FALSE /\ bond_timer = FALSE
  /\ respawn_timer = FALSE /\ polls = 0 /\ clients = TRUE
  /\ commands = MaxCommands /\ faults = MaxFaults
-----------------------------------------------------------------------------
(* The manager: one callback, step by step.                                *)

\* Mutant: a pause leaves the system marked as active.
PauseKeepsActive(c) ==
  /\ mgr' = Run(c)
  /\ IF c \in {"startup", "resume", "pause"} THEN UNCHANGED <<system_active, bond_timer>>
     ELSE system_active' = FALSE /\ bond_timer' = FALSE

\* Every command but startup() and resume() begins by marking the system inactive.
Begin(c) ==
  /\ mgr' = Run(c)
  /\ IF c \in {"startup", "resume"} THEN UNCHANGED <<system_active, bond_timer>>
     ELSE system_active' = FALSE /\ bond_timer' = FALSE

\* managerCallback().  A shutdown has destroyed the service clients for good, and
\* the next command follows a null pointer.
managerCallback(c) ==
  /\ mgr = Idle /\ commands > 0 /\ commands' = commands - 1
  /\ IF clients THEN Begin(c) ELSE mgr' = Dead /\ UNCHANGED <<system_active, bond_timer>>
  /\ UNCHANGED <<lc, bond_map, respawn_timer, polls, clients, faults>>

\* Mutant: a hard change stops at the first node that fails, as any other does.
StopsAtFailure(ok, thrown) == ok

\* changeStateForAllNodes() takes the next node: an exception ends the change, hard or not.
GoesOn(ok, thrown) == ok \/ (mgr.cmd = "hard_reset" /\ ~thrown)

createBondTimer(c) == bond_timer' = (bond_timer \/ c \in {"startup", "resume"})

\* Mutant: nobody waits for the nodes that went down.
NoRespawn == UNCHANGED respawn_timer

createRespawnTimer == respawn_timer' = (respawn_timer \/ attempt_respawn_reconnection)

\* The end of a command that is not given up.
Complete(bonds) ==
  /\ system_active' = (system_active \/ mgr.cmd \in {"startup", "resume"})
  /\ createBondTimer(mgr.cmd)
  /\ bond_map' = IF mgr.cmd = "hard_reset" THEN [n \in Nodes |-> "none"] ELSE bonds
  /\ IF mgr.cmd = "hard_reset" THEN createRespawnTimer ELSE UNCHANGED respawn_timer
  /\ clients' = (clients /\ mgr.cmd # "shutdown")

\* What follows a node's transition.  shutdown() ignores the result of each round, and
\* a hard reset ends in the same way when its rounds fail; any other command gives up.
Proceed(bonds, ok, thrown) ==
  LET go    == GoesOn(ok, thrown)
      round == (go \/ mgr.cmd = "shutdown") /\ mgr.step < Len(Plan[mgr.cmd])
  IN /\ mgr' = CASE go /\ mgr.i < N -> [mgr EXCEPT !.i = @ + 1, !.at = "request"]
                 [] ~(go /\ mgr.i < N) /\ round ->
                      [mgr EXCEPT !.step = @ + 1, !.i = 1, !.at = "request"]
                 [] OTHER -> Idle
     /\ IF mgr' = Idle /\ (go \/ mgr.cmd \in {"shutdown", "hard_reset"})
        THEN Complete(bonds)
        ELSE bond_map' = bonds /\ UNCHANGED <<system_active, bond_timer, respawn_timer, clients>>
     /\ UNCHANGED polls

\* change_state(): it throws when the service is not there within 5 s.
RequestChange ==
  /\ Running /\ mgr.at = "request"
  /\ IF lc[Node] = "down" THEN Proceed(bond_map, FALSE, TRUE)
     ELSE mgr' = [mgr EXCEPT !.at = "answer"]
          /\ UNCHANGED <<bond_map, system_active, bond_timer, respawn_timer, polls, clients>>
  /\ UNCHANGED <<lc, commands, faults>>

\* The node answers.  It refuses a transition it has none of in its state, and its
\* on_configure() may fail; change_state() looks at neither.
AnswerChange ==
  /\ Running /\ mgr.at = "answer"
  /\ \/ /\ lc' = IF lc[Node] = Source[Transition]
                 THEN [lc EXCEPT ![Node] = Target[Transition]] ELSE lc
        /\ UNCHANGED faults
     \/ /\ Transition = "configure" /\ faults > 0 /\ faults' = faults - 1
        /\ UNCHANGED lc
  /\ mgr' = [mgr EXCEPT !.at = "check"]
  /\ UNCHANGED <<bond_map, system_active, bond_timer, respawn_timer, polls, clients, commands>>

\* get_state(), which throws when the node is gone, and the comparison.
CheckState ==
  /\ Running /\ mgr.at = "check"
  /\ CASE lc[Node] = "down" -> Proceed(bond_map, FALSE, TRUE)
       [] lc[Node] \notin {"down", Target[Transition]} -> Proceed(bond_map, FALSE, FALSE)
       [] lc[Node] = Target[Transition] /\ Transition = "activate" ->
            /\ mgr' = [mgr EXCEPT !.at = "bond"]
            /\ UNCHANGED <<bond_map, system_active, bond_timer, respawn_timer, polls, clients>>
       [] OTHER -> Proceed(IF Transition = "deactivate" THEN [bond_map EXCEPT ![Node] = "none"]
                           ELSE bond_map, TRUE, FALSE)
  /\ UNCHANGED <<lc, commands, faults>>

\* createBondConnection(): a bond that is in the map is left as it is, whatever its state.
\* The new one forms within bond_timeout / 2, unless the node has crashed or is late.
createBondConnection ==
  /\ Running /\ mgr.at = "bond"
  /\ \/ /\ bond_map[Node] # "none"
        /\ Proceed(bond_map, TRUE, FALSE) /\ UNCHANGED faults
     \/ /\ bond_map[Node] = "none" /\ lc[Node] = "active"
        /\ Proceed([bond_map EXCEPT ![Node] = "formed"], TRUE, FALSE) /\ UNCHANGED faults
     \/ /\ bond_map[Node] = "none"
        /\ faults' = IF lc[Node] = "active" THEN faults - 1 ELSE faults
        /\ lc[Node] = "active" => faults > 0
        /\ Proceed([bond_map EXCEPT ![Node] = "unformed"], FALSE, FALSE)
  /\ UNCHANGED <<lc, commands>>

\* Mutant: the loop over the nodes returns after the first.
OnlyFirst(i) == i = 1 /\ bond_map[node_names[i]] \in {"none", "broken"}

\* The bond of a node is broken, or missing.
Fails(i) == bond_map[node_names[i]] \in {"none", "broken"}

\* checkBondConnections(): the first node of the list whose bond is broken takes all down,
\* and a node without a bond is a null pointer.
checkBondConnections ==
  /\ mgr = Idle /\ bond_timer /\ system_active
  /\ \E n \in Nodes : bond_map[n] # "none"
  /\ \E i \in 1..N :
       /\ Fails(i) /\ \A j \in 1..(i - 1) : ~Fails(j)
       /\ IF bond_map[node_names[i]] = "broken" THEN Begin("hard_reset")
          ELSE mgr' = Dead /\ UNCHANGED <<system_active, bond_timer>>
  /\ UNCHANGED <<lc, bond_map, respawn_timer, polls, clients, commands, faults>>

\* checkBondRespawnConnection().
checkBondRespawnConnection ==
  /\ mgr = Idle /\ respawn_timer
  /\ IF system_active THEN polls' = 0 /\ respawn_timer' = FALSE /\ UNCHANGED mgr
     ELSE IF ~clients THEN mgr' = Dead /\ UNCHANGED <<polls, respawn_timer>>
     ELSE IF \A n \in Nodes : lc[n] # "down"
       THEN polls' = 0 /\ respawn_timer' = FALSE /\ mgr' = Run("startup")
       ELSE /\ polls' = IF polls + 1 < MaxPolls THEN polls + 1 ELSE 0
            /\ respawn_timer' = (polls + 1 < MaxPolls)
            /\ UNCHANGED mgr
  /\ UNCHANGED <<lc, bond_map, system_active, bond_timer, clients, commands, faults>>
-----------------------------------------------------------------------------
(* The nodes and their bonds.                                              *)

\* A node dies.  A request under way to it is never answered, and nothing ends the wait.
Crash(n) ==
  /\ faults > 0 /\ faults' = faults - 1
  /\ lc[n] # "down" /\ lc' = [lc EXCEPT ![n] = "down"]
  /\ bond_map' = IF bond_map[n] = "formed" THEN [bond_map EXCEPT ![n] = "stale"] ELSE bond_map
  /\ mgr' = IF Running /\ mgr.at = "answer" /\ n = Node THEN [mgr EXCEPT !.at = "hung"] ELSE mgr
  /\ UNCHANGED <<system_active, bond_timer, respawn_timer, polls, clients, commands>>

\* Somebody starts the node again.
Restart(n) ==
  /\ lc[n] = "down" /\ lc' = [lc EXCEPT ![n] = "unconfigured"]
  /\ UNCHANGED <<bond_map, mgrVars, commands, faults>>

\* Heartbeats are missing for bond_timeout: the node is gone, or (a fault) late.  The
\* respawn timer, a quarter of that, ticks before and sees an active system.
BondBreaks(n) ==
  /\ bond_map[n] \in {"stale", "unformed", "formed"}
  /\ ~(respawn_timer /\ system_active)
  /\ IF bond_map[n] = "formed" THEN faults > 0 /\ faults' = faults - 1 ELSE UNCHANGED faults
  /\ bond_map' = [bond_map EXCEPT ![n] = "broken"]
  /\ UNCHANGED <<lc, mgrVars, commands>>

ManagerSteps == RequestChange \/ CheckState \/ createBondConnection

Next ==
  \/ \E c \in Requests : managerCallback(c)
  \/ ManagerSteps \/ AnswerChange
  \/ checkBondConnections \/ checkBondRespawnConnection
  \/ \E n \in Nodes : Crash(n) \/ Restart(n) \/ BondBreaks(n)

Spec == Init /\ [][Next]_vars

\* The manager's thread and its timers run, a node that is up answers, and a bond whose
\* node has gone breaks.  Nobody owes a command, a crash or a restart.
BondOfDeadBreaks(n) == bond_map[n] # "formed" /\ BondBreaks(n)

FairSpec ==
  /\ Spec
  /\ WF_vars(ManagerSteps) /\ WF_vars(AnswerChange)
  /\ WF_vars(checkBondConnections) /\ WF_vars(checkBondRespawnConnection)
  /\ \A n \in Nodes : WF_vars(BondOfDeadBreaks(n))
-----------------------------------------------------------------------------
(* Properties. *)

\* Every variable keeps its type.
TypeOK ==
  /\ lc \in [Nodes -> {"down", "unconfigured", "inactive", "active", "finalized"}]
  /\ bond_map \in [Nodes -> {"none", "unformed", "formed", "stale", "broken"}]
  /\ mgr \in [cmd : DOMAIN Plan \cup {"idle", "dead"}, step : 1..3, i : 1..N,
              at : {"request", "answer", "check", "bond", "hung"}]
  /\ Running => mgr.step \in DOMAIN Plan[mgr.cmd]
  /\ {system_active, bond_timer, respawn_timer, clients} \subseteq BOOLEAN
  /\ polls \in 0..(MaxPolls - 1) /\ commands \in 0..MaxCommands /\ faults \in 0..MaxFaults

\* is_active never hides a node that is not running: while the system counts as active,
\* the bond timer runs, every node has a bond it may look at, and a node that is not
\* active has one that is bound to break.
ActiveIsWatched ==
  system_active =>
    /\ bond_timer
    /\ \A n \in Nodes : bond_map[n] # "none" /\ (lc[n] # "active" => bond_map[n] # "formed")

\* "If one is down, bring them all down": a takedown leaves a node active only if it gave
\* up on a node that is gone and that comes after it in the list.
TakeDownReachesAll ==
  [][mgr.cmd = "hard_reset" /\ mgr' = Idle =>
       \A i \in 1..N : lc[node_names[i]] = "active" => lc[Node] = "down" /\ i < Place]_vars

\* A crash is noticed: the system does not count as active for ever with a node that is
\* not, unless the manager itself hangs in a request or is dead.
CrashIsNoticed ==
  (system_active /\ \E n \in Nodes : lc[n] # "active")
    ~> (~system_active \/ (\A n \in Nodes : lc[n] = "active")
          \/ mgr.at = "hung" \/ mgr.cmd = "dead")

\* A takedown is under way and not hung, or over and the manager waits for the nodes; no
\* command and no fault is to come.
AfterTakeDown ==
  /\ (mgr.cmd = "hard_reset" /\ mgr.at # "hung") \/ (respawn_timer /\ mgr = Idle)
  /\ clients /\ commands = 0 /\ faults = 0

\* After a takedown that leaves no node active, the return of the nodes in time is enough
\* for the whole system to be active again.
Recovers ==
  (/\ AfterTakeDown
   /\ \A n \in Nodes : lc[n] # "down" /\ (mgr = Idle => lc[n] # "active"))
    ~> (system_active /\ \A n \in Nodes : lc[n] = "active")

=================================================================================
