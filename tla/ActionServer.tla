------------------------------ MODULE ActionServer ------------------------------
(***************************************************************************)
(* The FollowPath action server: nav2_util::SimpleActionServer with the    *)
(* computeControl() of nav2_controller as its execute callback.            *)
(*                                                                         *)
(* Three threads: the server's own executor (handle_goal, handle_accepted, *)
(* handle_cancel), the worker started by std::async, and the lifecycle     *)
(* transitions.  update_mutex_ is taken for one operation at a time, so    *)
(* each locked operation is one step and anything may happen in between.   *)
(* A handle that is not null names a goal, finished or not.  A null handle *)
(* that is dereferenced ends the process: worker = "crashed".              *)
(***************************************************************************)
EXTENDS Integers

CONSTANTS
  Goals,      \* goal ids, each sent at most once
  BadGoals,   \* goals that name a controller the server does not have
  None,       \* a null handle
  MaxActivations \* bound on the number of activations

ASSUME ServerAssumption ==
  BadGoals \subseteq Goals /\ None \notin Goals /\ MaxActivations \in Nat

VARIABLES
  life,        \* the lifecycle: "inactive", "active", or "stopping" in deactivate()
  activations, \* activations so far
  server_active, stop_execution, preempt_requested,
  current, pending,  \* current_handle_, pending_handle_
  state,       \* state of every goal in the action protocol
  arriving,    \* goal between handle_goal and handle_accepted
  worker,      \* where the thread behind execution_future_ is; "off": ready or none
  path,        \* goal whose path the controller follows
  moving,      \* the last velocity published was not zero
  overdue      \* history: deactivate() has waited for server_timeout_

lifeVars   == <<life, activations, server_active, stop_execution>>
handleVars == <<current, pending, preempt_requested, state>>
driveVars  == <<path, moving>>
vars == <<lifeVars, handleVars, arriving, worker, driveVars, overdue>>
-----------------------------------------------------------------------------
\* handle->is_active() of a handle that may be null.
is_active(h) == h # None /\ state[h] \in {"executing", "canceling"}

is_running == worker # "off"

\* terminate(): the state a goal is left in.
Ended(s) == IF s = "canceling" THEN "canceled" ELSE "aborted"

Terminated(hs) ==
  [g \in Goals |-> IF g \in hs /\ is_active(g) THEN Ended(state[g]) ELSE state[g]]

Released(h) == IF is_active(h) THEN None ELSE h

\* Mutant: terminate_all() forgets the preemption request.
TerminateAllKeepsPreempt ==
  /\ state' = Terminated({current, pending})
  /\ current' = Released(current) /\ pending' = Released(pending)
  /\ UNCHANGED preempt_requested

terminate_all ==
  /\ state' = Terminated({current, pending})
  /\ current' = Released(current) /\ pending' = Released(pending)
  /\ preempt_requested' = FALSE

terminate_current ==
  /\ state' = Terminated({current}) /\ current' = Released(current)
  /\ UNCHANGED <<pending, preempt_requested>>

\* Mutant: a second pending goal replaces the first, which is not terminated.
DropPending(g) == state

\* The goals handle_accepted leaves when it moves g into the pending slot.
ReplacePending(g) == Terminated({pending})

accept_pending_goal ==
  /\ state' = [g \in Goals |->
                 IF g = current /\ g # pending /\ is_active(g) THEN "aborted" ELSE state[g]]
  /\ current' = pending /\ pending' = None /\ preempt_requested' = FALSE

Init ==
  /\ life = "inactive" /\ activations = 0
  /\ server_active = FALSE /\ stop_execution = FALSE /\ preempt_requested = FALSE
  /\ current = None /\ pending = None
  /\ state = [g \in Goals |-> "unsent"]
  /\ arriving = None /\ worker = "off" /\ path = None /\ moving = FALSE
  /\ overdue = FALSE
-----------------------------------------------------------------------------
(* The executor of the server.                                             *)

handle_goal(g) ==
  /\ arriving = None /\ state[g] = "unsent"
  /\ IF server_active
       THEN state' = [state EXCEPT ![g] = "executing"] /\ arriving' = g
       ELSE state' = [state EXCEPT ![g] = "rejected"] /\ UNCHANGED arriving
  /\ UNCHANGED <<lifeVars, current, pending, preempt_requested, worker, driveVars, overdue>>

handle_accepted ==
  /\ arriving # None
  /\ IF is_active(current) \/ is_running
       THEN /\ state' = ReplacePending(arriving)
            /\ pending' = arriving /\ preempt_requested' = TRUE
            /\ UNCHANGED <<current, worker>>
       ELSE /\ IF is_active(pending)
                 THEN /\ state' = Terminated({pending}) /\ pending' = None
                      /\ preempt_requested' = FALSE
                 ELSE UNCHANGED <<state, pending, preempt_requested>>
            /\ current' = arriving /\ worker' = "while"
  /\ arriving' = None
  /\ UNCHANGED <<lifeVars, driveVars, overdue>>

\* handle_cancel, and the transition of the goal when it accepts.
handle_cancel(g) ==
  /\ arriving = None /\ state[g] = "executing"
  /\ state' = [state EXCEPT ![g] = "canceling"]
  /\ UNCHANGED <<lifeVars, current, pending, preempt_requested, arriving, worker,
                 driveVars, overdue>>
-----------------------------------------------------------------------------
(* The worker: work(), and computeControl() inside it.                     *)

WorkWhile ==
  /\ worker = "while"
  /\ worker' = IF ~stop_execution /\ is_active(current) THEN "fetch" ELSE "leave"
  /\ UNCHANGED <<lifeVars, handleVars, arriving, driveVars, overdue>>

\* The controller and the goal checker of the current goal.
ControlFetch ==
  /\ worker = "fetch"
  /\ \/ ~is_active(current) /\ worker' = "crashed" /\ UNCHANGED handleVars
     \/ is_active(current) /\ current \in BadGoals
        /\ terminate_current /\ worker' = "finish"
     \/ is_active(current) /\ current \notin BadGoals
        /\ worker' = "setPath" /\ UNCHANGED handleVars
  /\ UNCHANGED <<lifeVars, arriving, driveVars, overdue>>

\* setPlannerPath() of the current goal, looked up once more.  An empty path throws.
ControlSetPath ==
  /\ worker = "setPath"
  /\ \/ ~is_active(current) /\ worker' = "crashed" /\ UNCHANGED path
     \/ is_active(current) /\ worker' = "serve" /\ path' = current
     \/ is_active(current) /\ worker' = "failed" /\ UNCHANGED path
  /\ UNCHANGED <<lifeVars, handleVars, arriving, moving, overdue>>

ControlServerActive ==
  /\ worker = "serve"
  /\ worker' = IF server_active THEN "checkCancel" ELSE "finish"
  /\ UNCHANGED <<lifeVars, handleVars, arriving, driveVars, overdue>>

\* Mutant: only a pending goal is asked whether it is being cancelled.
CancelOfPending == pending # None /\ state[pending] = "canceling"

is_cancel_requested ==
  /\ current # None
  /\ state[IF pending # None THEN pending ELSE current] = "canceling"

ControlCheckCancel ==
  /\ worker = "checkCancel"
  /\ worker' = IF is_cancel_requested THEN "cancelAll" ELSE "costmap"
  /\ UNCHANGED <<lifeVars, handleVars, arriving, driveVars, overdue>>

ControlCancelAll ==
  /\ worker = "cancelAll"
  /\ terminate_all /\ worker' = "zero"
  /\ UNCHANGED <<lifeVars, arriving, driveVars, overdue>>

ControlCancelZero ==
  /\ worker = "zero" /\ worker' = "finish"
  /\ moving' = FALSE
  /\ UNCHANGED <<lifeVars, handleVars, arriving, path, overdue>>

\* The costmap is current again; is_preempt_requested().
ControlCostmap ==
  /\ worker = "costmap"
  /\ worker' = IF preempt_requested THEN "update" ELSE "velocity"
  /\ UNCHANGED <<lifeVars, handleVars, arriving, driveVars, overdue>>

\* Mutant: the new goal is accepted and its path not passed to the controller.
UpdateWithoutPath ==
  /\ worker = "update" /\ is_active(pending)
  /\ accept_pending_goal /\ worker' = "velocity"
  /\ UNCHANGED <<lifeVars, arriving, driveVars, overdue>>

\* updateGlobalPath().  A goal with an unknown controller is terminated, and
\* computeControl() goes on; an empty path throws.
ControlUpdatePath ==
  /\ worker = "update"
  /\ \/ ~is_active(pending) /\ worker' = "crashed" /\ UNCHANGED <<handleVars, path>>
     \/ /\ is_active(pending) /\ accept_pending_goal
        /\ \/ pending \in BadGoals /\ worker' = "reject" /\ UNCHANGED path
           \/ pending \notin BadGoals /\ worker' = "velocity" /\ path' = pending
           \/ pending \notin BadGoals /\ worker' = "failed" /\ UNCHANGED path
  /\ UNCHANGED <<lifeVars, arriving, moving, overdue>>

ControlRejectPath ==
  /\ worker = "reject"
  /\ terminate_current /\ worker' = "velocity"
  /\ UNCHANGED <<lifeVars, arriving, driveVars, overdue>>

\* computeAndPublishVelocity(): an exception ends it, or publish_feedback() finds
\* an active goal, or none.
ControlVelocity ==
  /\ worker = "velocity"
  /\ worker' \in {"failed", IF is_active(current) THEN "feedback" ELSE "publish"}
  /\ UNCHANGED <<lifeVars, handleVars, arriving, driveVars, overdue>>

\* publish_feedback() takes no lock: the handle may be null since it was tested.
\* A velocity or, within failure_tolerance, zero is published; isGoalReached().
ControlPublish ==
  /\ worker \in {"feedback", "publish"}
  /\ IF worker = "feedback" /\ current = None
       THEN worker' = "crashed" /\ UNCHANGED moving
       ELSE moving' \in BOOLEAN /\ worker' \in {"serve", "reached"}
  /\ UNCHANGED <<lifeVars, handleVars, arriving, path, overdue>>

\* publishZeroVelocity(), then succeeded_current() or, in the catch blocks,
\* terminate_current(): a goal may arrive or be cancelled in between.
ControlStop ==
  /\ worker \in {"reached", "failed"}
  /\ moving' = FALSE
  /\ worker' = IF worker = "reached" THEN "succeed" ELSE "abort"
  /\ UNCHANGED <<lifeVars, handleVars, arriving, path, overdue>>

succeeded_current ==
  IF is_active(current)
    THEN /\ state' = [state EXCEPT ![current] = "succeeded"] /\ current' = None
         /\ UNCHANGED <<pending, preempt_requested>>
    ELSE UNCHANGED handleVars

ControlEnd ==
  /\ \/ worker = "succeed" /\ succeeded_current
     \/ worker = "abort" /\ terminate_current
  /\ worker' = "finish"
  /\ UNCHANGED <<lifeVars, arriving, driveVars, overdue>>

\* The rest of the round of work(), under the lock.  completion_callback_ is
\* empty: calling it throws, and the thread ends.
WorkFinish ==
  /\ worker = "finish"
  /\ \/ stop_execution /\ terminate_all /\ worker' = "leave"
     \/ ~stop_execution /\ is_active(current) /\ terminate_current /\ worker' = "leave"
     \/ /\ ~stop_execution /\ ~is_active(current) /\ is_active(pending)
        /\ accept_pending_goal /\ worker' = "while"
     \/ /\ ~stop_execution /\ ~is_active(current) /\ ~is_active(pending)
        /\ worker' = "leave" /\ UNCHANGED handleVars
  /\ UNCHANGED <<lifeVars, arriving, driveVars, overdue>>

\* The lock is released; the future becomes ready when the thread has ended.
WorkLeave ==
  /\ worker = "leave" /\ worker' = "off"
  /\ UNCHANGED <<lifeVars, handleVars, arriving, driveVars, overdue>>
-----------------------------------------------------------------------------
(* Lifecycle transitions of the controller server.                         *)

activate ==
  /\ life = "inactive" /\ activations < MaxActivations
  /\ life' = "active" /\ activations' = activations + 1
  /\ server_active' = TRUE /\ stop_execution' = FALSE
  /\ UNCHANGED <<handleVars, arriving, worker, driveVars, overdue>>

deactivate ==
  /\ life = "active"
  /\ life' = "stopping" /\ server_active' = FALSE /\ stop_execution' = TRUE
  /\ UNCHANGED <<activations, handleVars, arriving, worker, driveVars, overdue>>

\* server_timeout_ is over and the worker has not ended, wherever it is.
DeactivateTimeout ==
  /\ life = "stopping" /\ is_running
  /\ terminate_all /\ overdue' = TRUE
  /\ UNCHANGED <<lifeVars, arriving, worker, driveVars>>

\* The worker has ended; on_deactivate() stops the robot and mutes cmd_vel.
DeactivateDone ==
  /\ life = "stopping" /\ ~is_running
  /\ life' = "inactive" /\ moving' = FALSE /\ overdue' = FALSE
  /\ UNCHANGED <<activations, server_active, stop_execution, handleVars, arriving,
                 worker, path>>
-----------------------------------------------------------------------------
Accepting == handle_accepted
Work ==
  \/ WorkWhile \/ WorkFinish \/ WorkLeave
  \/ ControlFetch \/ ControlSetPath \/ ControlServerActive
  \/ ControlCheckCancel \/ ControlCancelAll \/ ControlCancelZero
  \/ ControlCostmap \/ ControlUpdatePath \/ ControlRejectPath
  \/ ControlVelocity \/ ControlPublish \/ ControlStop \/ ControlEnd
Lifecycle == activate \/ deactivate \/ DeactivateTimeout \/ DeactivateDone
Client == \E g \in Goals : handle_goal(g) \/ handle_cancel(g)

\* The process is there.
Alive == worker # "crashed"

Next == Alive /\ (Client \/ Accepting \/ Work \/ Lifecycle)

Spec == Init /\ [][Next]_vars

\* The server's executor and its worker run, and the costmap becomes current
\* again; clients and operators owe nothing.
FairSpec == Spec /\ WF_vars(Alive /\ Accepting) /\ WF_vars(Work)
-----------------------------------------------------------------------------
Handles == Goals \cup {None}
Final == {"rejected", "succeeded", "aborted", "canceled"}

Places ==
  {"off", "while", "fetch", "setPath", "serve", "checkCancel", "cancelAll", "costmap", "zero",
   "update", "reject", "velocity", "feedback", "publish", "reached", "failed", "succeed",
   "abort", "finish", "leave", "crashed"}

\* Type invariant, with what the flags say of the lifecycle and what a goal is
\* between handle_goal and handle_accepted.
TypeOK ==
  /\ life \in {"inactive", "active", "stopping"} /\ activations \in 0..MaxActivations
  /\ server_active \in BOOLEAN /\ stop_execution \in BOOLEAN
  /\ preempt_requested \in BOOLEAN /\ moving \in BOOLEAN /\ overdue \in BOOLEAN
  /\ current \in Handles /\ pending \in Handles /\ arriving \in Handles /\ path \in Handles
  /\ state \in [Goals -> {"unsent", "executing", "canceling"} \cup Final]
  /\ worker \in Places
  /\ (server_active <=> life = "active") /\ (server_active => ~stop_execution)
  /\ (overdue => life = "stopping")
  /\ arriving # None => state[arriving] = "executing"

\* No goal is leaked: one that still waits for a result is held by a handle, so
\* that somebody can end it.
NoLeakedGoal ==
  \A g \in Goals : is_active(g) => g \in {current, pending, arriving}

\* computeControl() dereferences what get_current_goal() and accept_pending_goal()
\* return after the lock was released, and publish_feedback() the handle: no goal,
\* preemption, cancellation or deactivation makes that null, save for a deactivation
\* that has waited for server_timeout_, whose terminate_all() takes the goal away
\* from a worker that still runs.
NoNullGoal == worker = "crashed" => overdue

\* A goal succeeds only when its own path was followed to the end, whatever goals
\* arrived, preempted it or were refused in the meantime.
SucceedsOnItsPath ==
  [][\A g \in Goals : state[g] # "succeeded" /\ state'[g] = "succeeded" => path = g]_vars

\* computeControl() is in its loop.
Following ==
  worker \in {"serve", "checkCancel", "costmap", "update", "velocity", "feedback", "publish"}

\* A cancellation of the goal being followed ends it, even if a new goal is
\* arriving, unless the server is deactivated first.
CancelEnds ==
  \A g \in Goals :
    g = current /\ Following /\ state[g] = "canceling" ~>
      state[g] \in Final \/ life # "active"
=============================================================================
