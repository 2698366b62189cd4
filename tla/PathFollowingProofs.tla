--------------------------- MODULE PathFollowingProofs ---------------------------
(***************************************************************************)
(* Proofs about the action server, for every set of goals, good and bad,   *)
(* and any number of activations, and about PathFollowing: the client and  *)
(* the server together, for any number of paths and requests.              *)
(***************************************************************************)
EXTENDS PathFollowing, TLAPS

(***************************************************************************)
(* The server: the theorems of ActionServer.                               *)
(***************************************************************************)

\* The three handles name different goals, none of which is still unsent.
HandlesInv ==
  /\ pending # None => pending # current /\ state[pending] # "unsent"
  /\ current # None => state[current] # "unsent"
  /\ arriving # None => arriving \notin {current, pending}

\* A preemption is only requested while there is a goal to go on with.
PreemptInv == preempt_requested => is_active(pending)

\* What the worker is about to dereference is there, until a deactivation has waited
\* for too long.
FetchInv ==
  overdue \/ /\ worker \in {"fetch", "setPath", "feedback"} => is_active(current)
             /\ worker = "update" => preempt_requested
             /\ worker # "crashed"

\* The places where the current goal, if there is one, is the one whose path is followed.
OnPath ==
  {"serve", "checkCancel", "costmap", "update", "velocity", "feedback", "publish", "reached",
   "succeed"}

PathInv == worker \in OnPath /\ is_active(current) => path = current

IInv == TypeOK /\ HandlesInv /\ PreemptInv /\ FetchInv /\ PathInv /\ NoLeakedGoal
-----------------------------------------------------------------------------
(* The operations on the handles, each with what it keeps.                 *)

\* What terminate() does to one goal, and what a released handle names.
LEMMA TerminatedState ==
  ASSUME NEW hs, NEW g \in Goals
  PROVE  Terminated(hs)[g] = IF g \in hs /\ is_active(g) THEN Ended(state[g]) ELSE state[g]
BY DEF Terminated

LEMMA EndedFinal == \A s : Ended(s) \in Final \ {"rejected", "succeeded"}
BY DEF Ended, Final

LEMMA TerminatedType ==
  ASSUME TypeOK, NEW hs
  PROVE  Terminated(hs) \in [Goals -> {"unsent", "executing", "canceling"} \cup Final]
BY EndedFinal DEF Terminated, TypeOK, Final

\* The invariants of the handles, together.
Held == HandlesInv /\ PreemptInv /\ NoLeakedGoal

LEMMA TerminateAll ==
  ASSUME TypeOK, Held, terminate_all, UNCHANGED arriving
  PROVE  /\ Held' /\ state' \in [Goals -> {"unsent", "executing", "canceling"} \cup Final]
         /\ current' \in Handles /\ pending' \in Handles /\ preempt_requested' = FALSE
         /\ ~is_active(current)' /\ (arriving # None => state'[arriving] = state[arriving])
<1>1. state' \in [Goals -> {"unsent", "executing", "canceling"} \cup Final]
  BY TerminatedType DEF terminate_all
<1>2. \A g \in Goals : state'[g] = IF g \in {current, pending} /\ is_active(g)
                                    THEN Ended(state[g]) ELSE state[g]
  BY TerminatedState DEF terminate_all
<1>3. \A g \in Goals : is_active(g)' <=> is_active(g) /\ g \notin {current, pending}
  BY <1>2, EndedFinal, ServerAssumption DEF is_active, Final
<1>4. current' \in {None, current} /\ pending' \in {None, pending} /\ preempt_requested' = FALSE
      /\ (is_active(current) => current' = None) /\ (is_active(pending) => pending' = None)
  BY DEF terminate_all, Released
<1>5. ~is_active(current)' BY <1>3, <1>4 DEF is_active, TypeOK, Handles
<1>6. HandlesInv'
  BY <1>1, <1>2, <1>4, EndedFinal DEF Held, HandlesInv, TypeOK, Handles, Final
<1>7. NoLeakedGoal' BY <1>3 DEF Held, NoLeakedGoal
<1>8. arriving # None => state'[arriving] = state[arriving]
  BY <1>2 DEF Held, HandlesInv, TypeOK, Handles
<1> QED BY <1>1, <1>4, <1>5, <1>6, <1>7, <1>8 DEF Held, PreemptInv, TypeOK, Handles

LEMMA TerminateCurrent ==
  ASSUME TypeOK, Held, terminate_current, UNCHANGED arriving
  PROVE  /\ Held' /\ state' \in [Goals -> {"unsent", "executing", "canceling"} \cup Final]
         /\ current' \in Handles /\ UNCHANGED <<pending, preempt_requested>>
         /\ ~is_active(current)' /\ (arriving # None => state'[arriving] = state[arriving])
<1>1. state' \in [Goals -> {"unsent", "executing", "canceling"} \cup Final]
  BY TerminatedType DEF terminate_current
<1>2. \A g \in Goals : state'[g] = IF g = current /\ is_active(g) THEN Ended(state[g]) ELSE state[g]
  BY TerminatedState DEF terminate_current
<1>3. \A g \in Goals : is_active(g)' <=> is_active(g) /\ g # current
  BY <1>2, EndedFinal, ServerAssumption DEF is_active, Final
<1>4. current' \in {None, current} /\ (is_active(current) => current' = None)
      /\ UNCHANGED <<pending, preempt_requested>>
  BY DEF terminate_current, Released
<1>5. ~is_active(current)' BY <1>3, <1>4 DEF is_active, TypeOK, Handles
<1>6. HandlesInv'
  BY <1>1, <1>2, <1>4, EndedFinal DEF Held, HandlesInv, TypeOK, Handles, Final
<1>7. NoLeakedGoal' BY <1>3, <1>4 DEF Held, NoLeakedGoal
<1>8. PreemptInv' BY <1>3, <1>4 DEF Held, HandlesInv, PreemptInv, TypeOK, Handles, is_active
<1>9. arriving # None => state'[arriving] = state[arriving]
  BY <1>2 DEF Held, HandlesInv, TypeOK, Handles
<1> QED BY <1>1, <1>4, <1>5, <1>6, <1>7, <1>8, <1>9 DEF Held, TypeOK, Handles

LEMMA AcceptPending ==
  ASSUME TypeOK, Held, accept_pending_goal, UNCHANGED arriving
  PROVE  /\ Held' /\ state' \in [Goals -> {"unsent", "executing", "canceling"} \cup Final]
         /\ current' = pending /\ pending' = None /\ preempt_requested' = FALSE
         /\ (arriving # None => state'[arriving] = state[arriving])
<1>1. state' \in [Goals -> {"unsent", "executing", "canceling"} \cup Final]
  BY DEF accept_pending_goal, TypeOK, Final
<1>2. \A g \in Goals : state'[g] = IF g = current /\ g # pending /\ is_active(g)
                                    THEN "aborted" ELSE state[g]
  BY DEF accept_pending_goal
<1>3. current' = pending /\ pending' = None /\ preempt_requested' = FALSE
  BY DEF accept_pending_goal
<1>4. \A g \in Goals : is_active(g)' => is_active(g) /\ (g # current \/ g = pending)
  BY <1>2, ServerAssumption DEF is_active
<1>5. HandlesInv'
  BY <1>2, <1>3 DEF Held, HandlesInv, TypeOK, Handles
<1>6. NoLeakedGoal' BY <1>3, <1>4 DEF Held, NoLeakedGoal
<1>7. arriving # None => state'[arriving] = state[arriving]
  BY <1>2 DEF Held, HandlesInv, TypeOK, Handles
<1> QED BY <1>1, <1>3, <1>5, <1>6, <1>7 DEF Held, PreemptInv
-----------------------------------------------------------------------------
(* The executor.                                                           *)

LEMMA GoalNext == ASSUME IInv, NEW g \in Goals, handle_goal(g) PROVE IInv'
<1>1. /\ UNCHANGED <<lifeVars, current, pending, preempt_requested, worker, driveVars, overdue>>
      /\ arriving = None /\ state[g] = "unsent" /\ g # None
  BY ServerAssumption DEF handle_goal
<1>2. \/ state' = [state EXCEPT ![g] = "executing"] /\ arriving' = g
      \/ state' = [state EXCEPT ![g] = "rejected"] /\ arriving' = None
  BY <1>1 DEF handle_goal
<1>3. state \in [Goals -> {"unsent", "executing", "canceling"} \cup Final] BY DEF IInv, TypeOK
<1>4. \A h \in Goals \ {g} : state'[h] = state[h] BY <1>2, <1>3
<1>5. TypeOK'
  BY <1>1, <1>2, <1>3 DEF IInv, TypeOK, Handles, Final, lifeVars, driveVars
<1>6. g \notin {current, pending} BY <1>1 DEF IInv, HandlesInv
<1>7. is_active(current)' = is_active(current) /\ is_active(pending)' = is_active(pending)
  BY <1>1, <1>4, <1>6 DEF is_active, IInv, TypeOK, Handles
<1>8. HandlesInv' BY <1>1, <1>2, <1>4, <1>6 DEF IInv, HandlesInv, TypeOK, Handles
<1>9. NoLeakedGoal'
  BY <1>1, <1>2, <1>3, <1>4 DEF IInv, NoLeakedGoal, is_active
<1> QED BY <1>1, <1>5, <1>7, <1>8, <1>9
        DEF IInv, PreemptInv, FetchInv, PathInv, driveVars

LEMMA CancelNext == ASSUME IInv, NEW g \in Goals, handle_cancel(g) PROVE IInv'
<1>1. /\ UNCHANGED <<lifeVars, current, pending, preempt_requested, arriving, worker, driveVars, overdue>>
      /\ arriving = None /\ state[g] = "executing"
      /\ state' = [state EXCEPT ![g] = "canceling"]
  BY DEF handle_cancel
<1>2. state \in [Goals -> {"unsent", "executing", "canceling"} \cup Final] BY DEF IInv, TypeOK
<1>3. \A h \in Goals : state'[h] = IF h = g THEN "canceling" ELSE state[h] BY <1>1, <1>2
<1>4. TypeOK' BY <1>1, <1>2 DEF IInv, TypeOK, lifeVars, driveVars
<1>5. \A h \in Handles : is_active(h)' <=> is_active(h)
  BY <1>1, <1>3 DEF is_active, Handles
<1>6. HandlesInv' BY <1>1, <1>3 DEF IInv, HandlesInv, TypeOK, Handles
<1>7. NoLeakedGoal' BY <1>1, <1>5 DEF IInv, NoLeakedGoal, Handles
<1>8. (is_active(current)' <=> is_active(current)) /\ (is_active(pending)' <=> is_active(pending))
  BY <1>1, <1>5 DEF IInv, TypeOK, is_active
<1> QED BY <1>1, <1>4, <1>6, <1>7, <1>8
        DEF IInv, PreemptInv, FetchInv, PathInv, driveVars

LEMMA AcceptedNext == IInv /\ handle_accepted => IInv'
<1> SUFFICES ASSUME IInv, handle_accepted PROVE IInv' OBVIOUS
<1>1. /\ arriving \in Goals /\ arriving' = None /\ state[arriving] = "executing"
      /\ arriving \notin {current, pending}
      /\ UNCHANGED <<lifeVars, driveVars, overdue>>
  BY DEF handle_accepted, IInv, TypeOK, Handles, HandlesInv
<1>2. CASE is_active(current) \/ is_running
  <2>1. /\ state' = Terminated({pending}) /\ pending' = arriving /\ preempt_requested' = TRUE
        /\ UNCHANGED <<current, worker>>
    BY <1>2 DEF handle_accepted, ReplacePending
  <2>2. \A g \in Goals : state'[g] = IF g = pending /\ is_active(g) THEN Ended(state[g]) ELSE state[g]
    BY <2>1, TerminatedState
  <2>3. \A g \in Goals : is_active(g)' <=> is_active(g) /\ g # pending
    BY <2>2, EndedFinal, ServerAssumption DEF is_active, Final
  <2>4. TypeOK' BY <1>1, <2>1, TerminatedType DEF IInv, TypeOK, Handles, lifeVars, driveVars
  <2>5. HandlesInv'
    BY <1>1, <2>1, <2>2, EndedFinal DEF IInv, HandlesInv, TypeOK, Handles, Final
  <2>6. PreemptInv'
    BY <1>1, <2>1, <2>3, ServerAssumption DEF PreemptInv, is_active
  <2>7. NoLeakedGoal' BY <1>1, <2>1, <2>3 DEF IInv, NoLeakedGoal
  <2>8. is_active(current)' <=> is_active(current)
    BY <2>1, <2>3 DEF IInv, TypeOK, Handles, HandlesInv, is_active
  <2> QED BY <1>1, <2>1, <2>4, <2>5, <2>6, <2>7, <2>8
          DEF IInv, FetchInv, PathInv, driveVars
<1>3. CASE ~is_active(current) /\ ~is_running
  <2>1. current' = arriving /\ worker' = "while" BY <1>3 DEF handle_accepted
  <2>2. CASE is_active(pending)
    <3>1. state' = Terminated({pending}) /\ pending' = None /\ preempt_requested' = FALSE
      BY <1>3, <2>2 DEF handle_accepted
    <3>2. \A g \in Goals : state'[g] = IF g = pending /\ is_active(g) THEN Ended(state[g]) ELSE state[g]
      BY <3>1, TerminatedState
    <3>3. \A g \in Goals : is_active(g)' <=> is_active(g) /\ g # pending
      BY <3>2, EndedFinal, ServerAssumption DEF is_active, Final
    <3>4. TypeOK' BY <1>1, <2>1, <3>1, TerminatedType DEF IInv, TypeOK, Handles, lifeVars, driveVars, Places
    <3>5. HandlesInv' BY <1>1, <2>1, <3>1, <3>2 DEF HandlesInv
    <3>6. NoLeakedGoal' BY <1>1, <1>3, <2>1, <3>1, <3>3 DEF IInv, NoLeakedGoal
    <3> QED BY <2>1, <3>1, <3>4, <3>5, <3>6 DEF IInv, PreemptInv, FetchInv, PathInv, OnPath
  <2>3. CASE ~is_active(pending)
    <3>1. UNCHANGED <<state, pending, preempt_requested>>
      BY <1>3, <2>3 DEF handle_accepted
    <3>2. TypeOK' BY <1>1, <2>1, <3>1 DEF IInv, TypeOK, Handles, lifeVars, driveVars, Places
    <3>3. HandlesInv' BY <1>1, <2>1, <3>1 DEF IInv, HandlesInv
    <3>4. PreemptInv' BY <2>3, <3>1 DEF IInv, PreemptInv, is_active
    <3>5. NoLeakedGoal' BY <1>1, <1>3, <2>1, <2>3, <3>1 DEF IInv, NoLeakedGoal, is_active
    <3> QED BY <2>1, <3>2, <3>3, <3>4, <3>5 DEF IInv, FetchInv, PathInv, OnPath
  <2> QED BY <2>2, <2>3
<1> QED BY <1>2, <1>3
-----------------------------------------------------------------------------
(* The worker.                                                             *)

\* A step of the worker that leaves the handles alone and does not go where something is
\* dereferenced.
LEMMA PlainStep ==
  ASSUME IInv, UNCHANGED <<lifeVars, handleVars, arriving, path, overdue>>, moving' \in BOOLEAN,
         worker' \in {"while", "serve", "checkCancel", "cancelAll", "costmap", "zero", "velocity",
                      "publish", "reached", "failed", "succeed", "abort", "finish", "leave", "off"},
         worker' \in OnPath => worker \in OnPath
  PROVE  IInv'
<1>1. TypeOK' BY DEF IInv, TypeOK, lifeVars, handleVars, Places
<1>2. HandlesInv' /\ PreemptInv' /\ NoLeakedGoal'
  BY DEF IInv, HandlesInv, PreemptInv, NoLeakedGoal, handleVars, is_active
<1>3. FetchInv' BY DEF FetchInv
<1>4. PathInv' BY DEF IInv, PathInv, handleVars, is_active
<1> QED BY <1>1, <1>2, <1>3, <1>4 DEF IInv

\* A step after which no goal is current, or the worker is off the path, and which does not
\* go where something is dereferenced.
LEMMA HandlesStep ==
  ASSUME IInv, Held', state' \in [Goals -> {"unsent", "executing", "canceling"} \cup Final],
         current' \in Handles, pending' \in Handles, preempt_requested' \in BOOLEAN,
         arriving # None => state'[arriving] = state[arriving],
         UNCHANGED <<lifeVars, arriving>>, path' \in Handles, moving' \in BOOLEAN,
         overdue' \in BOOLEAN, overdue' => life = "stopping", worker' \in Places,
         overdue' \/ worker' \in {"off", "while", "checkCancel", "costmap", "zero", "velocity",
                                 "failed", "finish", "leave", "reject"},
         worker' \in OnPath => path' = current' \/ ~is_active(current)'
  PROVE  IInv'
<1>1. TypeOK' BY DEF IInv, TypeOK, lifeVars
<1>2. FetchInv' BY DEF FetchInv, Places
<1>3. PathInv' BY DEF PathInv
<1> QED BY <1>1, <1>2, <1>3 DEF IInv, Held

LEMMA HeldNow == IInv => Held /\ TypeOK
BY DEF IInv, Held

LEMMA WorkWhileNext == IInv /\ WorkWhile => IInv'
<1> SUFFICES ASSUME IInv, WorkWhile PROVE IInv' OBVIOUS
<1>1. CASE worker' = "fetch"
  <2>1. TypeOK' BY <1>1 DEF WorkWhile, IInv, TypeOK, lifeVars, handleVars, driveVars, Places
  <2>2. HandlesInv' /\ PreemptInv' /\ NoLeakedGoal'
    BY DEF WorkWhile, IInv, HandlesInv, PreemptInv, NoLeakedGoal, handleVars, is_active
  <2>3. is_active(current)' BY <1>1 DEF WorkWhile, handleVars, is_active
  <2> QED BY <1>1, <2>1, <2>2, <2>3 DEF IInv, FetchInv, PathInv, OnPath
<1>2. CASE worker' = "leave"
  BY <1>2, PlainStep DEF WorkWhile, OnPath, driveVars, IInv, TypeOK
<1> QED BY <1>1, <1>2 DEF WorkWhile

\* A step to where something is dereferenced, or of the path, that leaves the handles alone.
LEMMA GoingStep ==
  ASSUME IInv, UNCHANGED <<lifeVars, handleVars, arriving, moving, overdue>>,
         worker' \in Places, path' \in Handles, FetchInv',
         worker' \in OnPath => path' = current \/ (worker \in OnPath /\ path' = path)
  PROVE  IInv'
<1>1. TypeOK' BY DEF IInv, TypeOK, lifeVars, handleVars
<1>2. HandlesInv' /\ PreemptInv' /\ NoLeakedGoal'
  BY DEF IInv, HandlesInv, PreemptInv, NoLeakedGoal, handleVars, is_active
<1>3. PathInv' BY DEF IInv, PathInv, handleVars, is_active
<1> QED BY <1>1, <1>2, <1>3 DEF IInv

LEMMA FetchNext == IInv /\ ControlFetch => IInv'
<1> SUFFICES ASSUME IInv, ControlFetch PROVE IInv' OBVIOUS
<1>1. /\ worker = "fetch" /\ UNCHANGED <<lifeVars, arriving, path, moving, overdue>>
      /\ moving \in BOOLEAN /\ overdue \in BOOLEAN /\ path \in Handles
      /\ overdue => life = "stopping"
  BY DEF ControlFetch, driveVars, IInv, TypeOK
<1>2. CASE terminate_current /\ worker' = "finish"
  <2>1. pending \in Handles /\ preempt_requested \in BOOLEAN BY DEF IInv, TypeOK
  <2> QED BY <1>1, <1>2, <2>1, HeldNow, TerminateCurrent, HandlesStep DEF OnPath, Places
<1>3. CASE ~terminate_current \/ worker' # "finish"
  <2>1. /\ UNCHANGED handleVars
        /\ \/ ~is_active(current) /\ worker' = "crashed"
           \/ is_active(current) /\ worker' = "setPath"
    BY <1>3 DEF ControlFetch
  <2>2. FetchInv' BY <1>1, <2>1 DEF IInv, FetchInv, handleVars, is_active
  <2> QED BY <1>1, <2>1, <2>2, GoingStep DEF OnPath, Places
<1> QED BY <1>2, <1>3

LEMMA SetPathNext == IInv /\ ControlSetPath => IInv'
<1> SUFFICES ASSUME IInv, ControlSetPath PROVE IInv' OBVIOUS
<1>1. /\ worker = "setPath" /\ UNCHANGED <<lifeVars, handleVars, arriving, moving, overdue>>
      /\ \/ ~is_active(current) /\ worker' = "crashed" /\ path' = path
         \/ is_active(current) /\ worker' = "serve" /\ path' = current
         \/ is_active(current) /\ worker' = "failed" /\ path' = path
      /\ path \in Handles /\ current \in Handles
  BY DEF ControlSetPath, IInv, TypeOK
<1>2. FetchInv' BY <1>1 DEF IInv, FetchInv, handleVars, is_active
<1> QED BY <1>1, <1>2, GoingStep DEF OnPath, Places

LEMMA FeedbackNext == IInv /\ ControlVelocity => IInv'
<1> SUFFICES ASSUME IInv, ControlVelocity PROVE IInv' OBVIOUS
<1>1. /\ worker = "velocity"
      /\ UNCHANGED <<lifeVars, handleVars, arriving, path, moving, overdue>>
      /\ worker' \in {"failed", "feedback", "publish"} /\ path \in Handles
      /\ worker' = "feedback" => is_active(current)
  BY DEF ControlVelocity, driveVars, IInv, TypeOK
<1>2. FetchInv' BY <1>1 DEF IInv, FetchInv, handleVars, is_active
<1> QED BY <1>1, <1>2, GoingStep DEF OnPath, Places

LEMMA PublishNext == IInv /\ ControlPublish => IInv'
<1> SUFFICES ASSUME IInv, ControlPublish PROVE IInv' OBVIOUS
<1>1. /\ worker \in {"feedback", "publish"}
      /\ UNCHANGED <<lifeVars, handleVars, arriving, path, overdue>>
      /\ path \in Handles
  BY DEF ControlPublish, IInv, TypeOK
<1>2. CASE worker = "feedback" /\ current = None
  <2>1. worker' = "crashed" /\ UNCHANGED moving BY <1>2 DEF ControlPublish
  <2>2. FetchInv' BY <1>1, <1>2, <2>1 DEF IInv, FetchInv, is_active
  <2> QED BY <1>1, <2>1, <2>2, GoingStep DEF OnPath, Places
<1>3. CASE ~(worker = "feedback" /\ current = None)
  <2>1. moving' \in BOOLEAN /\ worker' \in {"serve", "reached"} BY <1>3 DEF ControlPublish
  <2> QED BY <1>1, <2>1, PlainStep DEF OnPath
<1> QED BY <1>2, <1>3

LEMMA UpdateNext == IInv /\ ControlUpdatePath => IInv'
<1> SUFFICES ASSUME IInv, ControlUpdatePath PROVE IInv' OBVIOUS
<1>1. /\ worker = "update" /\ UNCHANGED <<lifeVars, arriving, moving, overdue>>
      /\ moving \in BOOLEAN /\ overdue \in BOOLEAN /\ (overdue => life = "stopping")
      /\ path \in Handles /\ pending \in Handles /\ None \in Handles
  BY DEF ControlUpdatePath, IInv, TypeOK, Handles
<1>2. CASE ~is_active(pending)
  <2>1. worker' = "crashed" /\ UNCHANGED <<handleVars, path>>
    BY <1>2 DEF ControlUpdatePath
  <2>2. FetchInv' BY <1>1, <1>2 DEF IInv, FetchInv, PreemptInv
  <2> QED BY <1>1, <2>1, <2>2, GoingStep DEF OnPath, Places
<1>3. CASE is_active(pending)
  <2>1. /\ accept_pending_goal
        /\ \/ worker' = "reject" /\ path' = path
           \/ worker' = "velocity" /\ path' = pending
           \/ worker' = "failed" /\ path' = path
    BY <1>3 DEF ControlUpdatePath
  <2>2. Held' /\ state' \in [Goals -> {"unsent", "executing", "canceling"} \cup Final]
        /\ current' = pending /\ pending' = None /\ preempt_requested' = FALSE
        /\ (arriving # None => state'[arriving] = state[arriving])
    BY <1>1, <2>1, HeldNow, AcceptPending
  <2> QED BY <1>1, <2>1, <2>2, HandlesStep DEF OnPath, Places
<1> QED BY <1>2, <1>3

LEMMA FinishNext == IInv /\ WorkFinish => IInv'
<1> SUFFICES ASSUME IInv, WorkFinish PROVE IInv' OBVIOUS
<1>1. /\ UNCHANGED <<lifeVars, arriving, driveVars, overdue>> /\ moving \in BOOLEAN
      /\ path \in Handles /\ overdue \in BOOLEAN /\ (overdue => life = "stopping")
      /\ None \in Handles /\ pending \in Handles /\ preempt_requested \in BOOLEAN
  BY DEF WorkFinish, IInv, TypeOK, Handles
<1>2. CASE terminate_all /\ worker' = "leave"
  BY <1>1, <1>2, HeldNow, TerminateAll, HandlesStep DEF OnPath, Places, driveVars
<1>3. CASE terminate_current /\ worker' = "leave"
  BY <1>1, <1>3, HeldNow, TerminateCurrent, HandlesStep DEF OnPath, Places, driveVars
<1>4. CASE accept_pending_goal /\ worker' = "while"
  BY <1>1, <1>4, HeldNow, AcceptPending, HandlesStep DEF OnPath, Places, driveVars
<1>5. CASE worker' = "leave" /\ UNCHANGED handleVars
  BY <1>1, <1>5, PlainStep DEF OnPath, driveVars
<1> QED BY <1>2, <1>3, <1>4, <1>5 DEF WorkFinish

LEMMA EndNext == IInv /\ ControlEnd => IInv'
<1> SUFFICES ASSUME IInv, ControlEnd PROVE IInv' OBVIOUS
<1>1. /\ UNCHANGED <<lifeVars, arriving, driveVars, overdue>> /\ moving \in BOOLEAN
      /\ path \in Handles /\ overdue \in BOOLEAN /\ (overdue => life = "stopping")
      /\ pending \in Handles /\ preempt_requested \in BOOLEAN /\ worker' = "finish"
  BY DEF ControlEnd, IInv, TypeOK
<1>2. CASE terminate_current
  BY <1>1, <1>2, HeldNow, TerminateCurrent, HandlesStep DEF OnPath, Places, driveVars
<1>3. CASE UNCHANGED handleVars
  BY <1>1, <1>3, PlainStep DEF OnPath, driveVars
<1>4. CASE /\ is_active(current) /\ state' = [state EXCEPT ![current] = "succeeded"]
           /\ current' = None /\ UNCHANGED <<pending, preempt_requested>>
  <2>1. current \in Goals BY <1>4 DEF is_active, IInv, TypeOK, Handles
  <2>2. \A g \in Goals : state'[g] = IF g = current THEN "succeeded" ELSE state[g]
    BY <1>4, <2>1 DEF IInv, TypeOK
  <2>3. state' \in [Goals -> {"unsent", "executing", "canceling"} \cup Final]
    BY <1>4 DEF IInv, TypeOK, Final
  <2>4. \A g \in Goals : is_active(g)' <=> is_active(g) /\ g # current
    BY <2>2, ServerAssumption DEF is_active
  <2>5. HandlesInv'
    BY <1>1, <1>4, <2>2 DEF IInv, HandlesInv, TypeOK, Handles
  <2>6. PreemptInv'
    BY <1>4, <2>4 DEF IInv, PreemptInv, HandlesInv, TypeOK, Handles, is_active
  <2>7. NoLeakedGoal' BY <1>1, <1>4, <2>4 DEF IInv, NoLeakedGoal
  <2>8. arriving # None => state'[arriving] = state[arriving]
    BY <2>2 DEF IInv, HandlesInv, TypeOK, Handles
  <2>9. None \in Handles BY DEF Handles
  <2> QED BY <1>1, <1>4, <2>3, <2>5, <2>6, <2>7, <2>8, <2>9, HandlesStep
          DEF Held, OnPath, Places, driveVars
<1> QED BY <1>2, <1>3, <1>4 DEF ControlEnd, succeeded_current

LEMMA CostmapNext == IInv /\ ControlCostmap => IInv'
<1> SUFFICES ASSUME IInv, ControlCostmap PROVE IInv' OBVIOUS
<1>1. CASE worker' = "update" /\ preempt_requested
  <2>1. TypeOK' BY <1>1 DEF ControlCostmap, IInv, TypeOK, lifeVars, handleVars, driveVars, Places
  <2>2. HandlesInv' /\ PreemptInv' /\ NoLeakedGoal'
    BY DEF ControlCostmap, IInv, HandlesInv, PreemptInv, NoLeakedGoal, handleVars, is_active
  <2>3. FetchInv' BY <1>1 DEF ControlCostmap, FetchInv, handleVars
  <2>4. PathInv'
    BY DEF ControlCostmap, IInv, PathInv, OnPath, handleVars, driveVars, is_active
  <2> QED BY <2>1, <2>2, <2>3, <2>4 DEF IInv
<1>2. CASE worker' = "velocity"
  BY <1>2, PlainStep DEF ControlCostmap, OnPath, driveVars, IInv, TypeOK
<1> QED BY <1>1, <1>2 DEF ControlCostmap

LEMMA WorkNext == IInv /\ Work => IInv'
<1> SUFFICES ASSUME IInv, Work PROVE IInv' OBVIOUS
<1>0. /\ moving \in BOOLEAN /\ path \in Handles /\ overdue \in BOOLEAN
      /\ overdue => life = "stopping"
  BY DEF IInv, TypeOK
<1>1. CASE WorkLeave \/ ControlServerActive \/ ControlCheckCancel \/ ControlCancelZero
  BY <1>0, <1>1, PlainStep
  DEF WorkLeave, ControlServerActive, ControlCheckCancel, ControlCancelZero, OnPath, driveVars
<1>2. CASE ControlStop
  BY <1>0, <1>2, PlainStep DEF ControlStop, OnPath
<1>3. CASE ControlCancelAll
  BY <1>0, <1>3, HeldNow, TerminateAll, HandlesStep DEF ControlCancelAll, OnPath, Places, driveVars
<1>4. CASE ControlRejectPath
  <2>1. /\ terminate_current /\ worker' = "velocity"
        /\ UNCHANGED <<lifeVars, arriving, driveVars, pending, preempt_requested, overdue>>
    BY <1>4 DEF ControlRejectPath, terminate_current
  <2>2. pending \in Handles /\ preempt_requested \in BOOLEAN BY DEF IInv, TypeOK
  <2> QED BY <1>0, <2>1, <2>2, HeldNow, TerminateCurrent, HandlesStep DEF OnPath, Places, driveVars
<1> QED BY <1>1, <1>2, <1>3, <1>4, WorkWhileNext, FetchNext, SetPathNext, UpdateNext, FeedbackNext,
           PublishNext, FinishNext, EndNext, CostmapNext DEF Work
-----------------------------------------------------------------------------
(* The lifecycle.                                                          *)

LEMMA LifecycleNext == IInv /\ Lifecycle => IInv'
<1> SUFFICES ASSUME IInv, Lifecycle PROVE IInv' OBVIOUS
<1>1. CASE activate \/ deactivate \/ DeactivateDone
  <2>1. /\ UNCHANGED <<handleVars, arriving, worker, path>> /\ moving' \in BOOLEAN
    BY <1>1 DEF activate, deactivate, DeactivateDone, driveVars, IInv, TypeOK
  <2>2. /\ life' \in {"inactive", "active", "stopping"} /\ activations' \in 0..MaxActivations
        /\ (server_active' <=> life' = "active") /\ (server_active' => ~stop_execution')
        /\ stop_execution' \in BOOLEAN /\ server_active' \in BOOLEAN
        /\ overdue' \in BOOLEAN /\ (overdue' => life' = "stopping" /\ overdue)
    <3>1. CASE activate
      <4>1. activations' \in 0..MaxActivations
        BY <3>1, ServerAssumption DEF activate, IInv, TypeOK
      <4>2. /\ life' = "active" /\ server_active' = TRUE /\ stop_execution' = FALSE
            /\ overdue' = overdue /\ overdue = FALSE
        BY <3>1 DEF activate, IInv, TypeOK
      <4> QED BY <4>1, <4>2, Zenon
    <3>2. CASE deactivate BY <3>2 DEF deactivate, IInv, TypeOK
    <3>3. CASE DeactivateDone BY <3>3 DEF DeactivateDone, IInv, TypeOK
    <3> QED BY <1>1, <3>1, <3>2, <3>3
  <2>3. TypeOK' BY <2>1, <2>2 DEF IInv, TypeOK, handleVars
  <2>4. FetchInv'
    <3>1. ASSUME overdue, ~overdue' PROVE worker' = "off"
      BY <1>1, <3>1 DEF activate, deactivate, DeactivateDone, is_running
    <3> QED BY <2>1, <2>2, <3>1 DEF IInv, FetchInv, is_active, handleVars
  <2> QED BY <2>1, <2>3, <2>4
          DEF IInv, HandlesInv, PreemptInv, PathInv, NoLeakedGoal, is_active, handleVars
<1>2. CASE DeactivateTimeout
  <2>1. /\ terminate_all /\ worker' = worker /\ overdue' = TRUE /\ life = "stopping"
        /\ UNCHANGED <<lifeVars, arriving, driveVars>>
    BY <1>2 DEF DeactivateTimeout
  <2>2. moving \in BOOLEAN /\ path \in Handles /\ worker \in Places BY DEF IInv, TypeOK
  <2> QED BY <2>1, <2>2, HeldNow, TerminateAll, HandlesStep DEF driveVars
<1> QED BY <1>1, <1>2 DEF Lifecycle

LEMMA InvInit == Init => IInv
<1> SUFFICES ASSUME Init PROVE IInv OBVIOUS
<1>1. TypeOK
  <2>1. activations \in 0..MaxActivations BY ServerAssumption DEF Init
  <2>2. state \in [Goals -> {"unsent", "executing", "canceling"} \cup Final] BY DEF Init
  <2>3. /\ life = "inactive" /\ server_active = FALSE /\ stop_execution = FALSE
        /\ preempt_requested = FALSE /\ current = None /\ pending = None
        /\ arriving = None /\ worker = "off" /\ path = None /\ moving = FALSE
        /\ overdue = FALSE /\ None \in Handles /\ worker \in Places
    BY DEF Init, Handles, Places
  <2>4. server_active <=> life = "active" BY <2>3
  <2> QED BY <2>1, <2>2, <2>3, <2>4, Zenon DEF TypeOK
<1>2. \A g \in Goals : ~is_active(g) BY DEF Init, is_active
<1>3. HandlesInv /\ PreemptInv /\ FetchInv /\ PathInv
  BY DEF Init, HandlesInv, PreemptInv, FetchInv, PathInv, OnPath
<1>4. NoLeakedGoal BY <1>2 DEF NoLeakedGoal
<1> QED BY <1>1, <1>3, <1>4 DEF IInv

LEMMA InvNext == IInv /\ [Next]_vars => IInv'
<1> SUFFICES ASSUME IInv, [Next]_vars PROVE IInv' OBVIOUS
<1>1. CASE UNCHANGED vars
  <2>1. TypeOK' BY <1>1 DEF IInv, TypeOK, vars, lifeVars, handleVars, driveVars
  <2> QED BY <1>1, <2>1
          DEF IInv, HandlesInv, PreemptInv, FetchInv, PathInv, NoLeakedGoal, is_active, vars,
              handleVars, driveVars
<1> QED BY <1>1, GoalNext, CancelNext, AcceptedNext, WorkNext, LifecycleNext
        DEF Next, Client, Accepting

LEMMA Invariance == Spec => []IInv
BY InvInit, InvNext, PTL DEF Spec

\* Every reachable state is well typed, and the server's two flags follow its lifecycle.
THEOREM TypeCorrect == Spec => []TypeOK
BY Invariance, PTL DEF IInv

\* No goal that waits for a result is ever without a handle that holds it.
THEOREM NoLeak == Spec => []NoLeakedGoal
BY Invariance, PTL DEF IInv

\* The worker dereferences null in no way but one: a deactivation that waited for longer
\* than server_timeout_.
THEOREM NoNull == Spec => []NoNullGoal
<1>1. IInv => NoNullGoal BY DEF IInv, FetchInv, NoNullGoal
<1> QED BY <1>1, Invariance, PTL

\* A goal succeeds only on its own path.
THEOREM OwnPath == Spec => SucceedsOnItsPath
<1> DEFINE Own == \A g \in Goals :
                    state[g] # "succeeded" /\ state'[g] = "succeeded" => path = g
<1>1. IInv /\ [Next]_vars => [Own]_vars
  <2> SUFFICES ASSUME IInv, Next, NEW g \in Goals,
                      state[g] # "succeeded", state'[g] = "succeeded"
               PROVE  path = g
    OBVIOUS
  <2>1. state \in [Goals -> {"unsent", "executing", "canceling"} \cup Final]
    BY DEF IInv, TypeOK
  <2>2. ASSUME NEW hs, state' = Terminated(hs) PROVE FALSE
    BY <2>2, TerminatedState, EndedFinal DEF Final
  <2>3. ~accept_pending_goal BY DEF accept_pending_goal
  <2>4. ~terminate_all /\ ~terminate_current BY <2>2 DEF terminate_all, terminate_current
  <2>5. ~UNCHANGED handleVars BY DEF handleVars
  <2>6. ControlEnd
    BY <2>1, <2>2, <2>3, <2>4, <2>5
    DEF Next, Client, handle_goal, handle_cancel, Accepting, handle_accepted, ReplacePending,
        Work, WorkWhile, WorkFinish, WorkLeave, ControlFetch, ControlServerActive,
        ControlCheckCancel, ControlCancelAll, ControlCancelZero, ControlCostmap,
        ControlSetPath, ControlUpdatePath, ControlRejectPath, ControlVelocity, ControlPublish,
        ControlStop, Lifecycle, activate,
        deactivate, DeactivateTimeout, DeactivateDone, handleVars
  <2>7. worker = "succeed" /\ is_active(current) /\ state' = [state EXCEPT ![current] = "succeeded"]
    BY <2>4, <2>5, <2>6 DEF ControlEnd, succeeded_current
  <2>8. g = current BY <2>1, <2>7
  <2> QED BY <2>7, <2>8 DEF IInv, PathInv, OnPath
<1> QED BY <1>1, Invariance, PTL DEF Spec, SucceedsOnItsPath

(***************************************************************************)
(* The client with the server.                                             *)
(***************************************************************************)

GoalReply == [goal : Goals, accepted : BOOLEAN]

ClientType ==
  /\ published \in 0..MaxPaths
  /\ goalReqs \in Seq(Goals) /\ goalReplies \in Seq(GoalReply)
  /\ cancelReqs \in Seq(Goals) /\ cancelReplies \in Nat
  /\ current_goal_handle \in Handles

\* Paths reach the server in the order in which they were published, and each is
\* on its way, kept by the client, known to the server, or only shown at the start.
OrderInv ==
  /\ \A h \in Goals : h > published => state[h] = "unsent"
  /\ \A i \in DOMAIN goalReqs :
       /\ goalReqs[i] <= published
       /\ \A h \in Goals : h >= goalReqs[i] => state[h] = "unsent"
       /\ \A j \in DOMAIN goalReqs : i < j => goalReqs[i] < goalReqs[j]
  /\ pending_path # None =>
       /\ pending_path = published /\ published > 0 /\ state[published] = "unsent"
       /\ \A i \in DOMAIN goalReqs : goalReqs[i] < published
  /\ published > 0 /\ state[published] = "unsent" =>
       \/ pending_path # None
       \/ \E i \in DOMAIN goalReqs : goalReqs[i] = published
       \/ goalReqs = <<>> /\ \A h \in Goals : state[h] = "unsent"
  /\ arriving # None => \A h \in Goals : h > arriving => state[h] = "unsent"

\* The server has taken the path published last, and it is next, or current with
\* none next, or nothing is current or next.
LatestInv ==
  published > 0 /\ state[published] \notin {"unsent", "rejected"} /\ arriving # published =>
    \/ preempt_requested /\ pending = published
    \/ current = published /\ ~is_active(pending)
    \/ ~is_active(current) /\ ~is_active(pending)

\* A refused goal was told so.
ReplyInv ==
  \A i \in DOMAIN goalReplies : ~goalReplies[i].accepted => state[goalReplies[i].goal] = "rejected"

FollowInv ==
  IInv /\ ClientType /\ OrderInv /\ LatestInv /\ ReplyInv /\ PendingIsSent /\ NobodyForgotten
-----------------------------------------------------------------------------
(* What the server's own steps do to goals and handles.                    *)

LEMMA GoalNumbers == /\ Goals = 1..MaxPaths /\ MaxPaths \in Nat /\ None \notin Goals
                     /\ \A g \in Goals : g \in Nat /\ g >= 1
BY ClientAssumption, ServerAssumption

\* A step of the server ends goals it works on, and changes no other.
OnlyEnds ==
  \A g \in Goals : \/ state'[g] = state[g]
                   \/ is_active(g) /\ state'[g] \in {"succeeded", "aborted", "canceled"}

\* The operations on the handles that Work and Lifecycle consist of.
LEMMA Operations ==
  ASSUME Work \/ Lifecycle
  PROVE  /\ UNCHANGED arriving
         /\ \/ UNCHANGED handleVars
            \/ terminate_all
            \/ terminate_current
            \/ accept_pending_goal /\ is_active(pending)
            \/ /\ is_active(current) /\ state' = [state EXCEPT ![current] = "succeeded"]
               /\ current' = None /\ UNCHANGED <<pending, preempt_requested>>
<1>1. CASE Work
  <2>1. CASE WorkWhile \/ WorkFinish \/ WorkLeave
    BY <2>1 DEF WorkWhile, WorkFinish, WorkLeave
  <2>2. CASE ControlFetch \/ ControlServerActive \/ ControlCheckCancel \/ ControlCancelAll
             \/ ControlCancelZero \/ ControlCostmap
    BY <2>2 DEF ControlFetch, ControlServerActive, ControlCheckCancel, ControlCancelAll,
                ControlCancelZero, ControlCostmap
  <2>3. CASE \/ ControlSetPath \/ ControlUpdatePath \/ ControlRejectPath \/ ControlVelocity
             \/ ControlPublish \/ ControlStop
    BY <2>3 DEF ControlSetPath, ControlUpdatePath, ControlRejectPath, ControlVelocity,
                ControlPublish, ControlStop
  <2>4. CASE ControlEnd
    BY <2>4 DEF ControlEnd, succeeded_current
  <2> QED
    BY <1>1, <2>1, <2>2, <2>3, <2>4 DEF Work
<1>2. CASE Lifecycle
  BY <1>2 DEF Lifecycle, activate, deactivate, DeactivateTimeout, DeactivateDone
<1> QED
  BY <1>1, <1>2

LEMMA ServerStates ==
  ASSUME IInv, Accepting \/ Work \/ Lifecycle
  PROVE  OnlyEnds /\ arriving' \in {arriving, None}
<1>1. state \in [Goals -> {"unsent", "executing", "canceling"} \cup Final]
  BY DEF IInv, TypeOK
<1>2. ASSUME NEW hs, state' = Terminated(hs) PROVE OnlyEnds
  <2>1. \A g \in Goals : state'[g] = IF g \in hs /\ is_active(g) THEN Ended(state[g]) ELSE state[g]
    BY <1>2, TerminatedState
  <2>2. \A x : Ended(x) \in {"succeeded", "aborted", "canceled"}
    BY DEF Ended
  <2> QED
    BY <2>1, <2>2 DEF OnlyEnds
<1>3. state' = state => OnlyEnds
  BY DEF OnlyEnds
<1>4. CASE Accepting
  BY <1>2, <1>3, <1>4 DEF Accepting, handle_accepted, ReplacePending
<1>5. CASE Work \/ Lifecycle
  <2>1. accept_pending_goal => OnlyEnds
    BY DEF accept_pending_goal, OnlyEnds
  <2>2. ASSUME is_active(current), state' = [state EXCEPT ![current] = "succeeded"] PROVE OnlyEnds
    BY <1>1, <2>2 DEF OnlyEnds
  <2> QED
    BY <1>2, <1>3, <1>5, <2>1, <2>2, Operations DEF terminate_all, terminate_current, handleVars
<1> QED
  BY <1>4, <1>5

\* What follows of it: no goal comes to life, is sent, refused or pardoned.
LEMMA EndsOnly ==
  ASSUME OnlyEnds, NEW g \in Goals
  PROVE  /\ is_active(g)' => is_active(g)
         /\ state'[g] = "unsent" <=> state[g] = "unsent"
         /\ state'[g] = "rejected" <=> state[g] = "rejected"
BY DEF OnlyEnds, is_active

LEMMA LatestServer ==
  ASSUME IInv, ClientType, OrderInv, LatestInv, Accepting \/ Work \/ Lifecycle, UNCHANGED published
  PROVE  LatestInv'
<1> SUFFICES ASSUME published > 0, state'[published] \notin {"unsent", "rejected"},
                    arriving' # published
             PROVE  \/ preempt_requested' /\ pending' = published
                    \/ current' = published /\ ~is_active(pending)'
                    \/ ~is_active(current)' /\ ~is_active(pending)'
  BY DEF LatestInv
<1>1. published \in Goals /\ published # None
  BY GoalNumbers DEF ClientType
<1>2. state[published] \notin {"unsent", "rejected"}
  BY <1>1, ServerStates, EndsOnly
<1>3. \A h \in Handles : is_active(h)' => is_active(h)
  <2>1. \A h \in Goals : is_active(h)' => is_active(h)
    BY ServerStates, EndsOnly
  <2> QED
    BY <2>1 DEF Handles, is_active
<1>4. current \in Handles /\ pending \in Handles /\ arriving \in Handles /\ ~is_active(None)'
  BY DEF IInv, TypeOK, is_active
<1>5. CASE Accepting
  <2>1. arriving = published
    <3>1. arriving \in Goals /\ state[arriving] = "executing"
      BY <1>4, <1>5 DEF Accepting, handle_accepted, IInv, TypeOK, Handles
    <3>2. arriving <= published
      BY <3>1, GoalNumbers DEF OrderInv, ClientType
    <3>3. published <= arriving
      BY <1>1, <1>2, <3>1, GoalNumbers DEF OrderInv
    <3> QED
      BY <1>1, <3>1, <3>2, <3>3, GoalNumbers
  <2>2. CASE is_active(current) \/ is_running
    BY <1>5, <2>1, <2>2 DEF Accepting, handle_accepted
  <2>3. CASE ~(is_active(current) \/ is_running)
    <3>1. /\ current' = published
          /\ is_active(pending) => pending' = None
          /\ ~is_active(pending) => pending' = pending
      BY <1>5, <2>1, <2>3 DEF Accepting, handle_accepted
    <3> QED
      BY <1>3, <1>4, <3>1
  <2> QED
    BY <2>2, <2>3
<1>6. CASE Work \/ Lifecycle
  <2>1. \/ preempt_requested /\ pending = published
        \/ current = published /\ ~is_active(pending)
        \/ ~is_active(current) /\ ~is_active(pending)
    BY <1>2, <1>6, Operations DEF LatestInv
  <2>2. CASE UNCHANGED handleVars
    BY <2>1, <2>2 DEF handleVars, is_active
  <2>3. Held /\ TypeOK /\ UNCHANGED arriving
    BY <1>6, HeldNow, Operations
  <2>4. CASE terminate_all
    <3>1. ~is_active(current)'
      BY <2>3, <2>4, TerminateAll
    <3>2. ~is_active(pending)'
      BY <1>3, <1>4, <2>4 DEF terminate_all, Released
    <3> QED
      BY <3>1, <3>2
  <2>5. CASE terminate_current
    <3>1. ~is_active(current)' /\ UNCHANGED <<pending, preempt_requested>>
      BY <2>3, <2>5, TerminateCurrent
    <3> QED
      BY <1>3, <1>4, <2>1, <3>1
  <2>6. CASE accept_pending_goal /\ is_active(pending)
    BY <1>4, <2>1, <2>6 DEF accept_pending_goal
  <2>7. CASE current' = None /\ UNCHANGED <<pending, preempt_requested>>
    BY <1>3, <1>4, <2>1, <2>7
  <2> QED
    BY <1>6, <2>2, <2>4, <2>5, <2>6, <2>7, Operations
<1> QED
  BY <1>5, <1>6
-----------------------------------------------------------------------------
(* The steps of the client and the server together.                        *)

LEMMA Steps ==
  ASSUME [FollowNext]_allVars
  PROVE  \/ SendPath /\ UNCHANGED serverVars
         \/ UNCHANGED <<clientVars, messageVars, serverVars>>
         \/ send_pending
         \/ goal_response_callback
         \/ \E g \in Goals : result_callback(g)
         \/ TakeGoal
         \/ TakeCancel
         \/ Alive /\ (Accepting \/ Work \/ Lifecycle) /\ UNCHANGED <<clientVars, messageVars>>
<1>1. CASE UNCHANGED allVars
  BY <1>1 DEF allVars
<1>2. CASE path_callback \/ goal_callback \/ ServerRuns
  BY <1>2 DEF path_callback, goal_callback, ServerRuns
<1>3. ASSUME NEW r \in Requests, planner_goal_response_callback(r) \/ planner_result_callback(r)
      PROVE  \/ SendPath /\ UNCHANGED serverVars
             \/ UNCHANGED <<clientVars, messageVars, serverVars>>
  BY <1>3 DEF planner_goal_response_callback, planner_result_callback
<1> QED
  BY <1>1, <1>2, <1>3 DEF FollowNext

\* Seen from the server, each is a step of its own specification.
LEMMA ServerSees == ClientType /\ [FollowNext]_allVars => [Next]_vars
<1> SUFFICES ASSUME ClientType, [FollowNext]_allVars PROVE [Next]_vars
  OBVIOUS
<1>1. CASE TakeGoal
  <2>1. Head(goalReqs) \in Goals
    BY <1>1 DEF TakeGoal, ClientType
  <2> QED
    BY <1>1, <2>1 DEF TakeGoal, Next, Client
<1>2. CASE TakeCancel
  <2>1. Head(cancelReqs) \in Goals
    BY <1>2 DEF TakeCancel, ClientType
  <2> QED
    BY <1>2, <2>1 DEF TakeCancel, Next, Client, serverVars
<1>3. Alive /\ (Accepting \/ Work \/ Lifecycle) => Next
  BY DEF Next
<1>4. send_pending \/ goal_response_callback \/ (\E g \in Goals : result_callback(g)) => UNCHANGED vars
  BY DEF send_pending, goal_response_callback, result_callback, serverVars
<1> QED
  BY <1>1, <1>2, <1>3, <1>4, Steps DEF serverVars

LEMMA ServerInv == ClientType /\ IInv /\ [FollowNext]_allVars => IInv'
BY ServerSees, InvNext

\* What OrderInv says does not depend on which goals the server has ended.
LEMMA OrderKept ==
  ASSUME ClientType, OrderInv, UNCHANGED <<published, goalReqs, pending_path>>,
         \A h \in Goals : state'[h] = "unsent" <=> state[h] = "unsent",
         arriving' \in {arriving, None}
  PROVE  OrderInv'
<1>1. published > 0 => published \in Goals
  BY GoalNumbers DEF ClientType
<1> QED
  BY <1>1 DEF OrderInv

\* send_path() keeps every invariant: the path is not yet known to the server.
LEMMA SendPathNext ==
  ASSUME ClientType, IInv, OrderInv, SendPath, UNCHANGED serverVars
  PROVE  ClientType' /\ OrderInv' /\ LatestInv' /\ PendingIsSent'
<1>1. /\ published' = published + 1 /\ published < MaxPaths /\ published \in Nat
      /\ published' \in Goals /\ published' > 0 /\ published' # None
      /\ UNCHANGED <<goalReplies, cancelReplies, current_goal_handle, state, arriving>>
  BY GoalNumbers DEF SendPath, ClientType, serverVars, vars, handleVars
<1>2. state[published'] = "unsent" /\ \A h \in Goals : h > published' => state[h] = "unsent"
  BY <1>1, GoalNumbers DEF OrderInv
<1>3. LatestInv'
  BY <1>1, <1>2 DEF LatestInv
<1>4. CASE current_goal_handle # None
  <2>1. /\ pending_path' = published' /\ UNCHANGED goalReqs
        /\ cancelReqs' = Append(cancelReqs, current_goal_handle)
    BY <1>4 DEF SendPath
  <2>2. ClientType'
    BY <1>1, <1>4, <2>1, GoalNumbers DEF ClientType, Handles
  <2>3. \A i \in DOMAIN goalReqs : goalReqs[i] \in Nat /\ goalReqs[i] <= published
    BY GoalNumbers DEF ClientType, OrderInv
  <2>4. \A i \in DOMAIN goalReqs : goalReqs[i] < published' /\ goalReqs[i] <= published'
    BY <1>1, <2>3
  <2>5. OrderInv'
    BY <1>1, <1>2, <2>1, <2>4 DEF OrderInv
  <2>6. PendingIsSent'
    BY <2>1 DEF PendingIsSent, ClientType
  <2> QED
    BY <1>3, <2>2, <2>5, <2>6
<1>5. CASE current_goal_handle = None
  <2>1. /\ goalReqs' = Append(goalReqs, published') /\ pending_path' = None
        /\ UNCHANGED cancelReqs
    BY <1>5 DEF SendPath
  <2>2. ClientType'
    BY <1>1, <2>1, GoalNumbers DEF ClientType
  <2>3. PendingIsSent'
    BY <2>1 DEF PendingIsSent
  <2>4. /\ Len(goalReqs) \in Nat /\ DOMAIN goalReqs = 1..Len(goalReqs)
        /\ DOMAIN goalReqs' = 1..(Len(goalReqs) + 1)
        /\ \A i \in DOMAIN goalReqs : goalReqs'[i] = goalReqs[i] /\ goalReqs[i] \in Nat
        /\ goalReqs'[Len(goalReqs) + 1] = published'
    BY <1>1, <2>1, GoalNumbers DEF ClientType
  <2>5. ASSUME NEW i \in DOMAIN goalReqs'
        PROVE  /\ goalReqs'[i] <= published'
               /\ \A h \in Goals : h >= goalReqs'[i] => state[h] = "unsent"
               /\ \A j \in DOMAIN goalReqs' : i < j => goalReqs'[i] < goalReqs'[j]
    <3>1. CASE i \in DOMAIN goalReqs
      <4>1. /\ goalReqs[i] <= published /\ goalReqs[i] \in Nat /\ goalReqs'[i] = goalReqs[i]
            /\ \A h \in Goals : h >= goalReqs[i] => state[h] = "unsent"
        BY <2>4, <3>1 DEF OrderInv
      <4>2. ASSUME NEW j \in DOMAIN goalReqs', i < j PROVE goalReqs'[i] < goalReqs'[j]
        <5>1. CASE j \in DOMAIN goalReqs
          BY <2>4, <3>1, <4>2, <5>1 DEF OrderInv
        <5>2. CASE j = Len(goalReqs) + 1
          BY <1>1, <2>4, <4>1, <5>2
        <5> QED
          BY <2>4, <5>1, <5>2
      <4> QED
        BY <1>1, <4>1, <4>2
    <3>2. CASE i = Len(goalReqs) + 1
      <4>1. \A h \in Goals : h >= published' => state[h] = "unsent"
        BY <1>1, <1>2, GoalNumbers
      <4>2. \A j \in DOMAIN goalReqs' : ~(i < j)
        BY <2>4, <3>2
      <4> QED
        BY <1>1, <2>4, <3>2, <4>1, <4>2
    <3> QED
      BY <2>4, <3>1, <3>2
  <2>6. \E i \in DOMAIN goalReqs' : goalReqs'[i] = published'
    BY <2>4
  <2>7. OrderInv'
    <3>1. \A h \in Goals : h > published' => state'[h] = "unsent"
      BY <1>1, <1>2
    <3>2. arriving' # None => \A h \in Goals : h > arriving' => state'[h] = "unsent"
      BY <1>1 DEF OrderInv
    <3> QED
      BY <1>1, <2>1, <2>5, <2>6, <3>1, <3>2 DEF OrderInv
  <2> QED
    BY <1>3, <2>2, <2>3, <2>7
<1> QED
  BY <1>4, <1>5

\* _send_pending(): the path kept becomes the last request.
LEMMA SendPendingNext ==
  ASSUME ClientType, IInv, OrderInv, LatestInv, send_pending
  PROVE  ClientType' /\ OrderInv' /\ LatestInv' /\ PendingIsSent'
<1>1. /\ cancelReplies > 0 /\ cancelReplies' = cancelReplies - 1
      /\ pending_path' = None /\ current_goal_handle' = None
      /\ UNCHANGED <<published, goalReplies, cancelReqs, state, arriving, current, pending,
                     preempt_requested>>
  BY DEF send_pending, serverVars, vars, handleVars
<1>2. LatestInv' /\ PendingIsSent'
  BY <1>1 DEF LatestInv, PendingIsSent, is_active
<1>3. CASE pending_path = None
  <2>1. goalReqs' = goalReqs /\ pending_path' = pending_path
    BY <1>1, <1>3 DEF send_pending
  <2>2. ClientType'
    BY <1>1, <2>1 DEF ClientType, Handles
  <2> QED
    BY <1>1, <1>2, <2>1, <2>2, OrderKept
<1>4. CASE pending_path # None
  <2>1. /\ goalReqs' = Append(goalReqs, published) /\ published > 0 /\ published \in Goals
        /\ state[published] = "unsent" /\ \A i \in DOMAIN goalReqs : goalReqs[i] < published
    BY <1>4, GoalNumbers DEF send_pending, OrderInv, ClientType
  <2>2. ClientType'
    BY <1>1, <2>1 DEF ClientType, Handles
  <2>3. /\ Len(goalReqs) \in Nat /\ DOMAIN goalReqs = 1..Len(goalReqs)
        /\ DOMAIN goalReqs' = 1..(Len(goalReqs) + 1)
        /\ \A i \in DOMAIN goalReqs : goalReqs'[i] = goalReqs[i] /\ goalReqs[i] \in Nat
        /\ goalReqs'[Len(goalReqs) + 1] = published
    BY <2>1, GoalNumbers DEF ClientType
  <2>4. ASSUME NEW i \in DOMAIN goalReqs'
        PROVE  /\ goalReqs'[i] <= published
               /\ \A h \in Goals : h >= goalReqs'[i] => state[h] = "unsent"
               /\ \A j \in DOMAIN goalReqs' : i < j => goalReqs'[i] < goalReqs'[j]
    <3>1. CASE i \in DOMAIN goalReqs
      <4>1. ASSUME NEW j \in DOMAIN goalReqs', i < j PROVE goalReqs'[i] < goalReqs'[j]
        <5>1. CASE j \in DOMAIN goalReqs
          BY <2>3, <3>1, <4>1, <5>1 DEF OrderInv
        <5>2. CASE j = Len(goalReqs) + 1
          BY <2>1, <2>3, <3>1, <5>2
        <5> QED
          BY <2>3, <5>1, <5>2
      <4> QED
        BY <2>3, <3>1, <4>1 DEF OrderInv
    <3>2. CASE i = Len(goalReqs) + 1
      <4>1. \A h \in Goals : h >= published => state[h] = "unsent"
        BY <2>1, GoalNumbers DEF OrderInv
      <4>2. \A j \in DOMAIN goalReqs' : ~(i < j)
        BY <2>3, <3>2
      <4> QED
        BY <2>1, <2>3, <3>2, <4>1, <4>2, GoalNumbers
    <3> QED
      BY <2>3, <3>1, <3>2
  <2>5. \E i \in DOMAIN goalReqs' : goalReqs'[i] = published
    BY <2>3
  <2>6. OrderInv'
    BY <1>1, <2>4, <2>5 DEF OrderInv
  <2> QED
    BY <1>2, <2>2, <2>6
<1> QED
  BY <1>3, <1>4

\* A request is taken: those behind it are newer.
LEMMA TakeGoalNext ==
  ASSUME ClientType, IInv, OrderInv, LatestInv, TakeGoal
  PROVE  /\ OrderInv' /\ LatestInv' /\ goalReqs' \in Seq(Goals)
         /\ \E g \in Goals :
              /\ state[g] = "unsent" /\ arriving = None
              /\ goalReplies' = Append(goalReplies, [goal |-> g, accepted |-> server_active])
              /\ state' = [state EXCEPT ![g] = IF server_active THEN "executing" ELSE "rejected"]
<1> DEFINE g == Head(goalReqs)
<1>1. /\ goalReqs # <<>> /\ handle_goal(g) /\ goalReqs' = Tail(goalReqs)
      /\ goalReplies' = Append(goalReplies, [goal |-> g, accepted |-> server_active])
      /\ UNCHANGED <<published, pending_path>>
  BY DEF TakeGoal, clientVars
<1>2. g \in Goals /\ g = goalReqs[1] /\ 1 \in DOMAIN goalReqs /\ goalReqs' \in Seq(Goals)
  BY <1>1 DEF ClientType
<1>3. \A i \in DOMAIN goalReqs' : i + 1 \in DOMAIN goalReqs /\ goalReqs'[i] = goalReqs[i + 1]
  BY <1>1 DEF ClientType
<1>4. \A i \in DOMAIN goalReqs : i # 1 => i - 1 \in DOMAIN goalReqs' /\ goalReqs'[i - 1] = goalReqs[i]
  BY <1>1 DEF ClientType
<1> HIDE DEF g
<1>5. /\ arriving = None /\ state[g] = "unsent"
      /\ state' = [state EXCEPT ![g] = IF server_active THEN "executing" ELSE "rejected"]
      /\ IF server_active THEN arriving' = g ELSE arriving' = None
  BY <1>1 DEF handle_goal
<1>6. \A h \in Goals : h # g => state'[h] = state[h]
  BY <1>5 DEF IInv, TypeOK
<1>7. /\ g \in Nat /\ g <= published /\ published \in Nat /\ (published > 0 => published \in Goals)
      /\ \A h \in Goals : h >= g => state[h] = "unsent"
  BY <1>2, GoalNumbers DEF OrderInv, ClientType
<1>8. \A i \in DOMAIN goalReqs' : goalReqs'[i] > g /\ goalReqs'[i] \in Nat
  <2> TAKE i \in DOMAIN goalReqs'
  <2>1. i \in Nat /\ i >= 1 /\ i + 1 \in DOMAIN goalReqs /\ goalReqs'[i] = goalReqs[i + 1]
    BY <1>2, <1>3
  <2>2. goalReqs[1] < goalReqs[i + 1] /\ goalReqs[i + 1] \in Goals
    BY <1>2, <2>1 DEF OrderInv, ClientType
  <2> QED
    BY <1>2, <1>7, <2>1, <2>2, GoalNumbers
<1>9. LatestInv'
  BY <1>1, <1>2, <1>5, <1>6, <1>7, GoalNumbers DEF LatestInv, IInv, TypeOK
<1>10. OrderInv'
  <2>1. \A h \in Goals : h > published => state'[h] = "unsent"
    BY <1>6, <1>7, GoalNumbers DEF OrderInv
  <2>2. ASSUME NEW i \in DOMAIN goalReqs'
        PROVE  /\ goalReqs'[i] <= published
               /\ \A h \in Goals : h >= goalReqs'[i] => state'[h] = "unsent"
               /\ \A j \in DOMAIN goalReqs' : i < j => goalReqs'[i] < goalReqs'[j]
    <3>1. /\ i + 1 \in DOMAIN goalReqs /\ goalReqs'[i] = goalReqs[i + 1]
          /\ goalReqs'[i] > g /\ goalReqs'[i] \in Nat /\ i \in Nat
      BY <1>2, <1>3, <1>8
    <3>2. ASSUME NEW h \in Goals, h >= goalReqs'[i] PROVE state'[h] = "unsent"
      BY <1>6, <1>7, <3>1, <3>2, GoalNumbers DEF OrderInv
    <3>3. ASSUME NEW j \in DOMAIN goalReqs', i < j PROVE goalReqs'[i] < goalReqs'[j]
      <4>1. /\ j + 1 \in DOMAIN goalReqs /\ goalReqs'[j] = goalReqs[j + 1] /\ j \in Nat
            /\ i + 1 < j + 1
        BY <1>2, <1>3, <3>1, <3>3
      <4> QED
        BY <3>1, <4>1 DEF OrderInv
    <3>4. goalReqs'[i] <= published
      BY <3>1 DEF OrderInv
    <3> QED
      BY <3>2, <3>3, <3>4
  <2>3. pending_path # None =>
          /\ pending_path = published /\ published > 0 /\ state'[published] = "unsent"
          /\ \A i \in DOMAIN goalReqs' : goalReqs'[i] < published
    <3> SUFFICES ASSUME pending_path # None
                 PROVE  /\ pending_path = published /\ published > 0 /\ state'[published] = "unsent"
                        /\ \A i \in DOMAIN goalReqs' : goalReqs'[i] < published
      OBVIOUS
    <3>1. /\ pending_path = published /\ published > 0 /\ state[published] = "unsent"
          /\ \A i \in DOMAIN goalReqs : goalReqs[i] < published
      BY DEF OrderInv
    <3>2. published # g
      BY <1>2, <1>7, <3>1
    <3> QED
      BY <1>3, <1>6, <1>7, <3>1, <3>2
  <2>4. ASSUME published > 0, state'[published] = "unsent", pending_path = None
        PROVE  \E i \in DOMAIN goalReqs' : goalReqs'[i] = published
    <3>1. published # g
      BY <1>2, <1>5, <2>4 DEF IInv, TypeOK
    <3>2. state[published] = "unsent"
      BY <1>6, <1>7, <2>4, <3>1
    <3>3. PICK i \in DOMAIN goalReqs : goalReqs[i] = published
      BY <1>1, <2>4, <3>2 DEF OrderInv
    <3>4. i # 1
      BY <1>2, <3>1, <3>3
    <3> QED
      BY <1>4, <3>3, <3>4
  <2>5. arriving' # None => \A h \in Goals : h > arriving' => state'[h] = "unsent"
    BY <1>2, <1>5, <1>6, <1>7, GoalNumbers
  <2> QED
    BY <1>1, <2>1, <2>2, <2>3, <2>4, <2>5 DEF OrderInv
<1> QED
  BY <1>1, <1>2, <1>5, <1>9, <1>10

LEMMA TakeCancelNext ==
  ASSUME ClientType, IInv, OrderInv, LatestInv, TakeCancel
  PROVE  /\ ClientType' /\ OrderInv' /\ LatestInv' /\ PendingIsSent'
         /\ \A h \in Goals : /\ is_active(h)' => is_active(h)
                             /\ state'[h] = "rejected" <=> state[h] = "rejected"
<1> DEFINE g == Head(cancelReqs)
<1>1. /\ cancelReqs # <<>> /\ cancelReqs' = Tail(cancelReqs) /\ cancelReplies' = cancelReplies + 1
      /\ UNCHANGED <<clientVars, goalReqs, goalReplies>>
      /\ handle_cancel(g) \/ UNCHANGED serverVars
  BY DEF TakeCancel
<1>2. g \in Goals
  BY <1>1 DEF ClientType
<1> HIDE DEF g
<1>3. ClientType'
  BY <1>1 DEF ClientType, clientVars
<1>4. /\ UNCHANGED <<arriving, current, pending, preempt_requested>>
      /\ \/ state' = state
         \/ state[g] = "executing" /\ state' = [state EXCEPT ![g] = "canceling"]
  BY <1>1 DEF handle_cancel, serverVars, vars, handleVars
<1>5. \A h \in Goals : \/ state'[h] = state[h]
                       \/ state[h] = "executing" /\ state'[h] = "canceling"
  BY <1>2, <1>4 DEF IInv, TypeOK
<1>6. /\ \A h \in Goals : /\ state'[h] = "unsent" <=> state[h] = "unsent"
                          /\ state'[h] = "rejected" <=> state[h] = "rejected"
      /\ \A h \in Handles : is_active(h)' <=> is_active(h)
  BY <1>5 DEF is_active, Handles
<1>7. OrderInv'
  BY <1>1, <1>4, <1>6, OrderKept DEF clientVars
<1>8. LatestInv'
  <2>1. current \in Handles /\ pending \in Handles
    BY DEF IInv, TypeOK
  <2>2. published > 0 => published \in Goals
    BY GoalNumbers DEF ClientType
  <2>3. /\ is_active(current)' <=> is_active(current)
        /\ is_active(pending)' <=> is_active(pending)
    BY <1>4, <1>6, <2>1
  <2>4. published' = published
    BY <1>1 DEF clientVars
  <2> QED
    BY <1>4, <1>6, <2>2, <2>3, <2>4 DEF LatestInv
<1>9. PendingIsSent'
  <2>1. cancelReplies' > 0
    BY <1>1 DEF ClientType
  <2> QED
    BY <2>1 DEF PendingIsSent
<1> QED
  BY <1>3, <1>6, <1>7, <1>8, <1>9 DEF Handles

\* The answers, and who waits for a result.
Waited(g) == g \in resultReqs \/ \E i \in DOMAIN goalReplies : goalReplies[i].goal = g

LEMMA ReplyType ==
  ASSUME goalReplies \in Seq(GoalReply), NEW i \in DOMAIN goalReplies
  PROVE  goalReplies[i].goal \in Goals /\ goalReplies[i].accepted \in BOOLEAN
<1>1. goalReplies[i] \in GoalReply
  OBVIOUS
<1> QED
  BY <1>1 DEF GoalReply

\* Unless an answer or a result is taken, nobody is forgotten by a step that
\* brings no goal to life.
LEMMA WaitedKept ==
  ASSUME ReplyInv, NobodyForgotten, UNCHANGED <<goalReplies, resultReqs>>,
         goalReplies \in Seq(GoalReply),
         \A h \in Goals : /\ is_active(h)' => is_active(h)
                          /\ state[h] = "rejected" => state'[h] = "rejected"
  PROVE  ReplyInv' /\ NobodyForgotten'
<1>1. \A i \in DOMAIN goalReplies : goalReplies[i].goal \in Goals
  BY ReplyType
<1>2. ReplyInv'
  BY <1>1 DEF ReplyInv
<1>3. NobodyForgotten'
  BY DEF NobodyForgotten
<1> QED
  BY <1>2, <1>3

LEMMA ReplyNext ==
  ASSUME FollowInv, [FollowNext]_allVars
  PROVE  ReplyInv' /\ NobodyForgotten' /\ goalReplies' \in Seq(GoalReply)
<1>0. goalReplies \in Seq(GoalReply)
  BY DEF FollowInv, ClientType
<1>1. CASE goal_response_callback
  <2> DEFINE reply == Head(goalReplies)
  <2>1. /\ goalReplies # <<>> /\ goalReplies' = Tail(goalReplies)
        /\ reply.accepted => resultReqs' = resultReqs \cup {reply.goal}
        /\ ~reply.accepted => resultReqs' = resultReqs
        /\ UNCHANGED state
    BY <1>1 DEF goal_response_callback, serverVars, vars, handleVars
  <2>2. goalReplies' \in Seq(GoalReply) /\ reply = goalReplies[1] /\ 1 \in DOMAIN goalReplies
    BY <1>0, <2>1
  <2>3. \A i \in DOMAIN goalReplies' :
          i + 1 \in DOMAIN goalReplies /\ goalReplies'[i] = goalReplies[i + 1]
    BY <1>0, <2>1
  <2>4. \A i \in DOMAIN goalReplies :
          i # 1 => i - 1 \in DOMAIN goalReplies' /\ goalReplies'[i - 1] = goalReplies[i]
    BY <1>0, <2>1
  <2>5. reply.accepted \in BOOLEAN /\ (~reply.accepted => ~is_active(reply.goal))
    BY <1>0, <2>2, ReplyType DEF FollowInv, ReplyInv, is_active
  <2> HIDE DEF reply
  <2>6. ReplyInv'
    BY <2>1, <2>3 DEF FollowInv, ReplyInv
  <2>7. ASSUME NEW h \in Goals, is_active(h)'
        PROVE  h \in resultReqs' \/ \E i \in DOMAIN goalReplies' : goalReplies'[i].goal = h
    <3>1. is_active(h)
      BY <2>1, <2>7 DEF is_active
    <3>2. CASE h \in resultReqs
      BY <2>1, <2>5, <3>2
    <3>3. ASSUME NEW i \in DOMAIN goalReplies, goalReplies[i].goal = h
          PROVE  h \in resultReqs' \/ \E j \in DOMAIN goalReplies' : goalReplies'[j].goal = h
      <4>1. CASE i = 1
        BY <2>1, <2>2, <2>5, <3>1, <3>3, <4>1
      <4>2. CASE i # 1
        BY <2>4, <3>3, <4>2
      <4> QED
        BY <4>1, <4>2
    <3> QED
      BY <3>1, <3>2, <3>3 DEF FollowInv, NobodyForgotten
  <2> QED
    BY <2>2, <2>6, <2>7 DEF NobodyForgotten
<1>2. ASSUME NEW g \in Goals, result_callback(g) PROVE ReplyInv' /\ NobodyForgotten' /\ UNCHANGED goalReplies
  <2>1. /\ state[g] \in Final /\ resultReqs' = resultReqs \ {g}
        /\ UNCHANGED <<goalReplies, state>>
    BY <1>2 DEF result_callback, serverVars, vars, handleVars
  <2>2. ~is_active(g)
    BY <2>1 DEF is_active, Final
  <2> QED
    BY <2>1, <2>2 DEF FollowInv, ReplyInv, NobodyForgotten, is_active
<1>3. CASE TakeGoal
  <2>1. PICK g \in Goals :
          /\ state[g] = "unsent"
          /\ goalReplies' = Append(goalReplies, [goal |-> g, accepted |-> server_active])
          /\ state' = [state EXCEPT ![g] = IF server_active THEN "executing" ELSE "rejected"]
    BY <1>3, TakeGoalNext DEF FollowInv
  <2> DEFINE reply == [goal |-> g, accepted |-> server_active]
  <2>2. reply \in GoalReply /\ reply.goal = g /\ (~reply.accepted => ~server_active)
    BY DEF FollowInv, IInv, TypeOK, GoalReply
  <2>3. goalReplies' = Append(goalReplies, reply) /\ resultReqs' = resultReqs
    BY <1>3, <2>1 DEF TakeGoal
  <2> HIDE DEF reply
  <2>4. /\ goalReplies' \in Seq(GoalReply)
        /\ Len(goalReplies) \in Nat /\ DOMAIN goalReplies = 1..Len(goalReplies)
        /\ DOMAIN goalReplies' = 1..(Len(goalReplies) + 1)
        /\ \A i \in DOMAIN goalReplies : goalReplies'[i] = goalReplies[i]
        /\ goalReplies'[Len(goalReplies) + 1] = reply
    BY <1>0, <2>2, <2>3
  <2>5. /\ \A h \in Goals : h # g => state'[h] = state[h]
        /\ state'[g] = IF server_active THEN "executing" ELSE "rejected"
    BY <2>1 DEF FollowInv, IInv, TypeOK
  <2>6. ASSUME NEW i \in DOMAIN goalReplies', ~goalReplies'[i].accepted
        PROVE  state'[goalReplies'[i].goal] = "rejected"
    <3>1. CASE i \in DOMAIN goalReplies
      <4>1. state[goalReplies[i].goal] = "rejected" /\ goalReplies[i].goal \in Goals
        BY <1>0, <2>4, <2>6, <3>1, ReplyType DEF FollowInv, ReplyInv
      <4> QED
        BY <2>1, <2>4, <2>5, <3>1, <4>1
    <3>2. CASE i = Len(goalReplies) + 1
      BY <2>2, <2>4, <2>5, <2>6, <3>2
    <3> QED
      BY <2>4, <3>1, <3>2
  <2>7. ASSUME NEW h \in Goals, is_active(h)'
        PROVE  h \in resultReqs' \/ \E i \in DOMAIN goalReplies' : goalReplies'[i].goal = h
    <3>1. CASE h = g
      BY <2>2, <2>4, <3>1
    <3>2. CASE h # g
      <4>1. is_active(h)
        BY <2>5, <2>7, <3>2 DEF is_active
      <4> QED
        BY <2>3, <2>4, <4>1 DEF FollowInv, NobodyForgotten
    <3> QED
      BY <3>1, <3>2
  <2> QED
    BY <2>4, <2>6, <2>7 DEF ReplyInv, NobodyForgotten
<1>4. CASE TakeCancel
  <2>1. UNCHANGED <<goalReplies, resultReqs>>
    BY <1>4 DEF TakeCancel
  <2> QED
    BY <1>0, <1>4, <2>1, TakeCancelNext, WaitedKept DEF FollowInv
<1>5. CASE (Accepting \/ Work \/ Lifecycle) /\ UNCHANGED <<clientVars, messageVars>>
  <2>1. UNCHANGED <<goalReplies, resultReqs>>
    BY <1>5 DEF messageVars
  <2>2. \A h \in Goals : /\ is_active(h)' => is_active(h)
                         /\ state[h] = "rejected" => state'[h] = "rejected"
    BY <1>5, ServerStates, EndsOnly DEF FollowInv
  <2> QED
    BY <1>0, <2>1, <2>2, WaitedKept DEF FollowInv
<1>6. ASSUME UNCHANGED <<goalReplies, resultReqs, state>>
      PROVE  ReplyInv' /\ NobodyForgotten' /\ goalReplies' \in Seq(GoalReply)
  BY <1>0, <1>6 DEF FollowInv, ReplyInv, NobodyForgotten, is_active
<1>7. CASE SendPath /\ UNCHANGED serverVars
  BY <1>6, <1>7 DEF SendPath, serverVars, vars, handleVars
<1>8. CASE UNCHANGED <<clientVars, messageVars, serverVars>>
  BY <1>6, <1>8 DEF messageVars, serverVars, vars, handleVars
<1>9. CASE send_pending
  BY <1>6, <1>9 DEF send_pending, serverVars, vars, handleVars
<1> QED
  BY <1>0, <1>1, <1>2, <1>3, <1>4, <1>5, <1>7, <1>8, <1>9, Steps

LEMMA FollowNextInv == FollowInv /\ [FollowNext]_allVars => FollowInv'
<1> SUFFICES ASSUME FollowInv, [FollowNext]_allVars PROVE FollowInv'
  OBVIOUS
<1> DEFINE Rest == ClientType' /\ OrderInv' /\ LatestInv' /\ PendingIsSent'
<1>0. ClientType /\ IInv /\ OrderInv /\ LatestInv /\ ReplyInv /\ PendingIsSent /\ NobodyForgotten
  BY DEF FollowInv
<1>1. IInv' /\ ReplyInv' /\ NobodyForgotten' /\ goalReplies' \in Seq(GoalReply)
  BY <1>0, ServerInv, ReplyNext
<1>2. ASSUME UNCHANGED <<clientVars, messageVars, serverVars>> PROVE Rest
  BY <1>0, <1>2 DEF ClientType, OrderInv, LatestInv, PendingIsSent, clientVars, messageVars,
                    serverVars, vars, handleVars, is_active
<1>3. ASSUME goal_response_callback \/ \E g \in Goals : result_callback(g) PROVE Rest
  <2>1. /\ UNCHANGED <<pending_path, published, goalReqs, cancelReqs, cancelReplies>>
        /\ UNCHANGED <<state, arriving, current, pending, preempt_requested>>
    BY <1>3 DEF goal_response_callback, result_callback, serverVars, vars, handleVars
  <2>2. current_goal_handle' \in Handles
    <3>1. CASE goal_response_callback
      <4>1. Head(goalReplies) \in GoalReply
        BY <1>0, <3>1 DEF goal_response_callback, ClientType
      <4> QED
        BY <3>1, <4>1 DEF goal_response_callback, GoalReply, Handles
    <3>2. CASE \E g \in Goals : result_callback(g)
      BY <3>2 DEF result_callback, Handles
    <3> QED
      BY <1>3, <3>1, <3>2
  <2> QED
    BY <1>0, <1>1, <2>1, <2>2 DEF ClientType, OrderInv, LatestInv, PendingIsSent, is_active
<1>4. ASSUME TakeGoal PROVE Rest
  <2>1. UNCHANGED <<clientVars, cancelReqs, cancelReplies>>
    BY <1>4 DEF TakeGoal
  <2>2. OrderInv' /\ LatestInv' /\ goalReqs' \in Seq(Goals)
    BY <1>0, <1>4, TakeGoalNext
  <2> QED
    BY <1>0, <1>1, <2>1, <2>2 DEF ClientType, PendingIsSent, clientVars
<1>5. ASSUME Accepting \/ Work \/ Lifecycle, UNCHANGED <<clientVars, messageVars>> PROVE Rest
  <2>1. LatestInv'
    BY <1>0, <1>5, LatestServer DEF clientVars
  <2>2. \A h \in Goals : state'[h] = "unsent" <=> state[h] = "unsent"
    BY <1>0, <1>5, ServerStates, EndsOnly
  <2>3. OrderInv'
    BY <1>0, <1>5, <2>2, ServerStates, OrderKept DEF clientVars, messageVars
  <2> QED
    BY <1>0, <1>5, <2>1, <2>3 DEF ClientType, PendingIsSent, clientVars, messageVars
<1>6. Rest
  BY <1>0, <1>2, <1>3, <1>4, <1>5, Steps, SendPathNext, SendPendingNext, TakeCancelNext
<1> QED
  BY <1>1, <1>6 DEF FollowInv

LEMMA FollowAlways == FollowSpec => []FollowInv
<1>1. FollowInit => FollowInv
  <2> SUFFICES ASSUME FollowInit PROVE FollowInv
    OBVIOUS
  <2>1. IInv
    BY InvInit DEF FollowInit
  <2>2. /\ pending_path = None /\ goalReplies = <<>>
        /\ cancelReqs = <<>> /\ cancelReplies = 0 /\ current_goal_handle = None
        /\ state = [g \in Goals |-> "unsent"] /\ arriving = None
        /\ \/ published = 0 /\ goalReqs = <<>>
           \/ published = 1 /\ MaxPaths >= 1 /\ goalReqs \in {<<>>, <<1>>}
    BY DEF FollowInit, ClientInit, Init
  <2>3. ClientType
    <3>1. <<>> \in Seq(Goals) /\ <<>> \in Seq(GoalReply) /\ published \in 0..MaxPaths
      BY <2>2, GoalNumbers
    <3>2. goalReqs \in Seq(Goals)
      <4>1. MaxPaths >= 1 => 1 \in Goals
        BY GoalNumbers
      <4>2. \A g \in Goals : <<g>> \in Seq(Goals)
        OBVIOUS
      <4> QED
        BY <2>2, <3>1, <4>1, <4>2
    <3> QED
      BY <2>2, <3>1, <3>2 DEF ClientType, Handles
  <2>4. OrderInv
    <3>1. CASE goalReqs = <<>>
      BY <2>2, <3>1 DEF OrderInv
    <3>2. CASE goalReqs = <<1>>
      <4>1. published = 1 /\ DOMAIN goalReqs = {1} /\ goalReqs[1] = 1
        BY <2>2, <3>2
      <4> QED
        BY <2>2, <4>1 DEF OrderInv
    <3> QED
      BY <2>2, <3>1, <3>2
  <2>5. LatestInv /\ ReplyInv /\ PendingIsSent /\ NobodyForgotten
    <3>1. published > 0 => published \in Goals
      BY <2>2, GoalNumbers
    <3> QED
      BY <2>2, <3>1 DEF LatestInv, ReplyInv, PendingIsSent, NobodyForgotten, is_active
  <2> QED
    BY <2>1, <2>3, <2>4, <2>5 DEF FollowInv
<1> QED
  BY <1>1, FollowNextInv, PTL DEF FollowSpec

\* The client forgets no path that waits for a cancellation.
THEOREM Sent == FollowSpec => []PendingIsSent
BY FollowAlways, PTL DEF FollowInv

\* Of every goal the server works on, the client hears the result.
THEOREM Heard == FollowSpec => []NobodyForgotten
BY FollowAlways, PTL DEF FollowInv

\* When nothing is under way, the server works on the path published last.
THEOREM Follows == FollowSpec => []FollowsPublished
<1>1. FollowInv => FollowsPublished
  <2> SUFFICES ASSUME FollowInv, Quiet, is_active(current), ~preempt_requested,
                      state[published] # "rejected"
               PROVE  current = published
    BY DEF FollowsPublished
  <2>1. current \in Goals /\ state[current] # "unsent"
    BY DEF is_active, FollowInv, IInv, TypeOK, Handles
  <2>2. published > 0
    BY <2>1, GoalNumbers DEF FollowInv, ClientType, OrderInv
  <2>3. pending_path = None /\ goalReqs = <<>> /\ arriving = None
    BY DEF Quiet, FollowInv, PendingIsSent
  <2>4. state[published] # "unsent"
    <3>1. \A i \in DOMAIN goalReqs : FALSE
      BY <2>3
    <3> QED
      BY <2>1, <2>2, <2>3, <3>1 DEF FollowInv, OrderInv
  <2>5. published # None
    BY <2>2, GoalNumbers DEF FollowInv, ClientType
  <2> QED
    BY <2>2, <2>3, <2>4, <2>5 DEF FollowInv, LatestInv
<1> QED
  BY <1>1, FollowAlways, PTL
=============================================================================
