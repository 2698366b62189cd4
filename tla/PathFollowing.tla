------------------------------ MODULE PathFollowing ------------------------------
(***************************************************************************)
(* The ROS node mppi_path_client and the FollowPath server together.       *)
(*                                                                         *)
(* The client is single-threaded: one callback at a time.  It sends a goal *)
(* to the planner, the path that comes back (or one from a CSV file or topic) to   *)
(* FollowPath, cancelling the path before first.  A path is numbered when  *)
(* it is published on active_path, and its number is its goal at the       *)
(* server.  Requests and answers of one ROS service keep their order;      *)
(* those of different services (goals, cancellations, results) do not.     *)
(***************************************************************************)
EXTENDS ActionServer, Sequences

CONSTANTS
  MaxPaths,     \* bound on the paths sent; Goals = 1..MaxPaths
  MaxRequests   \* bound on the goals sent to the planner

ASSUME ClientAssumption ==
  MaxPaths \in Nat /\ Goals = 1..MaxPaths /\ BadGoals = {} /\ MaxRequests \in Nat

VARIABLES
  current_goal_handle, pending_path, is_planning, planning_request_id,
  published,   \* the last path published on active_path, 0 before the first
  plan,        \* state of every request to the planner
  goalReqs, goalReplies,     \* send_goal requests and answers under way
  cancelReqs, cancelReplies, \* cancel_goal requests, and the number of answers
  resultReqs   \* goals whose result the client waits for

clientVars  == <<current_goal_handle, pending_path, published>>
planVars    == <<is_planning, planning_request_id, plan>>
messageVars == <<goalReqs, goalReplies, cancelReqs, cancelReplies, resultReqs>>
serverVars  == vars
allVars == <<clientVars, planVars, messageVars, serverVars>>

Requests == 1..MaxRequests

\* A path from a CSV file is shown at the start, and sent if auto_send_csv is set
\* and the server is there.
ClientInit ==
  /\ \/ published = 0 /\ goalReqs = <<>>
     \/ published = 1 /\ MaxPaths >= 1 /\ goalReqs \in {<<>>, <<1>>}
  /\ current_goal_handle = None /\ pending_path = None
  /\ is_planning = FALSE /\ planning_request_id = 0
  /\ plan = [r \in Requests |-> "none"]
  /\ goalReplies = <<>> /\ cancelReqs = <<>> /\ cancelReplies = 0 /\ resultReqs = {}
-----------------------------------------------------------------------------
(* Callbacks of the client.                                                *)

\* Mutant: a path that waits for a cancellation is not replaced by a newer one.
KeepFirstPending ==
  /\ published < MaxPaths
  /\ published' = published + 1
  /\ IF current_goal_handle # None
       THEN /\ pending_path' = IF pending_path = None THEN published' ELSE pending_path
            /\ cancelReqs' = Append(cancelReqs, current_goal_handle)
            /\ UNCHANGED <<current_goal_handle, goalReqs>>
       ELSE /\ goalReqs' = Append(goalReqs, published')
            /\ pending_path' = None
            /\ UNCHANGED <<current_goal_handle, cancelReqs>>
  /\ UNCHANGED <<goalReplies, cancelReplies, resultReqs>>

\* send_path(): publishes the path; sends it, or cancels the one before first.
SendPath ==
  /\ published < MaxPaths
  /\ published' = published + 1
  /\ IF current_goal_handle # None
       THEN /\ pending_path' = published'
            /\ cancelReqs' = Append(cancelReqs, current_goal_handle)
            /\ UNCHANGED <<current_goal_handle, goalReqs>>
       ELSE /\ goalReqs' = Append(goalReqs, published')
            /\ pending_path' = None
            /\ UNCHANGED <<current_goal_handle, cancelReqs>>
  /\ UNCHANGED <<goalReplies, cancelReplies, resultReqs>>

path_callback ==
  /\ SendPath
  /\ UNCHANGED <<planVars, serverVars>>

\* goal_callback() and plan_to_goal(), the planner being available.
goal_callback ==
  /\ planning_request_id < MaxRequests
  /\ planning_request_id' = planning_request_id + 1
  /\ is_planning' = TRUE
  /\ plan' = [plan EXCEPT ![planning_request_id'] = "asked"]
  /\ UNCHANGED <<clientVars, messageVars, serverVars>>

planner_goal_response_callback(r) ==
  /\ plan[r] = "asked"
  /\ \/ /\ r # planning_request_id
        /\ plan' = [plan EXCEPT ![r] = "over"] /\ UNCHANGED is_planning
     \/ /\ r = planning_request_id
        /\ plan' = [plan EXCEPT ![r] = "accepted"] /\ UNCHANGED is_planning
     \/ /\ r = planning_request_id   \* rejected, or an exception
        /\ plan' = [plan EXCEPT ![r] = "over"] /\ is_planning' = FALSE
  /\ UNCHANGED <<planning_request_id, clientVars, messageVars, serverVars>>

planner_result_callback(r) ==
  /\ plan[r] = "accepted"
  /\ plan' = [plan EXCEPT ![r] = "over"]
  /\ \/ /\ r # planning_request_id
        /\ UNCHANGED <<is_planning, clientVars, messageVars>>
     \/ /\ r = planning_request_id /\ is_planning' = FALSE
        /\ \/ SendPath
           \/ UNCHANGED <<clientVars, messageVars>>   \* no path, or no server
  /\ UNCHANGED <<planning_request_id, serverVars>>

\* Mutant: nothing is sent if the handle is already gone.
SendPendingIfHandle ==
  /\ cancelReplies > 0 /\ cancelReplies' = cancelReplies - 1
  /\ IF current_goal_handle = None
       THEN UNCHANGED <<goalReqs, pending_path>>
       ELSE /\ goalReqs' = IF pending_path = None THEN goalReqs
                           ELSE Append(goalReqs, pending_path)
            /\ pending_path' = None
  /\ current_goal_handle' = None
  /\ UNCHANGED <<published, planVars, goalReplies, cancelReqs, resultReqs, serverVars>>

\* _send_pending() when a cancellation is answered, whatever the answer.
send_pending ==
  /\ cancelReplies > 0 /\ cancelReplies' = cancelReplies - 1
  /\ goalReqs' = IF pending_path = None THEN goalReqs ELSE Append(goalReqs, pending_path)
  /\ pending_path' = None /\ current_goal_handle' = None
  /\ UNCHANGED <<published, planVars, goalReplies, cancelReqs, resultReqs, serverVars>>

\* Mutant: the result of a goal is not asked for when a newer path waits.
ResponseIgnored ==
  /\ goalReplies # <<>> /\ goalReplies' = Tail(goalReplies)
  /\ LET reply == Head(goalReplies) IN
       IF reply.accepted /\ pending_path = None
         THEN current_goal_handle' = reply.goal /\ resultReqs' = resultReqs \cup {reply.goal}
         ELSE current_goal_handle' = None /\ UNCHANGED resultReqs
  /\ UNCHANGED <<pending_path, published, planVars, goalReqs, cancelReqs, cancelReplies,
                 serverVars>>

goal_response_callback ==
  /\ goalReplies # <<>> /\ goalReplies' = Tail(goalReplies)
  /\ LET reply == Head(goalReplies) IN
       IF reply.accepted
         THEN current_goal_handle' = reply.goal /\ resultReqs' = resultReqs \cup {reply.goal}
         ELSE current_goal_handle' = None /\ UNCHANGED resultReqs
  /\ UNCHANGED <<pending_path, published, planVars, goalReqs, cancelReqs, cancelReplies,
                 serverVars>>

result_callback(g) ==
  /\ g \in resultReqs /\ state[g] \in Final
  /\ resultReqs' = resultReqs \ {g} /\ current_goal_handle' = None
  /\ UNCHANGED <<pending_path, published, planVars, goalReqs, goalReplies, cancelReqs,
                 cancelReplies, serverVars>>
-----------------------------------------------------------------------------
(* The server takes the requests.                                          *)

TakeGoal ==
  /\ Alive /\ goalReqs # <<>> /\ handle_goal(Head(goalReqs))
  /\ goalReqs' = Tail(goalReqs)
  /\ goalReplies' = Append(goalReplies, [goal |-> Head(goalReqs), accepted |-> server_active])
  /\ UNCHANGED <<clientVars, planVars, cancelReqs, cancelReplies, resultReqs>>

TakeCancel ==
  /\ Alive /\ cancelReqs # <<>> /\ arriving = None
  /\ \/ handle_cancel(Head(cancelReqs))
     \/ state[Head(cancelReqs)] # "executing" /\ UNCHANGED serverVars
  /\ cancelReqs' = Tail(cancelReqs) /\ cancelReplies' = cancelReplies + 1
  /\ UNCHANGED <<clientVars, planVars, goalReqs, goalReplies, resultReqs>>

ServerRuns ==
  /\ Alive /\ (Accepting \/ Work \/ Lifecycle)
  /\ UNCHANGED <<clientVars, planVars, messageVars>>

FollowInit == Init /\ ClientInit

FollowNext ==
  \/ path_callback \/ goal_callback \/ send_pending \/ goal_response_callback
  \/ \E r \in Requests : planner_goal_response_callback(r) \/ planner_result_callback(r)
  \/ \E g \in Goals : result_callback(g)
  \/ TakeGoal \/ TakeCancel \/ ServerRuns

FollowSpec == FollowInit /\ [][FollowNext]_allVars
-----------------------------------------------------------------------------
\* Nothing is under way between client and server.
Quiet ==
  /\ goalReqs = <<>> /\ goalReplies = <<>> /\ cancelReqs = <<>> /\ cancelReplies = 0
  /\ arriving = None /\ \A g \in resultReqs : state[g] \notin Final

\* Once the messages are through, the goal the server works on is the path last
\* shown on active_path, however the cancellations and goals were interleaved;
\* unless the server, being deactivated, refused that path.
FollowsPublished ==
  Quiet /\ is_active(current) /\ ~preempt_requested /\ state[published] # "rejected" =>
    current = published

\* The client never forgets a path: one kept in pending_path has a cancellation
\* whose answer will send it.
PendingIsSent == pending_path # None => cancelReqs # <<>> \/ cancelReplies > 0

\* Every goal the server still works on has somebody waiting for its result.
NobodyForgotten ==
  \A g \in Goals :
    is_active(g) => g \in resultReqs \/ \E i \in DOMAIN goalReplies : goalReplies[i].goal = g

=============================================================================
