-------------------------- MODULE MCLifecycleManager --------------------------
(* An instance of LifecycleManager for TLC: node_names of                       *)
(* mppi_controller.launch.py.                                                   *)
EXTENDS LifecycleManager

LaunchNodes == <<"planner_server", "controller_server">>
=============================================================================
