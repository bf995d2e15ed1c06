------------------------------- MODULE ServerVars -------------------------------
(***************************************************************************)
(* The state of a behaviour of MCRuns or MCServer, which is one of a part  *)
(* of the server: v1, v2, ... are the variables of that part, in the order *)
(* of its module.                                                          *)
(***************************************************************************)
VARIABLES
  machine,   \* which part runs
  v1, v2, v3, v4, v5, v6, v7, v8, v9
=================================================================================
